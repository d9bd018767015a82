------------------------- MODULE SessionHubProofs -------------------------
(***************************************************************************)
(* Proofs about SessionHub, for any sessions, streams, posters and bound:  *)
(* types, RegistryLive, NoLostUpdate, and the refinement of Mailbox.       *)
(*                                                                         *)
(* NoLostUpdate is not inductive.  PosterShape says that a poster holds    *)
(* references to channels only inside its loop, so that none is dropped    *)
(* when a loop begins or ends.  FirstSend says that a registered stream    *)
(* has sent something only if its slot is full, so that an empty slot      *)
(* never makes it outdated; it fails for streams the collector orphaned.   *)
(***************************************************************************)
EXTENDS SessionHub, TLAPS

PosterShape ==
    \A p \in Posters :
        /\ ppc[p] = "idle" => todo[p] = {} /\ over[p] = {}
        /\ ppc[p] # "send" => cur[p] = {}
        /\ \A s1, s2 \in cur[p] : s1 = s2

FirstSend ==
    \A st \in Streams :
        /\ spc[st] = "off" => sent[st] = 0
        /\ st \in watch[skey[st]] /\ slot[skey[st]] = 0 => sent[st] = 0

Inv == TypeOK /\ RegistryLive /\ PosterShape /\ FirstSend /\ NoLostUpdate

-----------------------------------------------------------------------------
(* Types.                                                                  *)

\* The first component of a slot's key is a session.
LEMMA KeySession == \A k \in Key : k[1] \in Sessions
  BY DEF Key

\* The hub starts in well-typed states (newSessionHub).
LEMMA InitTypeOK == Init => TypeOK
  <1> SUFFICES ASSUME Init
               PROVE  TypeOK
    OBVIOUS
  <1>1. token \in [Streams -> BOOLEAN] /\ fatal \in BOOLEAN
    BY Zenon DEF Init
  <1>2. 0 \in 0..MaxPosts
    BY MaxPostsAssumption
  <1> QED
    BY <1>1, <1>2 DEF Init, TypeOK

\* Every step of a handler, of the collector or of the runtime keeps the types.
LEMMA StepTypeOK == TypeOK /\ [Next]_vars => TypeOK'
  <1> SUFFICES ASSUME TypeOK, [Next]_vars
               PROVE  TypeOK'
    OBVIOUS
  <1> USE DEF TypeOK
  <1>1. ASSUME NEW p \in Posters, NEW k \in Key, Post(p, k)
        PROVE  TypeOK'
    <2>1. clock + 1 \in 0..MaxPosts
      BY <1>1, MaxPostsAssumption DEF Post
    <2> QED
      BY <1>1, <2>1, KeySession DEF Post, stream, TTLTicks
  <1>2. ASSUME NEW p \in Posters, Pick(p)
        PROVE  TypeOK'
    BY <1>2 DEF Pick, hub, stream
  <1>3. ASSUME NEW p \in Posters, Notify(p)
        PROVE  TypeOK'
    <2>1. token' \in [Streams -> BOOLEAN]
      BY <1>3, Zenon DEF Notify
    <2> QED
      BY <1>3, <2>1 DEF Notify, hub
  <1>4. ASSUME NEW p \in Posters, NotifyPanic(p)
        PROVE  TypeOK'
    BY <1>4 DEF NotifyPanic, hub, stream
  <1>5. ASSUME NEW p \in Posters, PostDone(p)
        PROVE  TypeOK'
    BY <1>5 DEF PostDone, hub, stream
  <1>6. ASSUME NEW st \in Streams, Watch(st)
        PROVE  TypeOK'
    <2>1. todo' \in [Posters -> SUBSET Streams]
      BY <1>6 DEF Watch
    <2>2. fatal' \in BOOLEAN
      BY <1>6, Zenon DEF Watch, MapWrite
    <2> QED
      BY <1>6, <2>1, <2>2 DEF Watch
  <1>7. ASSUME NEW st \in Streams, SendSSE(st)
        PROVE  TypeOK'
    BY <1>7 DEF SendSSE, hub, poster
  <1>8. ASSUME NEW st \in Streams, Flush(st)
        PROVE  TypeOK'
    BY <1>8 DEF Flush, hub, poster
  <1>9. ASSUME NEW st \in Streams, Wake(st)
        PROVE  TypeOK'
    BY <1>9 DEF Wake, hub, poster
  <1>10. ASSUME NEW st \in Streams, Unwatch(st)
         PROVE  TypeOK'
    <2>1. fatal' \in BOOLEAN
      BY <1>10, Zenon DEF Unwatch, MapWrite
    <2> QED
      BY <1>10, <2>1 DEF Unwatch
  <1>11. ASSUME NEW st \in Streams, CloseChannel(st)
         PROVE  TypeOK'
    BY <1>11 DEF CloseChannel, hub, poster
  <1>12. CASE GcTick
    <2>1. age' \in [Sessions -> {Absent} \cup 0..TTLTicks]
      BY <1>12 DEF GcTick, Absent, TTLTicks
    <2>2. slot' \in [Key -> 0..MaxPosts]
      BY <1>12, MaxPostsAssumption DEF GcTick
    <2> QED
      BY <1>12, <2>1, <2>2 DEF GcTick, stream
  <1>13. CASE Restart
    <2>1. token' \in [Streams -> BOOLEAN] /\ fatal' \in BOOLEAN
      BY <1>13, Zenon DEF Restart
    <2>2. 0 \in 0..MaxPosts
      BY MaxPostsAssumption
    <2> QED
      BY <1>13, <2>1, <2>2 DEF Restart
  <1>14. CASE UNCHANGED vars
    BY <1>14 DEF vars, hub, stream, poster
  <1> QED
    BY <1>1, <1>2, <1>3, <1>4, <1>5, <1>6, <1>7, <1>8, <1>9, <1>10, <1>11, <1>12,
       <1>13, <1>14 DEF Next, PosterStep, StreamStep

\* Every reachable state of the hub is well typed.
THEOREM TypeCorrect == Spec => []TypeOK
  BY InitTypeOK, StepTypeOK, PTL DEF Spec

-----------------------------------------------------------------------------
(* The registry.                                                           *)

\* No step puts a closed channel into the hub, or closes one that is in it.
LEMMA StepRegistryLive == TypeOK /\ RegistryLive /\ [Next]_vars => RegistryLive'
  <1> SUFFICES ASSUME TypeOK, RegistryLive, [Next]_vars
               PROVE  RegistryLive'
    OBVIOUS
  <1> USE DEF TypeOK, RegistryLive
  <1>1. ASSUME NEW p \in Posters, NEW k \in Key, Post(p, k)
        PROVE  RegistryLive'
    BY <1>1 DEF Post, stream
  <1>2. ASSUME NEW p \in Posters, PosterStep(p)
        PROVE  RegistryLive'
    BY <1>2 DEF PosterStep, Pick, Notify, NotifyPanic, PostDone, hub, stream
  <1>3. ASSUME NEW st \in Streams, Watch(st)
        PROVE  RegistryLive'
    BY <1>3 DEF Watch
  <1>4. ASSUME NEW st \in Streams, Unwatch(st)
        PROVE  RegistryLive'
    BY <1>4 DEF Unwatch
  <1>5. ASSUME NEW st \in Streams, StreamStep(st)
        PROVE  RegistryLive'
    BY <1>5 DEF StreamStep, SendSSE, Flush, Wake, CloseChannel, hub
  <1>6. CASE GcTick
    BY <1>6 DEF GcTick, stream
  <1>7. CASE Restart
    BY <1>7 DEF Restart
  <1>8. CASE UNCHANGED vars
    BY <1>8 DEF vars, hub, stream
  <1> QED
    BY <1>1, <1>2, <1>3, <1>4, <1>5, <1>6, <1>7, <1>8 DEF Next

-----------------------------------------------------------------------------
(* The strengthening.                                                      *)

\* A poster refers to channels only inside its loop, and is at one at a time.
LEMMA StepPosterShape == TypeOK /\ PosterShape /\ [Next]_vars => PosterShape'
  <1> SUFFICES ASSUME TypeOK, PosterShape, [Next]_vars
               PROVE  PosterShape'
    OBVIOUS
  <1> USE DEF TypeOK, PosterShape
  <1>1. ASSUME NEW p \in Posters, NEW k \in Key, Post(p, k)
        PROVE  PosterShape'
    BY <1>1 DEF Post
  <1>2. ASSUME NEW p \in Posters, Pick(p)
        PROVE  PosterShape'
    BY <1>2 DEF Pick
  <1>3. ASSUME NEW p \in Posters, Notify(p) \/ NotifyPanic(p) \/ PostDone(p)
        PROVE  PosterShape'
    BY <1>3 DEF Notify, NotifyPanic, PostDone
  <1>4. ASSUME NEW st \in Streams, Watch(st)
        PROVE  PosterShape'
    <2>1. PICK P \in SUBSET Ranging(skey[st]) :
            todo' = [p \in Posters |-> IF p \in P THEN todo[p] \cup {st} ELSE todo[p]]
      BY <1>4 DEF Watch
    <2>2. \A p \in P : p \in Posters /\ ppc[p] # "idle"
      BY <2>1 DEF Ranging
    <2> QED
      BY <1>4, <2>1, <2>2 DEF Watch
  <1>5. ASSUME NEW st \in Streams, Unwatch(st)
        PROVE  PosterShape'
    BY <1>5 DEF Unwatch
  <1>6. ASSUME NEW st \in Streams, StreamStep(st)
        PROVE  PosterShape'
    BY <1>6 DEF StreamStep, SendSSE, Flush, Wake, CloseChannel, poster
  <1>7. CASE GcTick
    BY <1>7 DEF GcTick
  <1>8. CASE Restart
    BY <1>8 DEF Restart
  <1>9. CASE UNCHANGED vars
    BY <1>9 DEF vars, poster
  <1> QED
    BY <1>1, <1>2, <1>3, <1>4, <1>5, <1>6, <1>7, <1>8, <1>9 DEF Next, PosterStep

\* A registered stream has sent something only if its slot is full.
LEMMA StepFirstSend ==
    TypeOK /\ RegistryLive /\ FirstSend /\ [Next]_vars => FirstSend'
  <1> SUFFICES ASSUME TypeOK, RegistryLive, FirstSend, [Next]_vars
               PROVE  FirstSend'
    OBVIOUS
  <1> USE DEF TypeOK, FirstSend
  <1>1. ASSUME NEW p \in Posters, NEW k \in Key, Post(p, k)
        PROVE  FirstSend'
    <2>1. slot'[k] # 0 /\ \A j \in Key : j # k => slot'[j] = slot[j]
      BY <1>1 DEF Post
    <2> QED
      BY <1>1, <2>1 DEF Post, stream
  <1>2. ASSUME NEW p \in Posters, PosterStep(p)
        PROVE  FirstSend'
    BY <1>2 DEF PosterStep, Pick, Notify, NotifyPanic, PostDone, hub, stream
  <1>3. ASSUME NEW st \in Streams, Watch(st)
        PROVE  FirstSend'
    BY <1>3 DEF Watch
  <1>4. ASSUME NEW st \in Streams, Unwatch(st)
        PROVE  FirstSend'
    BY <1>4 DEF Unwatch
  <1>5. ASSUME NEW st \in Streams, StreamStep(st)
        PROVE  FirstSend'
    BY <1>5 DEF StreamStep, SendSSE, Flush, Wake, CloseChannel, hub
  <1>6. CASE GcTick
    <2>1. \A k \in Key : watch'[k] = {} \/ (watch'[k] = watch[k] /\ slot'[k] = slot[k])
      BY <1>6 DEF GcTick
    <2> QED
      BY <1>6, <2>1 DEF GcTick, stream
  <1>7. CASE Restart
    BY <1>7 DEF Restart
  <1>8. CASE UNCHANGED vars
    BY <1>8 DEF vars, hub, stream
  <1> QED
    BY <1>1, <1>2, <1>3, <1>4, <1>5, <1>6, <1>7, <1>8 DEF Next

-----------------------------------------------------------------------------
(* No lost update.                                                         *)

\* A step that leaves the hub and the values sent alone loses no update, if it
\* keeps the notifications that are on the way.
LEMMA KeepsNotifications ==
    ASSUME NoLostUpdate, UNCHANGED <<slot, watch, skey, sent>>,
           \A st \in Streams :
              /\ spc'[st] \in {"writing", "wait"} => spc[st] \in {"writing", "wait"}
              /\ Told(st) \/ st \in cut => Told(st)' \/ st \in cut'
    PROVE  NoLostUpdate'
  BY DEF NoLostUpdate, Outdated

\* Posts: every registered stream is among those that the poster will notify.
LEMMA PostLosesNothing ==
    ASSUME Inv, NEW p \in Posters, NEW k \in Key, Post(p, k)
    PROVE  NoLostUpdate'
  <1> USE DEF Inv, TypeOK
  <1>1. todo[p] = {} /\ cur[p] = {}
    BY DEF Post, PosterShape
  <1>2. todo'[p] = watch[k] /\ \A q \in Posters : q # p => todo'[q] = todo[q]
    BY DEF Post
  <1>3. \A st \in Streams : Told(st) => Told(st)'
    BY <1>1, <1>2 DEF Told, Post, stream
  <1>4. \A st \in Streams : st \in watch[k] => Told(st)'
    BY <1>2 DEF Told
  <1>5. \A j \in Key : j # k => slot'[j] = slot[j]
    BY DEF Post
  <1>6. UNCHANGED <<watch, skey, sent, spc, cut>>
    BY DEF Post, stream
  <1> QED
    BY <1>3, <1>4, <1>5, <1>6 DEF NoLostUpdate, Outdated

\* The range loop: a stream moves from the loop to its channel, or is cut.
LEMMA RangeLosesNothing ==
    ASSUME Inv, NEW p \in Posters, PosterStep(p)
    PROVE  NoLostUpdate'
  <1> USE DEF Inv, TypeOK
  <1>1. CASE Pick(p)
    <2>1. cur[p] = {}
      BY <1>1 DEF Pick, PosterShape
    <2>2. todo[p] \subseteq todo'[p] \cup cur'[p]
      BY <1>1 DEF Pick
    <2>3. \A q \in Posters : q # p => todo'[q] = todo[q] /\ cur'[q] = cur[q]
      BY <1>1 DEF Pick
    <2>4. \A st \in Streams : Told(st) => Told(st)'
      BY <1>1, <2>1, <2>2, <2>3 DEF Told, Pick, stream
    <2> QED
      BY <1>1, <2>4, KeepsNotifications DEF Pick, hub, stream
  <1>2. CASE Notify(p)
    <2>1. \A st \in Streams : token[st] \/ st \in cur[p] => token'[st]
      BY <1>2, Zenon DEF Notify
    <2>2. \A q \in Posters : q # p => cur'[q] = cur[q]
      BY <1>2 DEF Notify
    <2>3. \A st \in Streams : Told(st) => Told(st)'
      BY <1>2, <2>1, <2>2 DEF Told, Notify
    <2> QED
      BY <1>2, <2>3, KeepsNotifications DEF Notify, hub
  <1>3. CASE NotifyPanic(p)
    <2>1. \A st \in cur[p] : spc[st] = "closed"
      BY <1>3 DEF NotifyPanic, PosterShape
    <2>2. \A q \in Posters : q # p => todo'[q] = todo[q] /\ cur'[q] = cur[q]
      BY <1>3 DEF NotifyPanic
    <2>3. \A st \in Streams : spc[st] # "closed" /\ Told(st) => Told(st)' \/ st \in cut'
      BY <1>3, <2>1, <2>2 DEF Told, NotifyPanic, stream
    <2>4. UNCHANGED <<slot, watch, skey, sent, spc>> /\ cut \subseteq cut'
      BY <1>3 DEF NotifyPanic, hub, stream
    <2> QED
      BY <2>3, <2>4 DEF NoLostUpdate, Outdated
  <1>4. CASE PostDone(p)
    <2>1. \A st \in Streams : Told(st) => Told(st)'
      BY <1>4 DEF Told, PostDone, stream
    <2> QED
      BY <1>4, <2>1, KeepsNotifications DEF PostDone, hub, stream
  <1> QED
    BY <1>1, <1>2, <1>3, <1>4 DEF PosterStep

\* The stream handlers: a stream is registered before it reads the slot, and
\* reads it again for each notification it takes.
LEMMA StreamLosesNothing ==
    ASSUME Inv, NEW st \in Streams, Watch(st) \/ Unwatch(st) \/ StreamStep(st)
    PROVE  NoLostUpdate'
  <1> USE DEF Inv, TypeOK
  <1>1. CASE Watch(st)
    <2>1. \A q \in Posters : todo[q] \subseteq todo'[q]
      BY <1>1 DEF Watch
    <2>2. \A s \in Streams : Told(s) => Told(s)'
      BY <1>1, <2>1 DEF Told, Watch
    <2>3. /\ spc'[st] = "reading"
          /\ \A s \in Streams : s # st =>
                spc'[s] = spc[s] /\ (s \in watch'[skey[s]] => s \in watch[skey[s]])
          /\ UNCHANGED <<slot, skey, sent, cut>>
      BY <1>1 DEF Watch
    <2> QED
      BY <2>2, <2>3 DEF NoLostUpdate, Outdated
  <1>2. CASE Unwatch(st)
    <2>1. \A q \in Posters : todo[q] \subseteq todo'[q] \cup {st}
      BY <1>2 DEF Unwatch
    <2>2. \A s \in Streams : s # st /\ Told(s) => Told(s)'
      BY <1>2, <2>1 DEF Told, Unwatch
    <2>3. /\ spc'[st] = "stopping"
          /\ \A s \in Streams : s # st =>
                /\ spc'[s] = spc[s]
                /\ s \in watch'[skey[s]] => s \in watch[skey[s]]
                /\ s \in cut => s \in cut'
          /\ UNCHANGED <<slot, skey, sent>>
      BY <1>2 DEF Unwatch
    <2> QED
      BY <2>2, <2>3 DEF NoLostUpdate, Outdated
  <1>3. CASE SendSSE(st)
    <2>1. ~Outdated(st)'
      BY <1>3 DEF SendSSE, hub, FirstSend, Outdated
    <2>2. \A s \in Streams : s # st =>
             spc'[s] = spc[s] /\ sent'[s] = sent[s] /\ (s \in cut => s \in cut')
      BY <1>3 DEF SendSSE
    <2>3. \A s \in Streams : Told(s) => Told(s)'
      BY <1>3 DEF Told, SendSSE, poster
    <2>4. UNCHANGED <<slot, watch, skey>>
      BY <1>3 DEF SendSSE, hub
    <2> QED
      BY <2>1, <2>2, <2>3, <2>4 DEF NoLostUpdate, Outdated
  <1>4. CASE Flush(st)
    <2>1. \A s \in Streams : Told(s) => Told(s)'
      BY <1>4 DEF Told, Flush, poster
    <2> QED
      BY <1>4, <2>1, KeepsNotifications DEF Flush, hub
  <1>5. CASE Wake(st) \/ CloseChannel(st)
    <2>1. spc'[st] \notin {"writing", "wait"}
      BY <1>5 DEF Wake, CloseChannel
    <2>2. \A s \in Streams : s # st => spc'[s] = spc[s] /\ token'[s] = token[s]
      BY <1>5 DEF Wake, CloseChannel
    <2>3. \A s \in Streams : s # st /\ Told(s) => Told(s)'
      BY <1>5, <2>2 DEF Told, Wake, CloseChannel, poster
    <2>4. UNCHANGED <<slot, watch, skey, sent, cut>>
      BY <1>5 DEF Wake, CloseChannel, hub
    <2> QED
      BY <2>1, <2>2, <2>3, <2>4 DEF NoLostUpdate, Outdated
  <1> QED
    BY <1>1, <1>2, <1>3, <1>4, <1>5 DEF StreamStep

\* The collector empties a slot together with its registrations, and a restart
\* empties everything.
LEMMA CollectorLosesNothing ==
    ASSUME Inv, GcTick \/ Restart
    PROVE  NoLostUpdate'
  <1> USE DEF Inv, TypeOK
  <1>1. CASE GcTick
    <2>1. \A k \in Key : watch'[k] = {} \/ (watch'[k] = watch[k] /\ slot'[k] = slot[k])
      BY <1>1 DEF GcTick
    <2>2. \A s \in Streams : Told(s) => Told(s)'
      BY <1>1 DEF Told, GcTick, stream
    <2> QED
      BY <1>1, <2>1, <2>2 DEF NoLostUpdate, Outdated, GcTick, stream
  <1>2. CASE Restart
    BY <1>2 DEF NoLostUpdate, Outdated, Restart
  <1> QED
    BY <1>1, <1>2

\* Inv holds initially.
LEMMA InitInv == Init => Inv
  <1> SUFFICES ASSUME Init
               PROVE  Inv
    OBVIOUS
  <1>1. TypeOK
    BY InitTypeOK
  <1>2. RegistryLive /\ NoLostUpdate
    BY <1>1 DEF Init, RegistryLive, NoLostUpdate, Outdated, TypeOK
  <1>3. PosterShape /\ FirstSend
    BY <1>1 DEF Init, PosterShape, FirstSend, TypeOK
  <1> QED
    BY <1>1, <1>2, <1>3 DEF Inv

\* Inv is inductive.
LEMMA StepInv == Inv /\ [Next]_vars => Inv'
  <1> SUFFICES ASSUME Inv, [Next]_vars
               PROVE  Inv'
    OBVIOUS
  <1>1. TypeOK' /\ RegistryLive' /\ PosterShape' /\ FirstSend'
    BY StepTypeOK, StepRegistryLive, StepPosterShape, StepFirstSend DEF Inv
  <1>2. NoLostUpdate'
    <2>1. CASE UNCHANGED vars
      BY <2>1 DEF Inv, NoLostUpdate, Outdated, Told, vars, hub, stream, poster
    <2> QED
      BY <2>1, PostLosesNothing, RangeLosesNothing, StreamLosesNothing,
         CollectorLosesNothing DEF Next
  <1> QED
    BY <1>1, <1>2 DEF Inv

\* The strengthened invariant holds in every reachable state.
THEOREM Invariance == Spec => []Inv
  BY InitInv, StepInv, PTL DEF Spec

\* Never is a closed channel, or one of another slot, registered in the hub.
THEOREM RegistryIsLive == Spec => []RegistryLive
  <1>1. Inv => RegistryLive
    BY DEF Inv
  <1> QED
    BY Invariance, <1>1, PTL

\* No posted offer or answer is lost for a registered stream, except behind the
\* panic of a poster in its range loop.
THEOREM NoUpdateIsLost == Spec => []NoLostUpdate
  <1>1. Inv => NoLostUpdate
    BY DEF Inv
  <1> QED
    BY Invariance, <1>1, PTL

-----------------------------------------------------------------------------
(* The hub implements the mailbox.                                         *)

\* The initial states of the hub are initial states of the mailbox.
LEMMA InitRefines == Init => M!Init
  BY DEF Init, M!Init, M!Key, M!Kinds, Key, Kinds, Mode

\* Every step of the hub is a step of the mailbox or changes none of its state.
LEMMA StepRefines == TypeOK /\ [Next]_vars => [M!Next]_(M!mvars)
  <1> SUFFICES ASSUME TypeOK, [Next]_vars
               PROVE  [M!Next]_(M!mvars)
    OBVIOUS
  <1> USE DEF TypeOK
  <1>1. ASSUME NEW p \in Posters, NEW k \in Key, Post(p, k)
        PROVE  M!Put(k)
    BY <1>1 DEF Post, stream, M!Put
  <1>2. ASSUME NEW p \in Posters, PosterStep(p)
        PROVE  UNCHANGED M!mvars
    BY <1>2 DEF PosterStep, Pick, Notify, NotifyPanic, PostDone, hub, stream, M!mvars
  <1>3. ASSUME NEW st \in Streams, Watch(st)
        PROVE  M!Open(st)
    BY <1>3 DEF Watch, M!Open, Mode
  <1>4. ASSUME NEW st \in Streams, SendSSE(st)
        PROVE  M!Deliver(st) \/ UNCHANGED M!mvars
    <2>1. [s \in Streams |-> Mode(spc[s])]' = [s \in Streams |-> Mode(spc[s])]
      BY <1>4 DEF SendSSE, Mode
    <2>2. CASE slot[skey[st]] = 0
      <3>1. sent' = sent
        BY <1>4, <2>2 DEF SendSSE
      <3> QED
        BY <1>4, <2>1, <3>1 DEF SendSSE, hub, M!mvars
    <2>3. CASE slot[skey[st]] # 0
      BY <1>4, <2>1, <2>3 DEF SendSSE, hub, M!Deliver, Mode
    <2> QED
      BY <2>2, <2>3
  <1>5. ASSUME NEW st \in Streams, Flush(st) \/ Wake(st) \/ CloseChannel(st)
        PROVE  UNCHANGED M!mvars
    BY <1>5 DEF Flush, Wake, CloseChannel, hub, Mode, M!mvars
  <1>6. ASSUME NEW st \in Streams, Unwatch(st)
        PROVE  M!Shut(st)
    BY <1>6 DEF Unwatch, M!Shut, Mode
  <1>7. ASSUME GcTick
        PROVE  \E S \in SUBSET Sessions : M!Expire(S)
    <2>1. M!Expire({s \in Sessions : age[s] = TTLTicks})
      BY <1>7 DEF GcTick, stream, M!Expire, M!Key, M!Kinds, Key, Kinds
    <2> QED
      BY <2>1
  <1>8. ASSUME Restart
        PROVE  M!Reboot
    BY <1>8 DEF Restart, M!Reboot, M!Key, M!Kinds, Key, Kinds, Mode
  <1>9. CASE UNCHANGED vars
    BY <1>9 DEF vars, hub, stream, M!mvars
  <1>10. Key = M!Key
    BY DEF Key, Kinds, M!Key, M!Kinds
  <1> QED
    BY <1>1, <1>2, <1>3, <1>4, <1>5, <1>6, <1>7, <1>8, <1>9, <1>10
       DEF Next, StreamStep, M!Next

\* The detailed hub implements the abstract mailbox, for any number of
\* sessions, streams and posters.
THEOREM Refinement == Spec => ImplementsMailbox
  BY InitRefines, StepRefines, TypeCorrect, PTL DEF Spec, ImplementsMailbox, M!Spec

=============================================================================
