---------------------------- MODULE SessionHub ----------------------------
(***************************************************************************)
(* The offer/answer store of the signaling server (sessionHub) with the    *)
(* HTTP handlers that use it.  Posters are goroutines that run a POST,     *)
(* Streams are goroutines that run a GET .../stream; both interleave with  *)
(* each other and with the garbage collector at every lock and channel     *)
(* operation.                                                              *)
(*                                                                         *)
(* A Go map is a reference: a poster ranges over the watcher map it read   *)
(* under the lock after it has released the lock, while watchers are added *)
(* to and removed from that same map.  The Go runtime may abort the        *)
(* process on such a race, which is the nondeterministic choice of fatal.  *)
(***************************************************************************)
EXTENDS Integers, FiniteSets

CONSTANTS Sessions,   \* session ids
          Streams,    \* SSE connections; each stands for one channel
          Posters,    \* goroutines that serve POST requests
          MaxPosts    \* bound: posts in a behaviour

ASSUME MaxPostsAssumption == MaxPosts \in Nat

Kinds == {"offer", "answer"}
Key == Sessions \X Kinds

Absent == -1          \* age of a session the hub does not hold
TTLTicks == 2         \* ticks of ttl/2 that a session survives

VARIABLES
    slot,     \* slot[k]: number of the post that the entry holds, 0 if none
    age,      \* age[s]: collector ticks since UpdatedAt, or Absent
    watch,    \* watch[k]: channels in watchO[s] / watchA[s]; {} is no map
    clock,    \* number of posts so far
    spc,      \* control state of a stream handler
    skey,     \* the session and kind in the URL of a stream
    token,    \* token[st]: the channel of st (capacity 1) is full
    sent,     \* sent[st]: last post written to the client of st
    ppc,      \* control state of a poster
    over,     \* over[p] = {k}: the map p ranges over is the hub's map for k
    todo,     \* channels that its range loop has still to reach
    cur,      \* cur[p] = {st}: its range loop is at the channel of st
    cut,      \* streams that a panicking poster did not reach
    fatal     \* the runtime has aborted the process

hub == <<slot, age, watch, clock>>
stream == <<spc, skey, token, sent>>
poster == <<ppc, over, todo, cur>>
vars == <<hub, stream, poster, cut, fatal>>

Init ==
    /\ slot = [k \in Key |-> 0]
    /\ age = [s \in Sessions |-> Absent]
    /\ watch = [k \in Key |-> {}]
    /\ clock = 0
    /\ spc = [st \in Streams |-> "off"]
    /\ skey \in [Streams -> Key]
    /\ token = [st \in Streams |-> FALSE]
    /\ sent = [st \in Streams |-> 0]
    /\ ppc = [p \in Posters |-> "idle"]
    /\ over = [p \in Posters |-> {}]
    /\ todo = [p \in Posters |-> {}]
    /\ cur = [p \in Posters |-> {}]
    /\ cut = {}
    /\ fatal = FALSE

\* Posters inside a range loop over the map that the hub holds for k.
Ranging(k) == {p \in Posters : k \in over[p]}

\* A write to a map that somebody ranges over may abort the process.
MapWrite(k) == fatal' \in {FALSE, Ranging(k) # {}}

-----------------------------------------------------------------------------
(* POST /session/{id}/{kind}: handleSession, then setOffer or setAnswer.   *)

\* The section under the lock: store the body, stamp the entry, take the
\* reference to the watcher map.
Post(p, k) ==
    /\ ppc[p] = "idle"
    /\ clock < MaxPosts
    /\ clock' = clock + 1
    /\ slot' = [slot EXCEPT ![k] = clock + 1]
    /\ age' = [age EXCEPT ![k[1]] = 0]
    /\ ppc' = [ppc EXCEPT ![p] = "range"]
    /\ over' = [over EXCEPT ![p] = IF watch[k] = {} THEN {} ELSE {k}]
    /\ todo' = [todo EXCEPT ![p] = watch[k]]
    /\ UNCHANGED <<watch, stream, cur, cut, fatal>>

\* for ch := range watchers, in any order
Pick(p) ==
    /\ ppc[p] = "range"
    /\ \E st \in todo[p] :
         /\ todo' = [todo EXCEPT ![p] = @ \ {st}]
         /\ cur' = [cur EXCEPT ![p] = {st}]
    /\ ppc' = [ppc EXCEPT ![p] = "send"]
    /\ UNCHANGED <<hub, stream, over, cut, fatal>>

\* Mutant: the channel has no buffer.
NotifyUnbuffered(p) ==
    /\ ppc[p] = "send"
    /\ \A st \in cur[p] : spc[st] # "closed"
    /\ token' = [st \in Streams |-> token[st] \/ (st \in cur[p] /\ spc[st] = "wait")]
    /\ cur' = [cur EXCEPT ![p] = {}]
    /\ ppc' = [ppc EXCEPT ![p] = "range"]
    /\ UNCHANGED <<hub, spc, skey, sent, over, todo, cut, fatal>>

\* select { case ch <- struct{}{}: default: }
Notify(p) ==
    /\ ppc[p] = "send"
    /\ \A st \in cur[p] : spc[st] # "closed"
    /\ token' = [st \in Streams |-> token[st] \/ st \in cur[p]]
    /\ cur' = [cur EXCEPT ![p] = {}]
    /\ ppc' = [ppc EXCEPT ![p] = "range"]
    /\ UNCHANGED <<hub, spc, skey, sent, over, todo, cut, fatal>>

\* The send panics on a closed channel; net/http recovers the panic and
\* drops the request, so the rest of the loop does not run.
NotifyPanic(p) ==
    /\ ppc[p] = "send"
    /\ \E st \in cur[p] : spc[st] = "closed"
    /\ cut' = cut \cup todo[p]
    /\ ppc' = [ppc EXCEPT ![p] = "idle"]
    /\ over' = [over EXCEPT ![p] = {}]
    /\ todo' = [todo EXCEPT ![p] = {}]
    /\ cur' = [cur EXCEPT ![p] = {}]
    /\ UNCHANGED <<hub, stream, fatal>>

PostDone(p) ==
    /\ ppc[p] = "range"
    /\ todo[p] = {}
    /\ ppc' = [ppc EXCEPT ![p] = "idle"]
    /\ over' = [over EXCEPT ![p] = {}]
    /\ UNCHANGED <<hub, stream, todo, cur, cut, fatal>>

-----------------------------------------------------------------------------
(* GET /session/{id}/{kind}/stream: handleSessionStream.                   *)

\* Mutant: the handler does not send the current value first.
WatchNoSend(st) ==
    LET k == skey[st] IN
    /\ spc[st] = "off"
    /\ spc' = [spc EXCEPT ![st] = "wait"]
    /\ watch' = [watch EXCEPT ![k] = @ \cup {st}]
    /\ \E P \in SUBSET Ranging(k) :
         todo' = [p \in Posters |-> IF p \in P THEN todo[p] \cup {st}
                                               ELSE todo[p]]
    /\ MapWrite(k)
    /\ UNCHANGED <<slot, age, clock, skey, token, sent, ppc, over, cur, cut>>

\* watchOffer / watchAnswer: register the channel.  A loop that is ranging
\* over the same map may or may not produce the new entry.
Watch(st) ==
    LET k == skey[st] IN
    /\ spc[st] = "off"
    /\ spc' = [spc EXCEPT ![st] = "reading"]
    /\ watch' = [watch EXCEPT ![k] = @ \cup {st}]
    /\ \E P \in SUBSET Ranging(k) :
         todo' = [p \in Posters |-> IF p \in P THEN todo[p] \cup {st}
                                               ELSE todo[p]]
    /\ MapWrite(k)
    /\ UNCHANGED <<slot, age, clock, skey, token, sent, ppc, over, cur, cut>>

\* Mutant: offers and answers are mixed up.
SendOther(st) ==
    LET other == <<skey[st][1], CHOOSE kind \in Kinds : kind # skey[st][2]>> IN
    /\ spc[st] = "reading"
    /\ spc' = [spc EXCEPT ![st] = "writing"]
    /\ sent' = [sent EXCEPT ![st] = IF slot[other] = 0 THEN @ ELSE slot[other]]
    /\ cut' = cut \ {st}
    /\ UNCHANGED <<hub, skey, token, poster, fatal>>

\* sendSessionSSE: read the entry under the lock and take its body, if any.
SendSSE(st) ==
    /\ spc[st] = "reading"
    /\ spc' = [spc EXCEPT ![st] = "writing"]
    /\ sent' = [sent EXCEPT ![st] = IF slot[skey[st]] = 0 THEN @
                                    ELSE slot[skey[st]]]
    /\ cut' = cut \ {st}
    /\ UNCHANGED <<hub, skey, token, poster, fatal>>

\* The body is written and flushed, and the handler is back in its select.
Flush(st) ==
    /\ spc[st] = "writing"
    /\ spc' = [spc EXCEPT ![st] = "wait"]
    /\ UNCHANGED <<hub, skey, token, sent, poster, cut, fatal>>

\* case <-notify
Wake(st) ==
    /\ spc[st] = "wait"
    /\ token[st]
    /\ token' = [token EXCEPT ![st] = FALSE]
    /\ spc' = [spc EXCEPT ![st] = "reading"]
    /\ UNCHANGED <<hub, skey, sent, poster, cut, fatal>>

\* Mutant: the channel is closed without being taken out of the map.
UnwatchKeeps(st) ==
    /\ spc[st] = "wait"
    /\ spc' = [spc EXCEPT ![st] = "stopping"]
    /\ UNCHANGED <<hub, skey, token, sent, poster, cut, fatal>>

\* case <-ctx.Done(), then the locked part of stop().  A map that becomes
\* empty is dropped.  The channel is looked up in the map the hub holds now:
\* after a collection of the session that is not the map it was put in.
Unwatch(st) ==
    LET k == skey[st] IN
    /\ spc[st] = "wait"
    /\ spc' = [spc EXCEPT ![st] = "stopping"]
    /\ IF watch[k] = {} THEN UNCHANGED fatal ELSE MapWrite(k)
    /\ watch' = [watch EXCEPT ![k] = @ \ {st}]
    /\ todo' = [p \in Posters |-> IF st \in watch[k] THEN todo[p] \ {st} ELSE todo[p]]
    /\ over' = [p \in Posters |-> IF watch[k] = {st} THEN over[p] \ {k} ELSE over[p]]
    /\ cut' = cut \ {st}
    /\ UNCHANGED <<slot, age, clock, skey, token, sent, ppc, cur>>

\* The close(ch) that ends stop(), after the lock has been released.  Nobody
\* receives from the channel any more: what it still holds is dropped.
CloseChannel(st) ==
    /\ spc[st] = "stopping"
    /\ spc' = [spc EXCEPT ![st] = "closed"]
    /\ token' = [token EXCEPT ![st] = FALSE]
    /\ UNCHANGED <<hub, skey, sent, poster, cut, fatal>>

-----------------------------------------------------------------------------
(* The collector, and the container's restart policy.                      *)

\* Mutant: nothing is ever deleted.
GcTickKeeps ==
    /\ age' = [s \in Sessions |-> IF age[s] = Absent THEN Absent ELSE age[s] + 1]
    /\ UNCHANGED <<slot, watch, clock, stream, poster, cut, fatal>>

\* gcLoop: every ttl/2, drop the sessions not updated for more than ttl,
\* with their watcher maps.
GcTick ==
    LET old == {s \in Sessions : age[s] = TTLTicks} IN
    /\ age' = [s \in Sessions |->
                  IF age[s] \in {Absent, TTLTicks} THEN Absent ELSE age[s] + 1]
    /\ slot' = [k \in Key |-> IF k[1] \in old THEN 0 ELSE slot[k]]
    /\ watch' = [k \in Key |-> IF k[1] \in old THEN {} ELSE watch[k]]
    /\ over' = [p \in Posters |-> {k \in over[p] : k[1] \notin old}]
    /\ UNCHANGED <<clock, stream, ppc, todo, cur, cut, fatal>>

\* docker-compose starts the process again, with empty maps.
Restart ==
    /\ fatal
    /\ fatal' = FALSE
    /\ slot' = [k \in Key |-> 0]
    /\ age' = [s \in Sessions |-> Absent]
    /\ watch' = [k \in Key |-> {}]
    /\ spc' = [st \in Streams |-> IF spc[st] = "off" THEN "off" ELSE "closed"]
    /\ ppc' = [p \in Posters |-> "idle"]
    /\ over' = [p \in Posters |-> {}]
    /\ todo' = [p \in Posters |-> {}]
    /\ cur' = [p \in Posters |-> {}]
    /\ token' = [st \in Streams |-> FALSE]
    /\ cut' = {}
    /\ UNCHANGED <<clock, skey, sent>>

PosterStep(p) == Pick(p) \/ Notify(p) \/ NotifyPanic(p) \/ PostDone(p)
StreamStep(st) == SendSSE(st) \/ Flush(st) \/ Wake(st) \/ CloseChannel(st)

Next ==
    \/ /\ ~fatal
       /\ \/ \E p \in Posters, k \in Key : Post(p, k)
          \/ \E p \in Posters : PosterStep(p)
          \/ \E st \in Streams : Watch(st) \/ Unwatch(st) \/ StreamStep(st)
          \/ GcTick
    \/ Restart

\* Goroutines that can run do run and the container is restarted; nobody has
\* to post, to connect or to leave.
Fairness ==
    /\ \A p \in Posters : WF_vars(~fatal /\ PosterStep(p))
    /\ \A st \in Streams : WF_vars(~fatal /\ StreamStep(st))
    /\ WF_vars(Restart)

Spec == Init /\ [][Next]_vars /\ Fairness

-----------------------------------------------------------------------------
(* Properties.                                                             *)

\* Every variable has its type; in particular no entry outlives its ttl by more
\* than a tick of gcLoop.
TypeOK ==
    /\ slot \in [Key -> 0..MaxPosts]
    /\ age \in [Sessions -> {Absent} \cup 0..TTLTicks]
    /\ watch \in [Key -> SUBSET Streams]
    /\ clock \in 0..MaxPosts
    /\ spc \in [Streams -> {"off", "reading", "writing", "wait", "stopping", "closed"}]
    /\ skey \in [Streams -> Key]
    /\ token \in [Streams -> BOOLEAN]
    /\ sent \in [Streams -> 0..MaxPosts]
    /\ ppc \in [Posters -> {"idle", "range", "send"}]
    /\ over \in [Posters -> SUBSET Key]
    /\ todo \in [Posters -> SUBSET Streams]
    /\ cur \in [Posters -> SUBSET Streams]
    /\ cut \in SUBSET Streams
    /\ fatal \in BOOLEAN

\* stop() takes the channel out of the hub before it closes it, so no channel
\* that the hub still lists is closed, whatever the collector does between
\* the registration and stop().
RegistryLive ==
    \A k \in Key : \A st \in watch[k] :
        skey[st] = k /\ spc[st] \in {"reading", "writing", "wait"}

\* The stream st will be told of a post: its channel is full, or the range
\* loop of some poster has not yet reached it.
Told(st) == token[st] \/ \E p \in Posters : st \in todo[p] \cup cur[p]

\* The stream is registered and its client has an old value.
Outdated(st) == st \in watch[skey[st]] /\ sent[st] # slot[skey[st]]

\* No update is lost: a registered stream that has read an old value has a
\* notification on the way.  It rests on the order in handleSessionStream
\* (register, then send the current value) and in setOffer / setAnswer (store,
\* then notify), and on re-reading the slot for each of the coalesced
\* notifications.  The exception is a poster that panicked in its loop.
NoLostUpdate ==
    \A st \in Streams :
        Outdated(st) /\ spc[st] \in {"writing", "wait"} => Told(st) \/ st \in cut

\* A registered stream with an old value is brought up to date, unless it
\* loses its registration or was cut off by a panic.
UpdateReachesStream ==
    \A st \in Streams : Outdated(st) ~> ~Outdated(st) \/ st \in cut

\* What the mailbox sees of a stream.
Mode(c) ==
    CASE c = "off"                            -> "off"
      [] c \in {"reading", "writing", "wait"} -> "on"
      [] c \in {"stopping", "closed"}         -> "gone"

M == INSTANCE Mailbox WITH mode <- [st \in Streams |-> Mode(spc[st])]

\* The hub with its goroutines, channels and collector implements the plain
\* mailbox: posts and expiry take effect in one step, and a stream is only
\* given the content its slot has at that moment.
ImplementsMailbox == M!Spec

=============================================================================
