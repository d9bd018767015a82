----------------------------- MODULE TunnelDns -----------------------------
(***************************************************************************)
(* DNS through the tunnel (golib/tunnel/tun.go, dnschannel.go and          *)
(* golib/webrtc/dnsrelay.go): a query from the TUN is answered from the    *)
(* cache or goes to the channel pool, which batches queries, writes them   *)
(* on persistent streams and matches the responses by transaction ID; when *)
(* that fails a stream per query, the second resolver and a direct socket  *)
(* are tried.  Entries near their expiry are fetched again.                *)
(*                                                                         *)
(* Meanwhile the tunnel may be stopped or get a new dialer and pool from a *)
(* fast reconnect.  A section under a mutex is one step.  Streams and the  *)
(* resolvers behind them are external.                                     *)
(***************************************************************************)
EXTENDS Integers, Sequences, FiniteSets, Functions

CONSTANTS
    Cases,          \* bounds and options, a set of Options
    Users,          \* the queries that come from the TUN, in this order
    Query,          \* Query[u]: name and transaction ID of user query u
    BatchMax,       \* dnsBatchMaxQueries
    CacheMax,       \* dnsCacheMaxEntries
    MaxTTL,         \* dnsCacheMaxTTL, in ticks
    NXTTL,          \* dnsCacheNXDomainTTL, in ticks
    Chans           \* bound: the DNS channels opened, in this order

Budgets == {"tick", "stream", "unresolved", "break", "timeout", "stop", "swap"}

(* The second resolver and direct queries may be configured; records are the *)
(* kinds of responses that resolvers give.                                   *)
Options ==
    [users : SUBSET Users, channels : 1..2, dns2 : BOOLEAN, direct : BOOLEAN, faults : [Budgets -> Nat],
     records : SUBSET [nx : BOOLEAN, ttls : SUBSET Nat]]

ASSUME ConstantsAssumption ==
    /\ {BatchMax, CacheMax, NXTTL, MaxTTL} \subseteq Nat \ {0} /\ MaxTTL >= NXTTL
    /\ Users \cup Chans \subseteq Nat \ {0}
    /\ Query \in [Users -> [name : Nat \ {0}, tx : Nat]]
    /\ Cases \subseteq Options

Prefetch(u) == -u                 \* the prefetch that query u starts
Threads == Users \cup {Prefetch(u) : u \in Users}
Pools == 1..2                     \* before and after SwapDialStream
Items == [thread : Threads, pool : Pools, server : {1, 2}]   \* the batch items

VARIABLES
    case,     \* a member of Cases; the budgets of its faults count down
    th,       \* th[t]: handleUDP or prefetchDNS of t, see NoThread
    cache,    \* dnsCache.entries: name -> response, TTL and the ticks left of it
    lru,      \* dnsCache.lru, front first
    pool,     \* pool[p]: batchQueue, batchTimer, a timer callback that Stop came
              \* too late for, and the channels
    cur,      \* t.dnsPool
    dialer,   \* dialStream: the client group that it dials
    gone,     \* client groups that are stopped
    batches,  \* running flushBatch calls: the items and the channel picked
    chan,     \* chan[c]: one dnsChannel, see NoChannel
    item,     \* item[i]: the goroutine that waits for the response of i
    results,  \* results[i]: values sent to resultCh of i
    done,     \* t.done is closed
    closing,  \* pools whose close has cleared the queue but not the channels
    clash,    \* two different questions with the same transaction ID were on one
              \* channel at the same time
    silent    \* items that the server has not written a response for

history == <<clash, silent>>
vars == <<case, th, cache, lru, pool, cur, dialer, gone, batches, chan, item, results,
          done, closing, history>>
cached == <<cache, lru>>
tunnel == <<cur, dialer, gone, done>>

Nothing == [x \in {} |-> x]
None == 0
NoAnswer == [name |-> None, tx |-> None]     \* also the nil and the error of a result
NoThread == [at |-> "idle", server |-> 1, pool |-> 1, reply |-> NoAnswer]
NoChannel == [group |-> 0, open |-> FALSE, over |-> FALSE, pending |-> Nothing, out |-> {}]
NoItem == [at |-> "none", chan |-> None, resp |-> NoAnswer]

Init ==
    /\ case \in Cases
    /\ th = [t \in Threads |-> NoThread]
    /\ cache = Nothing /\ lru = <<>>
    /\ pool = [p \in Pools |-> [queue |-> <<>>, timer |-> FALSE, late |-> FALSE, chans |-> {}]]
    /\ cur = 1 /\ dialer = 1 /\ gone = {} /\ done = FALSE
    /\ batches = {} /\ chan = [c \in Chans |-> NoChannel]
    /\ item = [i \in Items |-> NoItem] /\ results = [i \in Items |-> <<>>]
    /\ closing = {} /\ clash = FALSE /\ silent = {}

Spend(k) == case.faults[k] > 0 /\ case' = [case EXCEPT !.faults[k] = @ - 1]

(* The query that thread t is about; its answer has the same name and ID. *)
Asked(t) == Query[IF t \in Users THEN t ELSE -t]
Tx(t) == Asked(t).tx
Without(f, x) == Restrict(f, DOMAIN f \ {x})
With(f, x, v) == [y \in DOMAIN f \cup {x} |-> IF y = x THEN v ELSE f[y]]

-----------------------------------------------------------------------------
(* The cache. *)

(* The TTL of a response whose records have the TTLs of ttls. *)
parseDNSTTL(ttls) ==
    LET least == CHOOSE m \in ttls \cup {MaxTTL} : \A x \in ttls : m <= x
    IN  IF least <= 0 \/ least > MaxTTL THEN MaxTTL ELSE least

Ttl(r) ==
    IF r.nx /\ parseDNSTTL(r.ttls) > NXTTL THEN NXTTL ELSE parseDNSTTL(r.ttls)

(* The list without the element of name n, which has one. *)
RemovedAt(s, i) == SubSeq(s, 1, i - 1) \o SubSeq(s, i + 1, Len(s))
Unlinked(n) == RemovedAt(lru, CHOOSE i \in DOMAIN lru : lru[i] = n)
MoveToFront(n) == <<n>> \o Unlinked(n)

(* Mutant: nothing makes room. *)
PutKeepsAll(n, answer, r) ==
    /\ lru' = IF n \in DOMAIN cache THEN MoveToFront(n) ELSE <<n>> \o lru
    /\ cache' = With(cache, n, [answer |-> answer, ttl |-> Ttl(r), left |-> Ttl(r)])

(* put: an entry is replaced, or the least recently used ones make room. *)
put(n, answer, r) ==
    LET kept == IF n \in DOMAIN cache THEN MoveToFront(n)
                ELSE <<n>> \o SubSeq(lru, 1, IF Len(lru) < CacheMax THEN Len(lru) ELSE CacheMax - 1)
        entry == [answer |-> answer, ttl |-> Ttl(r), left |-> Ttl(r)]
    IN  /\ lru' = kept
        /\ cache' = Restrict(With(cache, n, entry), Range(kept))

(* Time passes. *)
Tick ==
    /\ Spend("tick")
    /\ cache' = [n \in DOMAIN cache |-> [cache[n] EXCEPT !.left = IF @ = 0 THEN 0 ELSE @ - 1]]
    /\ UNCHANGED <<lru, th, pool, tunnel, batches, chan, item, results, closing, history>>

-----------------------------------------------------------------------------
(* handleUDP and prefetchDNS. *)

Goto(t, at) == th' = [th EXCEPT ![t].at = at]

(* dnsViaTunnel begins with the pool of the moment. *)
Entering(t, server) == [th[t] EXCEPT !.at = "submit", !.server = server, !.pool = cur]

(* Mutant: the cached bytes keep the transaction ID they came with. *)
KeepID(answer, tx) == answer

(* get: the reply carries the transaction ID of the query. *)
PatchID(answer, tx) == [answer EXCEPT !.tx = tx]

(* A prefetch of the name is running. *)
Prefetching(n) ==
    \E u \in Users : Query[u].name = n /\ th[Prefetch(u)].at \in {"submit", "wait", "stream"}

(* A query arrives: the cache answers it, or it enters the cascade.  An      *)
(* expired entry is removed; in the last tick of its TTL it is fetched again. *)
Hit(u) ==
    LET n == Query[u].name
        served == [th EXCEPT ![u].at = "answered",
                             ![u].reply = PatchID(cache[n].answer, Query[u].tx)]
    IN  /\ n \in DOMAIN cache /\ cache[n].left > 0
        /\ lru' = MoveToFront(n) /\ UNCHANGED cache
        /\ th' = IF cache[n].left = 1 /\ cache[n].ttl > 1 /\ ~Prefetching(n)
                 THEN [served EXCEPT ![Prefetch(u)] = Entering(Prefetch(u), 1)] ELSE served

Miss(u) ==
    LET n == Query[u].name
    IN  /\ \/ n \notin DOMAIN cache /\ UNCHANGED cached
           \/ /\ n \in DOMAIN cache /\ cache[n].left = 0
              /\ cache' = Without(cache, n) /\ lru' = Unlinked(n)
        /\ th' = [th EXCEPT ![u] = Entering(u, 1)]

handleUDP(u) ==
    /\ th[u].at = "idle" /\ ~done
    /\ Hit(u) \/ Miss(u)
    /\ UNCHANGED <<case, pool, tunnel, batches, chan, item, results, closing, history>>

(* The thread has a response: it is cached, and sent to a user. *)
Succeed(t, answer) ==
    /\ th' = [th EXCEPT ![t].at = "answered", ![t].reply = answer]
    /\ \E r \in case.records : put(Asked(t).name, answer, r)

(* A resolver failed: the second one, then a direct query if allowed. *)
Fail(t) ==
    /\ th' = [th EXCEPT ![t] =
          IF th[t].server = 1 /\ case.dns2 THEN Entering(t, 2)
          ELSE [@ EXCEPT !.at = IF case.direct /\ t \in Users THEN "direct" ELSE "dropped"]]
    /\ UNCHANGED cached

(* dnsViaStream: a stream of its own, closed by a timer if it hangs. *)
dnsViaStream(t) ==
    /\ th[t].at = "stream"
    /\ \/ dialer \notin gone /\ Succeed(t, Asked(t)) /\ UNCHANGED case
       \/ dialer \in gone /\ Fail(t) /\ UNCHANGED case
       \/ Spend("stream") /\ Fail(t)
    /\ UNCHANGED <<pool, tunnel, batches, chan, item, results, closing, history>>

dnsDirect(t) ==
    /\ th[t].at = "direct"
    /\ \/ Succeed(t, Asked(t))
       \/ Goto(t, "dropped") /\ UNCHANGED cached
    /\ UNCHANGED <<case, pool, tunnel, batches, chan, item, results, closing, history>>

-----------------------------------------------------------------------------
(* The pool. *)

Item(t) == [thread |-> t, pool |-> th[t].pool, server |-> th[t].server]
Flush(items) == batches' = batches \cup {[items |-> items, chan |-> None]}

(* Mutant: a query that does not fill the batch arms no timer. *)
SubmitNoTimer(t) ==
    LET p == th[t].pool
        queue == Append(pool[p].queue, Item(t))
        full == Len(queue) >= BatchMax
    IN  /\ th[t].at = "submit" /\ Goto(t, "wait")
        /\ IF full THEN Flush(queue) ELSE UNCHANGED batches
        /\ pool' = [pool EXCEPT ![p].queue = IF full THEN <<>> ELSE queue]
        /\ UNCHANGED <<case, cached, tunnel, chan, item, results, closing, history>>

(* submitQuery: a full batch is flushed at once, otherwise a timer is armed. *)
(* The timer that is stopped may have fired already.                         *)
submitQuery(t) ==
    LET p == th[t].pool
        queue == Append(pool[p].queue, Item(t))
    IN  /\ th[t].at = "submit" /\ Goto(t, "wait")
        /\ \/ /\ Len(queue) >= BatchMax
              /\ Flush(queue)
              /\ \E fired \in {FALSE, pool[p].timer} :
                   pool' = [pool EXCEPT ![p].queue = <<>>, ![p].timer = FALSE,
                                        ![p].late = @ \/ fired]
           \/ /\ Len(queue) < BatchMax
              /\ pool' = [pool EXCEPT ![p].queue = queue, ![p].timer = TRUE]
              /\ UNCHANGED batches
        /\ UNCHANGED <<case, cached, tunnel, chan, item, results, closing, history>>

(* The callback of the timer. *)
TimerFires(p) ==
    /\ pool[p].timer \/ pool[p].late
    /\ pool' = [pool EXCEPT ![p].queue = <<>>, ![p].timer = FALSE,
                            ![p].late = @ /\ pool[p].timer]
    /\ IF pool[p].queue = <<>> THEN UNCHANGED batches ELSE Flush(pool[p].queue)
    /\ UNCHANGED <<case, th, cached, tunnel, chan, item, results, closing, history>>

Give(items, v) ==
    results' = [i \in Items |-> IF i \in items THEN Append(results[i], v) ELSE results[i]]

NewChannel == CHOOSE c \in Chans : chan[c] = NoChannel /\ \A d \in Chans : d < c => chan[d] # NoChannel
CanOpen == \E c \in Chans : chan[c] = NoChannel

Live(p) == {c \in pool[p].chans : ~chan[c].over}
PoolOf(b) == b.items[1].pool
Group(p) == p        \* the dialer a pool was made with

DialFails(p) ==
    \/ (Group(p) \in gone \/ ~CanOpen) /\ UNCHANGED case
    \/ Group(p) \notin gone /\ Spend("break")

(* pickChannel with the channels that are alive, of which it prunes the list *)
(* first; the round robin may take any of them.                              *)
PickChannel(b) ==
    LET p == PoolOf(b)
    IN  /\ b \in batches /\ b.chan = None
        /\ \/ Cardinality(Live(p)) >= case.channels /\ UNCHANGED case
           \/ Cardinality(Live(p)) < case.channels /\ DialFails(p)
        /\ pool' = [pool EXCEPT ![p].chans = Live(p)]
        /\ \E c \in Live(p) : batches' = (batches \ {b}) \cup {[b EXCEPT !.chan = c]}
        /\ UNCHANGED <<th, cached, tunnel, chan, item, results, closing, history>>

(* openChannel, once for every channel that is missing. *)
OpenChannel(b) ==
    LET p == PoolOf(b)
    IN  /\ b \in batches /\ b.chan = None
        /\ Cardinality(Live(p)) < case.channels /\ Group(p) \notin gone /\ CanOpen
        /\ chan' = [chan EXCEPT ![NewChannel] = [NoChannel EXCEPT !.group = Group(p), !.open = TRUE]]
        /\ pool' = [pool EXCEPT ![p].chans = Live(p) \cup {NewChannel}]
        /\ UNCHANGED <<case, th, cached, tunnel, batches, item, results, closing, history>>

(* No channel can be opened: every query of the batch gets the error. *)
PickFails(b) ==
    LET p == PoolOf(b)
    IN  /\ b \in batches /\ b.chan = None /\ Live(p) = {}
        /\ DialFails(p)
        /\ pool' = [pool EXCEPT ![p].chans = {}]
        /\ batches' = batches \ {b}
        /\ Give(Range(b.items), NoAnswer)
        /\ UNCHANGED <<th, cached, tunnel, chan, item, closing, history>>

(* The items that are registered or under way on channel c. *)
OnChannel(c) == Range(chan[c].pending) \cup chan[c].out

Confusable(i, j) == Tx(i.thread) = Tx(j.thread) /\ Asked(i.thread) # Asked(j.thread)

(* The queries are registered by transaction ID, each with a goroutine that  *)
(* waits for its response, and written at once; on a dead stream the write   *)
(* fails.  A single query takes the path of dnsChannel.query.                *)
SendBatch(b) ==
    LET c == b.chan
        items == Range(b.items)
        newest(x) == CHOOSE k \in DOMAIN b.items : Tx(b.items[k].thread) = x
                        /\ \A j \in DOMAIN b.items : Tx(b.items[j].thread) = x => j <= k
        txs == {Tx(i.thread) : i \in items}
        registered == [x \in txs \cup DOMAIN chan[c].pending |->
                         IF x \in txs THEN b.items[newest(x)] ELSE chan[c].pending[x]]
    IN  /\ b \in batches /\ c # None
        /\ batches' = batches \ {b}
        /\ chan' = [chan EXCEPT ![c].pending = registered,
                                ![c].out = IF chan[c].open THEN @ \cup items ELSE @]
        /\ item' = [i \in Items |-> IF i \in items THEN [NoItem EXCEPT !.at = "wait", !.chan = c]
                                                   ELSE item[i]]
        /\ clash' = (clash \/ \E i \in items : \E j \in items \cup OnChannel(c) : Confusable(i, j))
        /\ UNCHANGED <<case, th, cached, pool, tunnel, results, closing, silent>>

-----------------------------------------------------------------------------
(* One channel. *)

(* The server resolves a query and readLoop hands the response to whoever is *)
(* registered under its transaction ID.                                      *)
readLoop(c, i) ==
    LET x == Tx(i.thread)
    IN  /\ i \in chan[c].out /\ chan[c].open
        /\ chan' = [chan EXCEPT ![c].out = @ \ {i}, ![c].pending = Without(@, x)]
        /\ item' = IF x \in DOMAIN chan[c].pending
                   THEN [item EXCEPT ![chan[c].pending[x]].resp = Asked(i.thread)] ELSE item
        /\ UNCHANGED <<case, th, cached, pool, tunnel, batches, results, closing, history>>

(* The server cannot resolve the query and writes nothing. *)
Unresolved(c, i) ==
    /\ i \in chan[c].out /\ Spend("unresolved")
    /\ chan' = [chan EXCEPT ![c].out = @ \ {i}]
    /\ silent' = silent \cup {i}
    /\ UNCHANGED <<th, cached, pool, tunnel, batches, item, results, closing, clash>>

Broken(c) == [chan[c] EXCEPT !.open = FALSE, !.out = {}]

StreamBreaks(c) ==
    /\ chan[c].open
    /\ Spend("break")
    /\ chan' = [chan EXCEPT ![c] = Broken(c)]
    /\ UNCHANGED <<th, cached, pool, tunnel, batches, item, results, closing, history>>

(* The deferred function of readLoop: done is closed and nothing is pending. *)
readLoopEnds(c) ==
    /\ chan[c] # NoChannel /\ ~chan[c].open /\ ~chan[c].over
    /\ chan' = [chan EXCEPT ![c].over = TRUE, ![c].pending = Nothing]
    /\ UNCHANGED <<case, th, cached, pool, tunnel, batches, item, results, closing, history>>

(* Another query with the ID of i has been sent on its channel: it may have  *)
(* taken the registration of i, or removed it.                               *)
SharesID(i) ==
    \E j \in Items \ {i} : item[j].chan = item[i].chan /\ Tx(j.thread) = Tx(i.thread)

(* dnsTunnelTimeout passes, which takes from a budget unless the response    *)
(* may never come: the server had none, or another query took it.            *)
TimedOut(i) ==
    \/ (i \in silent \/ SharesID(i)) /\ UNCHANGED case
    \/ Spend("timeout")

(* The goroutine of item i gets its response, or sees the channel end, or    *)
(* times out; it removes whatever is registered under its ID.                *)
WaiterEnds(i) ==
    LET c == item[i].chan
    IN  /\ item[i].at = "wait"
        /\ \/ item[i].resp # NoAnswer /\ Give({i}, item[i].resp) /\ UNCHANGED case
           \/ (chan[c].over \/ ~chan[c].open) /\ Give({i}, NoAnswer) /\ UNCHANGED case
           \/ TimedOut(i) /\ Give({i}, NoAnswer)
        /\ item' = [item EXCEPT ![i].at = "over"]
        /\ chan' = [chan EXCEPT ![c].pending = Without(@, Tx(i.thread))]
        /\ UNCHANGED <<th, cached, pool, tunnel, batches, closing, history>>

(* The select of submitQuery; an error leads to dnsViaStream. *)
GetResult(t) ==
    LET i == Item(t)
    IN  /\ th[t].at = "wait"
        /\ \/ /\ results[i] # <<>> /\ Head(results[i]) # NoAnswer
              /\ Succeed(t, Head(results[i])) /\ UNCHANGED case
           \/ /\ \/ results[i] # <<>> /\ Head(results[i]) = NoAnswer /\ UNCHANGED case
                 \/ done /\ UNCHANGED case
                 \/ Spend("timeout")
              /\ Goto(t, "stream") /\ UNCHANGED cached
        /\ UNCHANGED <<pool, tunnel, batches, chan, item, results, closing, history>>

-----------------------------------------------------------------------------
(* Stop, and the swap of a fast reconnect. *)

(* Mutant: the queue is not emptied. *)
FailQueueKeeps(p) ==
    /\ Give(Range(pool[p].queue), NoAnswer)
    /\ pool' = [pool EXCEPT ![p].late = @ \/ pool[p].timer, ![p].timer = FALSE]
    /\ closing' = closing \cup {p}

(* close, first half: the queued items get an error. *)
FailQueue(p) ==
    /\ Give(Range(pool[p].queue), NoAnswer)
    /\ \E fired \in {FALSE, pool[p].timer} :
          pool' = [pool EXCEPT ![p].queue = <<>>, ![p].timer = FALSE, ![p].late = @ \/ fired]
    /\ closing' = closing \cup {p}

(* close, second half: the list is taken and its streams are closed. *)
CloseChannels(p) ==
    /\ p \in closing /\ closing' = closing \ {p}
    /\ pool' = [pool EXCEPT ![p].chans = {}]
    /\ chan' = [c \in Chans |-> IF c \in pool[p].chans THEN Broken(c) ELSE chan[c]]
    /\ UNCHANGED <<case, th, cached, tunnel, batches, item, results, history>>

Stop ==
    /\ ~done /\ closing = {}
    /\ Spend("stop")
    /\ done' = TRUE
    /\ FailQueue(cur)
    /\ UNCHANGED <<th, cached, cur, dialer, gone, batches, chan, item, history>>

(* The new dialer is in place before the old pool is closed, and the new     *)
(* pool after that.                                                          *)
SwapDialStream ==
    /\ dialer = 1 /\ closing = {}
    /\ Spend("swap")
    /\ dialer' = 2
    /\ FailQueue(1)
    /\ UNCHANGED <<th, cached, cur, gone, done, batches, chan, item, history>>

SwapPool ==
    /\ dialer = 2 /\ cur = 1 /\ closing = {}
    /\ cur' = 2
    /\ UNCHANGED <<case, th, cached, dialer, gone, done, pool, batches, chan, item, results, closing, history>>

(* The caller stops the client group afterwards, which ends its streams. *)
StopGroup(g) ==
    /\ g \notin gone /\ g <= dialer /\ closing = {}
    /\ done \/ cur > g
    /\ gone' = gone \cup {g}
    /\ chan' = [c \in Chans |-> IF chan[c].group = g /\ chan[c].open THEN Broken(c) ELSE chan[c]]
    /\ UNCHANGED <<case, th, cached, dialer, cur, done, pool, batches, item, results, closing, history>>

-----------------------------------------------------------------------------
ThreadStep(t) == submitQuery(t) \/ GetResult(t) \/ dnsViaStream(t) \/ dnsDirect(t)
PoolStep ==
    \/ \E p \in Pools : TimerFires(p) \/ CloseChannels(p)
    \/ \E b \in batches : PickChannel(b) \/ OpenChannel(b) \/ PickFails(b) \/ SendBatch(b)
ChannelStep(c) ==
    readLoopEnds(c) \/ \E i \in chan[c].out : readLoop(c, i) \/ Unresolved(c, i)
Arrive(u) ==
    u \in case.users /\ (\A v \in case.users : v < u => th[v].at # "idle") /\ handleUDP(u)

Next ==
    \/ \E u \in Users : Arrive(u)
    \/ \E t \in Threads : ThreadStep(t)
    \/ PoolStep
    \/ \E c \in Chans : ChannelStep(c) \/ StreamBreaks(c)
    \/ \E i \in Items : WaiterEnds(i)
    \/ Tick \/ Stop \/ SwapDialStream \/ SwapPool \/ \E g \in Pools : StopGroup(g)

(* Goroutines run, timers fire, and the streams deliver what they carry.     *)
(* Every behaviour of the bounded system ends, so that one condition is      *)
(* enough.                                                                   *)
Fairness ==
    WF_vars(\/ \E t \in Threads : ThreadStep(t)
            \/ PoolStep
            \/ \E c \in Chans : ChannelStep(c)
            \/ \E i \in Items : WaiterEnds(i))

Spec == Init /\ [][Next]_vars /\ Fairness

-----------------------------------------------------------------------------
(* Properties. *)

(* The values of the variables; the cache and its list agree and stay within *)
(* dnsCacheMaxEntries, and a pool lists at most case.channels channels.    *)
TypeOK ==
    /\ case \in Options
    /\ \A t \in Threads : th[t].at \in {"idle", "submit", "wait", "stream", "direct", "answered",
                                        "dropped"}
    /\ IsInjective(lru) /\ Range(lru) = DOMAIN cache /\ Len(lru) <= CacheMax
    /\ \A n \in DOMAIN cache : cache[n].left \in 0..cache[n].ttl /\ cache[n].ttl \in 1..MaxTTL
    /\ \A p \in Pools : Cardinality(pool[p].chans) <= case.channels /\ Len(pool[p].queue) < BatchMax

(* Users get an answer with their own transaction ID from the cache, a batch *)
(* or a stream.  It is the answer to the question they asked, and the cache  *)
(* holds an answer only under its own name, unless two different questions   *)
(* with the same transaction ID were on one channel at the same time, which  *)
(* readLoop cannot tell apart; equal IDs at other times, on other channels   *)
(* or of one question asked again do no harm.                                *)
AnswersMatch ==
    /\ \A u \in Users : th[u].at = "answered" =>
          th[u].reply.tx = Query[u].tx /\ (clash \/ th[u].reply = Query[u])
    /\ ~clash => \A n \in DOMAIN cache : cache[n].answer.name = n

(* At most one value is ever sent to the resultCh of a query, whose buffer   *)
(* holds one: a second sender would block for ever.                          *)
ResultOnce == \A i \in Items : Len(results[i]) <= 1

(* Every query is answered or dropped in the end, through stops and swaps.   *)
(* It needs dnsTunnelTimeout only when the server has written no response    *)
(* for it or another query with its transaction ID has been on its channel:  *)
(* the other timeouts come from a budget that may be empty, so none is       *)
(* needed because a batch, its timer or a registration was forgotten.        *)
EveryQueryEnds ==
    \A u \in Users : th[u].at # "idle" ~> th[u].at \in {"answered", "dropped"}
=============================================================================
