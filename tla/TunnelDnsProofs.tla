-------------------------- MODULE TunnelDnsProofs ---------------------------
(***************************************************************************)
(* Proofs about DNS through the tunnel: every query gets at most one       *)
(* result, users get the answer to their own question unless different     *)
(* questions met on a channel under one transaction ID, and the cache      *)
(* stays within its bound, for any queries, resolvers, faults and limits.  *)
(***************************************************************************)
EXTENDS TunnelDns, FiniteSetTheorems, WellFoundedInduction, TLAPS

Places == {"idle", "submit", "wait", "stream", "direct", "answered", "dropped"}
Answers == [name : Nat, tx : Nat]
Entry == [answer : Answers, ttl : 1..MaxTTL, left : Nat]
Thread == [at : Places, server : {1, 2}, pool : Pools, reply : Answers]
Pool == [queue : Seq(Items), timer : BOOLEAN, late : BOOLEAN, chans : SUBSET Chans]
Batch == [items : Seq(Items), chan : Chans \cup {None}]
Registered == UNION {[D -> Items] : D \in SUBSET Nat}
Channel == [group : Nat, open : BOOLEAN, over : BOOLEAN, pending : Registered, out : SUBSET Items]
Waiter == [at : {"none", "wait", "over"}, chan : Chans \cup {None}, resp : Answers]

(* The values of the variables, the cache apart. *)
DnsTypes ==
    /\ case \in Options
    /\ th \in [Threads -> Thread]
    /\ cur \in Pools
    /\ pool \in [Pools -> Pool]
    /\ batches \subseteq Batch /\ \A b \in batches : b.items # <<>>
    /\ chan \in [Chans -> Channel]
    /\ item \in [Items -> Waiter]
    /\ results \in [Items -> Seq(Answers)]

(* The cache and its list hold the same names, each once. *)
CacheOK ==
    /\ lru \in Seq(Nat) /\ IsInjective(lru) /\ Len(lru) <= CacheMax
    /\ cache \in [Range(lru) -> Entry]
    /\ \A n \in Range(lru) : cache[n].left <= cache[n].ttl

PoolsBounded ==
    \A p \in Pools :
        /\ IsFiniteSet(pool[p].chans) /\ Cardinality(pool[p].chans) <= case.channels
        /\ Len(pool[p].queue) < BatchMax

(* Where an item may be: in the queue, in a batch, with a goroutine that     *)
(* waits for its response, or past that, with its one result.                *)
Queued(i) == \E p \in Pools : i \in Range(pool[p].queue)
Batched(i) == \E b \in batches : i \in Range(b.items)
Fresh(i) == ~Queued(i) /\ ~Batched(i) /\ item[i].at = "none" /\ results[i] = <<>>

(* The items that thread t has not submitted yet. *)
Ahead(t) ==
    {i \in Items : /\ i.thread = t
                   /\ \/ th[t].at = "idle" \/ i.server > th[t].server
                      \/ th[t].at = "submit" /\ i.server = th[t].server}

QueuedAtHome == \A p \in Pools : \A i \in Range(pool[p].queue) : i.pool = p
BatchesApart == \A b, d \in batches : b # d => Range(b.items) \cap Range(d.items) = {}
Settled(i) ==
    /\ Queued(i) => ~Batched(i)
    /\ Queued(i) \/ Batched(i) => item[i].at = "none"
    /\ Queued(i) \/ Batched(i) \/ item[i].at = "wait" => results[i] = <<>>
    /\ Len(results[i]) <= 1
PrefetchLater == \A u \in Users : th[u].at = "idle" => th[Prefetch(u)].at = "idle"

OnePlace ==
    /\ QueuedAtHome /\ BatchesApart /\ PrefetchLater
    /\ \A i \in Items : Settled(i)
    /\ \A t \in Threads : \A i \in Ahead(t) : Fresh(i)

(* What thread t may get: a response with its ID, to its own question if     *)
(* questions were not confused (k).                                          *)
Served(k, a, t) == a.tx = Tx(t) /\ (k \/ a = Asked(t))
Right(k, a, i) == a = NoAnswer \/ Served(k, a, i.thread)

(* Only queries with that ID are registered under an ID, and without a clash *)
(* the queries under way with it ask the same.                               *)
RegisteredByID ==
    \A c \in Chans : \A x \in DOMAIN chan[c].pending :
        /\ Tx(chan[c].pending[x].thread) = x
        /\ \/ clash
           \/ \A i \in chan[c].out : Tx(i.thread) = x => Asked(chan[c].pending[x].thread) = Asked(i.thread)

(* Responses on their way are the item's own, and so is what is cached. *)
OwnResponses ==
    /\ \A i \in Items : Right(clash, item[i].resp, i)
    /\ \A i \in Items : \A k \in DOMAIN results[i] : Right(clash, results[i][k], i)
OwnAnswers ==
    /\ \A t \in Threads : th[t].at = "answered" => Served(clash, th[t].reply, t)
    /\ ~clash => \A n \in DOMAIN cache : cache[n].answer.name = n

Matching == RegisteredByID /\ OwnResponses /\ OwnAnswers

-----------------------------------------------------------------------------
(* Values. *)

(* The question of a thread is the question of a user query, and no answer   *)
(* to it is the nil of an error.                                             *)
LEMMA AskedType ==
    ASSUME NEW t \in Threads
    PROVE  /\ Asked(t) \in Answers /\ Asked(t).name # None /\ Tx(t) \in Nat
           /\ Asked(t) # NoAnswer
           /\ \E u \in Users : Asked(t) = Query[u]
           /\ t \in Users => Asked(t) = Query[t]
<1> USE ConstantsAssumption
<1>1. CASE t \in Users
  BY <1>1 DEF Asked, Tx, Answers, NoAnswer, None
<1>2. CASE t \notin Users
  <2>1. PICK u \in Users : t = -u
    BY <1>2 DEF Threads, Prefetch
  <2>2. -t = u
    BY <2>1
  <2> QED
    BY <1>2, <2>2 DEF Asked, Tx, Answers, NoAnswer, None
<1> QED
  BY <1>1, <1>2

(* The prefetch of a query is a thread of its own. *)
LEMMA PrefetchApart ==
    ASSUME NEW u \in Users
    PROVE  /\ u \in Threads /\ Prefetch(u) \in Threads
           /\ Prefetch(u) \notin Users
           /\ \A v \in Users : v # u => Prefetch(v) # Prefetch(u)
           /\ Asked(Prefetch(u)) = Query[u] /\ Asked(u) = Query[u]
<1>1. Prefetch(u) \notin Users
  BY ConstantsAssumption DEF Prefetch
<1>2. Asked(Prefetch(u)) = Query[u]
  <2>1. -Prefetch(u) = u
    BY ConstantsAssumption DEF Prefetch
  <2> QED
    BY <1>1, <2>1 DEF Asked
<1>3. \A v \in Users : v # u => Prefetch(v) # Prefetch(u)
  BY ConstantsAssumption DEF Prefetch
<1> QED
  BY <1>1, <1>2, <1>3 DEF Threads, Asked

(* A fault comes out of its budget and changes nothing else of the case. *)
LEMMA SpendKeeps ==
    ASSUME case \in Options, NEW k \in Budgets, Spend(k)
    PROVE  /\ case' \in Options /\ case'.channels = case.channels
           /\ case'.records = case.records
<1> DEFINE f == [case.faults EXCEPT ![k] = @ - 1]
<1>1. f \in [Budgets -> Nat]
  BY DEF Spend, Options
<1>2. case' = [case EXCEPT !.faults = f]
  BY DEF Spend
<1> HIDE DEF f
<1> QED
  BY <1>1, <1>2 DEF Options

(* An entry of the cascade is a thread. *)
LEMMA EnteringType ==
    ASSUME DnsTypes, NEW t \in Threads, NEW s \in {1, 2}
    PROVE  /\ Entering(t, s) \in Thread
           /\ Entering(t, s).at = "submit" /\ Entering(t, s).server = s
           /\ Entering(t, s).reply = th[t].reply
BY Zenon DEF Entering, DnsTypes, Thread, Places

LEMMA ItemType ==
    ASSUME DnsTypes, NEW t \in Threads
    PROVE  /\ Item(t) \in Items /\ Item(t).thread = t
           /\ Item(t).pool = th[t].pool /\ Item(t).server = th[t].server
BY DEF Item, Items, DnsTypes, Thread

(* The steps of a thread on its own record. *)
LEMMA ThreadMoves ==
    ASSUME DnsTypes, NEW t \in Threads, NEW a \in Places, Goto(t, a)
    PROVE  /\ th' \in [Threads -> Thread] /\ th'[t].at = a
           /\ th'[t].server = th[t].server /\ th'[t].pool = th[t].pool
           /\ th'[t].reply = th[t].reply
           /\ \A v \in Threads \ {t} : th'[v] = th[v]
<1> DEFINE r == [th[t] EXCEPT !.at = a]
<1>1. r \in Thread /\ r.at = a /\ r.server = th[t].server /\ r.reply = th[t].reply
        /\ r.pool = th[t].pool
  BY DEF DnsTypes, Thread
<1>2. th' = [th EXCEPT ![t] = r]
  BY DEF Goto
<1> HIDE DEF r
<1> QED
  BY <1>1, <1>2 DEF DnsTypes

LEMMA ThreadSucceeds ==
    ASSUME DnsTypes, NEW t \in Threads, NEW a \in Answers, Succeed(t, a)
    PROVE  /\ th' \in [Threads -> Thread] /\ th'[t].at = "answered"
           /\ th'[t].server = th[t].server /\ th'[t].reply = a
           /\ \A v \in Threads \ {t} : th'[v] = th[v]
<1> DEFINE r == [th[t] EXCEPT !.at = "answered", !.reply = a]
<1>1. r \in Thread /\ r.at = "answered" /\ r.server = th[t].server /\ r.reply = a
  BY Zenon DEF DnsTypes, Thread, Places
<1>2. th' = [th EXCEPT ![t] = r]
  BY DEF Succeed
<1> HIDE DEF r
<1> QED
  BY <1>1, <1>2 DEF DnsTypes

LEMMA ThreadFails ==
    ASSUME DnsTypes, NEW t \in Threads, Fail(t)
    PROVE  /\ th' \in [Threads -> Thread]
           /\ \/ th[t].server = 1 /\ th'[t].server = 2 /\ th'[t].at = "submit"
              \/ th'[t].server = th[t].server /\ th'[t].at \in {"direct", "dropped"}
           /\ \A v \in Threads \ {t} : th'[v] = th[v]
<1>1. CASE th[t].server = 1 /\ case.dns2
  <2>1. th' = [th EXCEPT ![t] = Entering(t, 2)]
    BY <1>1 DEF Fail
  <2> QED
    BY <1>1, <2>1, EnteringType DEF DnsTypes
<1>2. CASE ~(th[t].server = 1 /\ case.dns2)
  <2> DEFINE r == [th[t] EXCEPT !.at = IF case.direct /\ t \in Users THEN "direct" ELSE "dropped"]
  <2>1. r \in Thread /\ r.at \in {"direct", "dropped"} /\ r.server = th[t].server
    BY Zenon DEF DnsTypes, Thread, Places
  <2>2. th' = [th EXCEPT ![t] = r]
    BY <1>2 DEF Fail
  <2> HIDE DEF r
  <2> QED
    BY <2>1, <2>2 DEF DnsTypes
<1> QED
  BY <1>1, <1>2

(* A hit answers the query and may start its prefetch; a miss starts the query. *)
LEMMA QueryArrives ==
    ASSUME DnsTypes, CacheOK, NEW u \in Users, handleUDP(u)
    PROVE  /\ th' \in [Threads -> Thread]
           /\ \A v \in Threads \ {u, Prefetch(u)} : th'[v] = th[v]
           /\ th[u].at = "idle"
           /\ \/ /\ Hit(u) /\ th'[u].at = "answered"
                 /\ th'[u].reply = PatchID(cache[Query[u].name].answer, Query[u].tx)
                 /\ \/ th'[Prefetch(u)] = th[Prefetch(u)]
                    \/ th'[Prefetch(u)].at = "submit" /\ th'[Prefetch(u)].server = 1
              \/ /\ Miss(u) /\ th'[u].at = "submit" /\ th'[u].server = 1
                 /\ th'[Prefetch(u)] = th[Prefetch(u)]
<1> DEFINE n == Query[u].name
           w == Prefetch(u)
<1>0. u \in Threads /\ w \in Threads /\ u # w
  BY PrefetchApart
<1>1. CASE Hit(u)
  <2> DEFINE a == PatchID(cache[n].answer, Query[u].tx)
             r == [th[u] EXCEPT !.at = "answered", !.reply = a]
             e == Entering(w, 1)
  <2>1. cache[n].answer \in Answers
    BY <1>1 DEF Hit, CacheOK, Entry
  <2>2. a \in Answers
    BY <2>1, ConstantsAssumption DEF PatchID, Answers
  <2> HIDE DEF a
  <2>3. r \in Thread /\ r.at = "answered" /\ r.reply = a
    BY <1>0, <2>2 DEF DnsTypes, Thread, Places
  <2>4. e \in Thread /\ e.at = "submit" /\ e.server = 1
    BY <1>0, EnteringType
  <2>5. \/ th' = [th EXCEPT ![u] = r]
        \/ th' = [[th EXCEPT ![u] = r] EXCEPT ![w] = e]
    BY <1>1 DEF Hit, a
  <2> HIDE DEF r, e
  <2> QED
    BY <1>0, <1>1, <2>3, <2>4, <2>5, Zenon DEF DnsTypes, handleUDP, a
<1>2. CASE Miss(u)
  <2>1. th' = [th EXCEPT ![u] = Entering(u, 1)]
    BY <1>2 DEF Miss
  <2> QED
    BY <1>0, <1>2, <2>1, EnteringType DEF DnsTypes, handleUDP
<1> QED
  BY <1>1, <1>2 DEF handleUDP

-----------------------------------------------------------------------------
(* The cache. *)

(* RemovedAt closes the gap. *)
LEMMA RemovedParts ==
    ASSUME NEW S, NEW s \in Seq(S), NEW k \in DOMAIN s
    PROVE  /\ RemovedAt(s, k) \in Seq(S)
           /\ Len(RemovedAt(s, k)) = Len(s) - 1 /\ DOMAIN RemovedAt(s, k) = 1..(Len(s) - 1)
           /\ \A i \in 1..(Len(s) - 1) : RemovedAt(s, k)[i] = IF i < k THEN s[i] ELSE s[i + 1]
<1>1. k \in 1..Len(s)
  OBVIOUS
<1> DEFINE a == SubSeq(s, 1, k - 1)
           b == SubSeq(s, k + 1, Len(s))
<1>2. a \in Seq(S) /\ Len(a) = k - 1 /\ \A i \in 1..(k - 1) : a[i] = s[i]
  BY <1>1
<1>3. b \in Seq(S) /\ Len(b) = Len(s) - k /\ \A i \in 1..(Len(s) - k) : b[i] = s[k + i]
  BY <1>1
<1>4. RemovedAt(s, k) = a \o b
  BY DEF RemovedAt
<1> HIDE DEF a, b
<1>5. /\ a \o b \in Seq(S) /\ Len(a \o b) = Len(a) + Len(b)
      /\ \A i \in 1..(Len(a) + Len(b)) : (a \o b)[i] = IF i <= Len(a) THEN a[i] ELSE b[i - Len(a)]
  <2>1. a \in Seq(S) /\ b \in Seq(S)
    BY <1>2, <1>3, Zenon
  <2> QED
    BY <2>1
<1>6. Len(a) + Len(b) = Len(s) - 1
  BY <1>1, <1>2, <1>3
<1>7. DOMAIN (a \o b) = 1..(Len(s) - 1)
  BY <1>5, <1>6
<1>8. ASSUME NEW i \in 1..(Len(s) - 1)
      PROVE  (a \o b)[i] = IF i < k THEN s[i] ELSE s[i + 1]
  <2>1. CASE i < k
    BY <1>1, <1>2, <1>5, <1>6, <2>1
  <2>2. CASE ~(i < k)
    <3>1. i - Len(a) \in 1..(Len(s) - k) /\ k + (i - Len(a)) = i + 1
      BY <1>1, <1>2, <2>2
    <3>0. i \in 1..(Len(a) + Len(b)) /\ ~(i <= Len(a))
      BY <1>1, <1>2, <1>6, <2>2
    <3>2. (a \o b)[i] = b[i - Len(a)]
      BY <1>5, <3>0
    <3>3. b[i - Len(a)] = s[i + 1]
      BY <1>3, <3>1
    <3>4. QED BY <2>2, <3>2, <3>3
  <2>3. QED BY <2>1, <2>2
<1>9. QED BY <1>4, <1>5, <1>6, <1>7, <1>8

(* list.Remove of the only element of a name. *)
LEMMA UnlinkedList ==
    ASSUME CacheOK, NEW n \in Range(lru)
    PROVE  /\ Unlinked(n) \in Seq(Nat) /\ IsInjective(Unlinked(n))
           /\ Len(Unlinked(n)) = Len(lru) - 1
           /\ Range(Unlinked(n)) = Range(lru) \ {n}
<1> DEFINE k == CHOOSE i \in DOMAIN lru : lru[i] = n
           r == RemovedAt(lru, k)
           Old(i) == IF i < k THEN i ELSE i + 1
<1>1. k \in DOMAIN lru /\ lru[k] = n
  BY DEF Range
<1>2. lru \in Seq(Nat) /\ Len(lru) \in Nat /\ DOMAIN lru = 1..Len(lru) /\ k \in 1..Len(lru)
  BY <1>1 DEF CacheOK
<1> HIDE DEF k
<1>3. /\ r \in Seq(Nat) /\ Len(r) = Len(lru) - 1 /\ DOMAIN r = 1..(Len(lru) - 1)
      /\ \A i \in 1..(Len(lru) - 1) : r[i] = lru[Old(i)]
  BY <1>1, <1>2, RemovedParts, Zenon
<1> HIDE DEF r
<1>5. \A i \in 1..(Len(lru) - 1) : Old(i) \in DOMAIN lru /\ Old(i) # k
  BY <1>2
<1>6. \A i, j \in 1..(Len(lru) - 1) : Old(i) = Old(j) => i = j
  BY <1>2
<1>7. \A j \in DOMAIN lru \ {k} : \E i \in 1..(Len(lru) - 1) : Old(i) = j
  <2> SUFFICES ASSUME NEW j \in DOMAIN lru \ {k}
               PROVE  \E i \in 1..(Len(lru) - 1) : Old(i) = j
    OBVIOUS
  <2>1. CASE j < k
    BY <1>2, <2>1
  <2>2. CASE j > k
    <3>1. j - 1 \in 1..(Len(lru) - 1) /\ Old(j - 1) = j
      BY <1>2, <2>2
    <3> QED
      BY <3>1
  <2> QED
    BY <1>2, <2>1, <2>2
<1> HIDE DEF Old
<1>8. IsInjective(lru)
  BY DEF CacheOK
<1>9. IsInjective(r)
  BY <1>3, <1>5, <1>6, <1>8 DEF IsInjective
<1>10. Range(r) = Range(lru) \ {n}
  <2>1. ASSUME NEW i \in DOMAIN r PROVE r[i] \in Range(lru) \ {n}
    BY <1>1, <1>3, <1>5, <1>8 DEF Range, IsInjective
  <2>2. ASSUME NEW j \in DOMAIN lru, lru[j] # n PROVE \E i \in DOMAIN r : r[i] = lru[j]
    BY <1>1, <1>3, <1>7, <2>2
  <2> QED
    BY <2>1, <2>2 DEF Range
<1> QED
  BY <1>3, <1>9, <1>10, Zenon DEF Unlinked, k, r

(* PushFront of a name that the list does not have. *)
LEMMA FrontList ==
    ASSUME NEW s \in Seq(Nat), IsInjective(s), NEW n \in Nat, n \notin Range(s)
    PROVE  /\ <<n>> \o s \in Seq(Nat) /\ IsInjective(<<n>> \o s)
           /\ Len(<<n>> \o s) = Len(s) + 1
           /\ Range(<<n>> \o s) = Range(s) \cup {n}
<1> DEFINE f == <<n>> \o s
<1>1. /\ f \in Seq(Nat) /\ Len(f) = Len(s) + 1 /\ DOMAIN f = 1..(Len(s) + 1)
      /\ \A i \in 1..(Len(s) + 1) : f[i] = IF i = 1 THEN n ELSE s[i - 1]
  <2>1. <<n>> \in Seq(Nat) /\ Len(<<n>>) = 1 /\ <<n>>[1] = n
    OBVIOUS
  <2>2. /\ f \in Seq(Nat) /\ Len(f) = Len(<<n>>) + Len(s)
        /\ \A i \in 1..(Len(<<n>>) + Len(s)) :
              f[i] = IF i <= Len(<<n>>) THEN <<n>>[i] ELSE s[i - Len(<<n>>)]
    BY <2>1
  <2> HIDE DEF f
  <2> QED
    BY <2>1, <2>2
<1> HIDE DEF f
<1>2. Len(s) \in Nat /\ DOMAIN s = 1..Len(s)
  OBVIOUS
<1>3. \A i \in DOMAIN f : i # 1 => i - 1 \in DOMAIN s /\ f[i] = s[i - 1] /\ f[i] \in Range(s)
  BY <1>1, <1>2 DEF Range
<1>4. 1 \in DOMAIN f /\ f[1] = n
  BY <1>1, <1>2
<1>5. ASSUME NEW j \in DOMAIN s PROVE j + 1 \in DOMAIN f /\ f[j + 1] = s[j]
  <2>1. j + 1 \in 1..(Len(s) + 1) /\ j + 1 # 1 /\ (j + 1) - 1 = j
    BY <1>2
  <2> QED
    BY <1>1, <2>1
<1>6. IsInjective(f)
  <2> SUFFICES ASSUME NEW i \in DOMAIN f, NEW j \in DOMAIN f, f[i] = f[j] PROVE i = j
    BY DEF IsInjective
  <2>1. CASE i = 1 \/ j = 1
    BY <1>3, <1>4, <2>1
  <2>2. CASE i # 1 /\ j # 1
    <3>1. i - 1 = j - 1
      BY <1>3, <2>2 DEF IsInjective
    <3> QED
      BY <1>1, <3>1
  <2> QED
    BY <2>1, <2>2
<1>7. Range(f) = Range(s) \cup {n}
  BY <1>3, <1>4, <1>5 DEF Range
<1> QED
  BY <1>1, <1>6, <1>7 DEF f

(* The elements that are left when the back of the list is evicted. *)
LEMMA CutList ==
    ASSUME NEW s \in Seq(Nat), IsInjective(s), NEW m \in 0..Len(s)
    PROVE  /\ SubSeq(s, 1, m) \in Seq(Nat) /\ IsInjective(SubSeq(s, 1, m))
           /\ Len(SubSeq(s, 1, m)) = m
           /\ Range(SubSeq(s, 1, m)) \subseteq Range(s)
<1> DEFINE f == SubSeq(s, 1, m)
<1>1. f \in Seq(Nat) /\ Len(f) = m /\ DOMAIN f \subseteq DOMAIN s /\ \A i \in DOMAIN f : f[i] = s[i]
  OBVIOUS
<1> HIDE DEF f
<1> QED
  BY <1>1 DEF IsInjective, Range, f

LEMMA FrontOfCache ==
    ASSUME CacheOK, NEW n \in Range(lru)
    PROVE  /\ MoveToFront(n) \in Seq(Nat) /\ IsInjective(MoveToFront(n))
           /\ Len(MoveToFront(n)) = Len(lru) /\ Range(MoveToFront(n)) = Range(lru)
<1>1. /\ Unlinked(n) \in Seq(Nat) /\ IsInjective(Unlinked(n))
      /\ Len(Unlinked(n)) = Len(lru) - 1 /\ Range(Unlinked(n)) = Range(lru) \ {n}
  BY UnlinkedList
<1>2. n \in Nat /\ n \notin Range(Unlinked(n)) /\ Len(lru) \in Nat
  <2>1. PICK k \in DOMAIN lru : n = lru[k]
    BY DEF Range
  <2> QED
    BY <1>1, <2>1 DEF CacheOK
<1>3. /\ MoveToFront(n) \in Seq(Nat) /\ IsInjective(MoveToFront(n))
      /\ Len(MoveToFront(n)) = Len(Unlinked(n)) + 1
      /\ Range(MoveToFront(n)) = Range(Unlinked(n)) \cup {n}
  BY <1>1, <1>2, FrontList DEF MoveToFront
<1> QED
  BY <1>1, <1>2, <1>3

(* The kinds of responses that resolvers give. *)
Records == [nx : BOOLEAN, ttls : SUBSET Nat]

(* Every response gets a TTL from 1 to dnsCacheMaxTTL. *)
LEMMA TtlRange ==
    ASSUME NEW r \in Records
    PROVE  Ttl(r) \in 1..MaxTTL
<1> DEFINE least == CHOOSE m \in r.ttls \cup {MaxTTL} : \A x \in r.ttls : m <= x
<1>0. MaxTTL \in Nat \ {0} /\ NXTTL \in Nat \ {0} /\ NXTTL <= MaxTTL /\ r.ttls \subseteq Nat
  BY ConstantsAssumption DEF Records
<1>1. least \in Nat
  <2>1. \E m \in r.ttls \cup {MaxTTL} : \A x \in r.ttls : m <= x
    <3>1. CASE r.ttls = {}
      BY <3>1
    <3>2. CASE r.ttls # {}
      <4>1. PICK m \in r.ttls : \A x \in r.ttls : ~(<<x, m>> \in OpToRel(<, Nat))
        BY <1>0, <3>2, NatLessThanWellFounded, WFMin
      <4>2. \A x \in r.ttls : ~(x < m)
        BY <1>0, <4>1, Zenon DEF OpToRel
      <4> QED
        BY <1>0, <4>2
    <3> QED
      BY <3>1, <3>2
  <2>2. least \in r.ttls \cup {MaxTTL}
    BY <2>1
  <2> QED
    BY <1>0, <2>2
<1> HIDE DEF least
<1>2. parseDNSTTL(r.ttls) = IF least <= 0 \/ least > MaxTTL THEN MaxTTL ELSE least
  BY DEF parseDNSTTL, least
<1>3. parseDNSTTL(r.ttls) \in 1..MaxTTL
  BY <1>0, <1>1, <1>2
<1> QED
  BY <1>0, <1>3 DEF Ttl

(* put replaces the entry of its name and leaves the others or evicts them. *)
LEMMA PutKeeps ==
    ASSUME CacheOK, NEW n \in Nat, NEW a \in Answers, NEW r \in Records, put(n, a, r)
    PROVE  /\ CacheOK'
           /\ \A m \in DOMAIN cache' : \/ m = n /\ cache'[m].answer = a
                                       \/ m \in DOMAIN cache /\ cache'[m] = cache[m]
<1> DEFINE kept == IF n \in DOMAIN cache THEN MoveToFront(n)
                   ELSE <<n>> \o SubSeq(lru, 1, IF Len(lru) < CacheMax THEN Len(lru) ELSE CacheMax - 1)
           entry == [answer |-> a, ttl |-> Ttl(r), left |-> Ttl(r)]
<1>1. lru' = kept /\ cache' = Restrict(With(cache, n, entry), Range(kept))
  BY DEF put
<1>2. entry \in Entry /\ entry.answer = a /\ entry.left <= entry.ttl
  BY TtlRange, ConstantsAssumption DEF Entry
<1>3. /\ kept \in Seq(Nat) /\ IsInjective(kept) /\ Len(kept) <= CacheMax
      /\ Range(kept) \subseteq DOMAIN cache \cup {n}
  <2>1. CASE n \in DOMAIN cache
    BY <2>1, FrontOfCache DEF CacheOK
  <2>2. CASE n \notin DOMAIN cache
    <3> DEFINE m == IF Len(lru) < CacheMax THEN Len(lru) ELSE CacheMax - 1
               cut == SubSeq(lru, 1, m)
    <3>1. lru \in Seq(Nat) /\ IsInjective(lru) /\ Len(lru) \in Nat /\ CacheMax \in Nat \ {0}
            /\ DOMAIN cache = Range(lru)
      BY ConstantsAssumption DEF CacheOK
    <3>2. m \in 0..Len(lru) /\ m + 1 <= CacheMax
      BY <3>1
    <3> HIDE DEF m
    <3>3. cut \in Seq(Nat) /\ IsInjective(cut) /\ Len(cut) = m /\ Range(cut) \subseteq Range(lru)
      BY <3>1, <3>2, CutList
    <3> HIDE DEF cut
    <3>4. n \notin Range(cut)
      BY <2>2, <3>1, <3>3
    <3>5. kept = <<n>> \o cut
      BY <2>2 DEF cut, m
    <3> HIDE DEF kept
    <3>6. /\ <<n>> \o cut \in Seq(Nat) /\ IsInjective(<<n>> \o cut)
          /\ Len(<<n>> \o cut) = Len(cut) + 1 /\ Range(<<n>> \o cut) = Range(cut) \cup {n}
      BY <3>3, <3>4, FrontList
    <3> QED
      BY <3>1, <3>2, <3>3, <3>5, <3>6
  <2> QED
    BY <2>1, <2>2
<1> HIDE DEF kept, entry
<1>4. cache' = [m \in Range(kept) |-> IF m = n THEN entry ELSE cache[m]]
  BY <1>1, <1>3 DEF Restrict, With
<1>5. ASSUME NEW m \in Range(kept)
      PROVE  /\ cache'[m] \in Entry /\ cache'[m].left <= cache'[m].ttl
             /\ \/ m = n /\ cache'[m].answer = a
                \/ m \in DOMAIN cache /\ cache'[m] = cache[m]
  BY <1>2, <1>3, <1>4 DEF CacheOK
<1>6. DOMAIN cache' = Range(kept) /\ cache' \in [Range(kept) -> Entry]
  BY <1>4, <1>5
<1> QED
  BY <1>1, <1>3, <1>5, <1>6 DEF CacheOK

(* A hit moves the entry to the front; a miss drops it if it has expired. *)
LEMMA LookupKeeps ==
    ASSUME CacheOK, NEW u \in Users, Hit(u) \/ Miss(u)
    PROVE  CacheOK' /\ \A m \in DOMAIN cache' : m \in DOMAIN cache /\ cache'[m] = cache[m]
<1> DEFINE n == Query[u].name
<1>0. DOMAIN cache = Range(lru)
  BY DEF CacheOK
<1>1. CASE Hit(u)
  <2>1. n \in Range(lru) /\ lru' = MoveToFront(n) /\ cache' = cache
    BY <1>0, <1>1 DEF Hit
  <2> QED
    BY <2>1, FrontOfCache DEF CacheOK
<1>2. CASE Miss(u) /\ UNCHANGED cached
  BY <1>2 DEF CacheOK, cached
<1>3. CASE Miss(u) /\ ~UNCHANGED cached
  <2>1. n \in Range(lru) /\ lru' = Unlinked(n) /\ cache' = Without(cache, n)
    BY <1>0, <1>3 DEF Miss
  <2>2. /\ lru' \in Seq(Nat) /\ IsInjective(lru') /\ Len(lru') = Len(lru) - 1
        /\ Range(lru') = Range(lru) \ {n}
    BY <2>1, UnlinkedList
  <2>3. cache' = [m \in Range(lru') |-> cache[m]]
    BY <1>0, <2>1, <2>2 DEF Without, Restrict
  <2>4. Len(lru') <= CacheMax
    BY <2>2, ConstantsAssumption DEF CacheOK
  <2> QED
    BY <2>2, <2>3, <2>4 DEF CacheOK
<1> QED
  BY <1>1, <1>2, <1>3

LEMMA AgeingKeeps ==
    ASSUME CacheOK, Tick
    PROVE  /\ CacheOK'
           /\ \A m \in DOMAIN cache' : m \in DOMAIN cache /\ cache'[m].answer = cache[m].answer
<1>1. lru' = lru /\ DOMAIN cache = Range(lru)
        /\ cache' = [n \in Range(lru) |-> [cache[n] EXCEPT !.left = IF @ = 0 THEN 0 ELSE @ - 1]]
  BY DEF Tick, CacheOK
<1>2. ASSUME NEW n \in Range(lru)
      PROVE  cache'[n] \in Entry /\ cache'[n].left <= cache'[n].ttl
               /\ cache'[n].answer = cache[n].answer
  <2>1. cache[n] \in Entry /\ cache[n].left <= cache[n].ttl
    BY DEF CacheOK
  <2> QED
    BY <1>1, <2>1 DEF Entry
<1> QED
  BY <1>1, <1>2, Zenon DEF CacheOK

-----------------------------------------------------------------------------
(* The pools and their batches. *)

(* A step gives pool p the queue q and leaves the other queues and all       *)
(* channels.                                                                 *)
Requeued(p, q) ==
    /\ pool' \in [Pools -> Pool]
    /\ pool'[p].queue = q
    /\ \A o \in Pools \ {p} : pool'[o].queue = pool[o].queue
    /\ \A o \in Pools : pool'[o].chans = pool[o].chans

LEMMA RequeuedBy ==
    ASSUME DnsTypes, NEW p \in Pools, NEW q \in Seq(Items), NEW timer \in BOOLEAN,
           NEW late \in BOOLEAN,
           \/ pool' = [pool EXCEPT ![p].queue = q, ![p].timer = timer, ![p].late = late]
           \/ pool' = [pool EXCEPT ![p].queue = q, ![p].timer = timer]
    PROVE  Requeued(p, q)
<1> DEFINE r == [pool[p] EXCEPT !.queue = q, !.timer = timer, !.late = late]
           s == [pool[p] EXCEPT !.queue = q, !.timer = timer]
<1>1. /\ r \in Pool /\ r.queue = q /\ r.chans = pool[p].chans
      /\ s \in Pool /\ s.queue = q /\ s.chans = pool[p].chans
  <2>1. pool[p] \in Pool
    BY DEF DnsTypes
  <2> QED
    BY <2>1, Zenon DEF Pool
<1>2. pool' = [pool EXCEPT ![p] = r] \/ pool' = [pool EXCEPT ![p] = s]
  OBVIOUS
<1> HIDE DEF r, s
<1> QED
  BY <1>1, <1>2, Zenon DEF Requeued, DnsTypes

(* What a queue holds after an append. *)
LEMMA AppendedRange ==
    ASSUME NEW s \in Seq(Items), NEW i \in Items
    PROVE  /\ Append(s, i) \in Seq(Items) /\ Append(s, i) # <<>>
           /\ Range(Append(s, i)) = Range(s) \cup {i} /\ Len(Append(s, i)) = Len(s) + 1
<1>1. /\ Append(s, i) \in Seq(Items) /\ Len(Append(s, i)) = Len(s) + 1
      /\ \A k \in 1..Len(s) : Append(s, i)[k] = s[k]
      /\ Append(s, i)[Len(s) + 1] = i
  OBVIOUS
<1> DEFINE a == Append(s, i)
<1> HIDE DEF a
<1>2. Len(s) \in Nat /\ DOMAIN s = 1..Len(s) /\ DOMAIN a = 1..(Len(s) + 1)
  BY <1>1 DEF a
<1>3. \A k \in DOMAIN a : (k \in DOMAIN s /\ a[k] = s[k]) \/ a[k] = i
  BY <1>1, <1>2 DEF a
<1>4. \A k \in DOMAIN s : k \in DOMAIN a /\ a[k] = s[k]
  BY <1>1, <1>2 DEF a
<1>5. Len(s) + 1 \in DOMAIN a /\ a[Len(s) + 1] = i
  BY <1>1, <1>2 DEF a
<1>6. Range(a) = Range(s) \cup {i}
  BY <1>3, <1>4, <1>5 DEF Range
<1>7. a # <<>>
  BY <1>5
<1> QED
  BY <1>1, <1>6, <1>7 DEF a

(* A query joins its queue, which is flushed if it is full. *)
LEMMA SubmitMoves ==
    ASSUME DnsTypes, NEW t \in Threads, submitQuery(t)
    PROVE  LET p == th[t].pool
               q == Append(pool[p].queue, Item(t))
           IN  /\ p \in Pools /\ th[t].at = "submit" /\ Goto(t, "wait")
               /\ \/ /\ Requeued(p, <<>>)
                     /\ batches' = batches \cup {[items |-> q, chan |-> None]}
                  \/ Requeued(p, q) /\ Len(q) < BatchMax /\ UNCHANGED batches
               /\ UNCHANGED <<case, cached, tunnel, chan, item, results, closing>>
<1> DEFINE p == th[t].pool
           q == Append(pool[p].queue, Item(t))
<1>1. p \in Pools
  BY DEF DnsTypes, Thread
<1>2. q \in Seq(Items) /\ <<>> \in Seq(Items)
  BY <1>1, ItemType, AppendedRange DEF DnsTypes, Pool
<1>3. pool[p].timer \in BOOLEAN /\ pool[p].late \in BOOLEAN
  BY <1>1 DEF DnsTypes, Pool
<1> HIDE DEF q
<1>4. \/ /\ Flush(q)
         /\ \E fired \in {FALSE, pool[p].timer} :
              pool' = [pool EXCEPT ![p].queue = <<>>, ![p].timer = FALSE, ![p].late = @ \/ fired]
      \/ /\ Len(q) < BatchMax /\ UNCHANGED batches
         /\ pool' = [pool EXCEPT ![p].queue = q, ![p].timer = TRUE]
  BY Zenon DEF submitQuery, q
<1>5. /\ th[t].at = "submit" /\ Goto(t, "wait")
      /\ UNCHANGED <<case, cached, tunnel, chan, item, results, closing>>
  BY Zenon DEF submitQuery
<1>6. ASSUME NEW fired \in {FALSE, pool[p].timer},
             pool' = [pool EXCEPT ![p].queue = <<>>, ![p].timer = FALSE, ![p].late = @ \/ fired]
      PROVE  Requeued(p, <<>>)
  <2>1. (pool[p].late \/ fired) \in BOOLEAN
    OBVIOUS
  <2> QED
    BY <1>1, <1>2, <1>6, <2>1, RequeuedBy, Zenon
<1>7. ASSUME pool' = [pool EXCEPT ![p].queue = q, ![p].timer = TRUE]
      PROVE  Requeued(p, q)
  BY <1>1, <1>2, <1>7, RequeuedBy, Zenon
<1> QED
  BY <1>1, <1>4, <1>5, <1>6, <1>7, Zenon DEF Flush, q

(* The callback of the timer takes the queue. *)
LEMMA TimerMoves ==
    ASSUME DnsTypes, NEW p \in Pools, TimerFires(p)
    PROVE  /\ Requeued(p, <<>>)
           /\ \/ pool[p].queue = <<>> /\ UNCHANGED batches
              \/ /\ pool[p].queue # <<>>
                 /\ batches' = batches \cup {[items |-> pool[p].queue, chan |-> None]}
           /\ UNCHANGED <<case, th, cached, tunnel, chan, item, results, closing>>
<1>1. pool[p].timer \in BOOLEAN /\ pool[p].late \in BOOLEAN /\ <<>> \in Seq(Items)
  BY DEF DnsTypes, Pool
<1>2. (pool[p].late /\ pool[p].timer) \in BOOLEAN
  OBVIOUS
<1>3. pool' = [pool EXCEPT ![p].queue = <<>>, ![p].timer = FALSE, ![p].late = @ /\ pool[p].timer]
  BY DEF TimerFires
<1>4. Requeued(p, <<>>)
  BY <1>1, <1>2, <1>3, RequeuedBy, Zenon
<1> QED
  BY <1>4 DEF TimerFires, Flush

(* close takes the queue and gives its items an error. *)
LEMMA FailQueueMoves ==
    ASSUME DnsTypes, NEW p \in Pools, FailQueue(p)
    PROVE  Requeued(p, <<>>) /\ Give(Range(pool[p].queue), NoAnswer)
<1>1. pool[p].timer \in BOOLEAN /\ pool[p].late \in BOOLEAN /\ <<>> \in Seq(Items)
  BY DEF DnsTypes, Pool
<1>2. PICK fired \in {FALSE, pool[p].timer} :
        pool' = [pool EXCEPT ![p].queue = <<>>, ![p].timer = FALSE, ![p].late = @ \/ fired]
  BY Zenon DEF FailQueue
<1>3. (pool[p].late \/ fired) \in BOOLEAN
  OBVIOUS
<1> QED
  BY <1>1, <1>2, <1>3, RequeuedBy, Zenon DEF FailQueue

(* A step gives pool p the channels of S and leaves the other lists and all  *)
(* queues.                                                                   *)
Relisted(p, S) ==
    /\ pool' \in [Pools -> Pool]
    /\ pool'[p].chans = S
    /\ \A o \in Pools \ {p} : pool'[o].chans = pool[o].chans
    /\ \A o \in Pools : pool'[o].queue = pool[o].queue

LEMMA RelistedBy ==
    ASSUME DnsTypes, NEW p \in Pools, NEW S \in SUBSET Chans,
           pool' = [pool EXCEPT ![p].chans = S]
    PROVE  Relisted(p, S)
<1> DEFINE r == [pool[p] EXCEPT !.chans = S]
<1>1. r \in Pool /\ r.queue = pool[p].queue /\ r.chans = S
  <2>1. pool[p] \in Pool
    BY DEF DnsTypes
  <2> QED
    BY <2>1 DEF Pool
<1>2. pool' = [pool EXCEPT ![p] = r]
  OBVIOUS
<1> HIDE DEF r
<1> QED
  BY <1>1, <1>2 DEF Relisted, DnsTypes

(* Values sent to the resultCh of some items. *)
LEMMA GiveSends ==
    ASSUME DnsTypes, NEW S, NEW v \in Answers, Give(S, v)
    PROVE  /\ results' \in [Items -> Seq(Answers)]
           /\ \A i \in Items : results'[i] = IF i \in S THEN Append(results[i], v) ELSE results[i]
<1>1. \A i \in Items : results[i] \in Seq(Answers) /\ Append(results[i], v) \in Seq(Answers)
  BY DEF DnsTypes
<1> QED
  BY <1>1 DEF Give

LEMMA BatchParts ==
    ASSUME DnsTypes, NEW b \in batches
    PROVE  /\ b \in Batch /\ PoolOf(b) \in Pools /\ Range(b.items) \subseteq Items
           /\ b.chan # None => b.chan \in Chans
           /\ Live(PoolOf(b)) \in SUBSET pool[PoolOf(b)].chans
           /\ pool[PoolOf(b)].chans \in SUBSET Chans
<1>1. b \in Batch /\ b.items \in Seq(Items) /\ b.items # <<>>
  BY DEF DnsTypes, Batch
<1>2. b.items[1] \in Items
  BY <1>1
<1>3. PoolOf(b) \in Pools
  BY <1>2 DEF PoolOf, Items
<1>4. Range(b.items) \subseteq Items
  BY <1>1 DEF Range
<1> QED
  BY <1>1, <1>3, <1>4 DEF DnsTypes, Batch, Live, Pool

(* pickChannel gives the batch a channel of the pruned list. *)
LEMMA PickMoves ==
    ASSUME DnsTypes, NEW b \in batches, PickChannel(b)
    PROVE  /\ case' \in Options /\ case'.channels = case.channels
           /\ Relisted(PoolOf(b), Live(PoolOf(b)))
           /\ \E d \in Batch : d.items = b.items /\ batches' = (batches \ {b}) \cup {d}
           /\ UNCHANGED <<th, cached, tunnel, chan, item, results, closing>>
<1> DEFINE p == PoolOf(b)
<1>0. /\ b \in Batch /\ p \in Pools /\ Live(p) \in SUBSET Chans
  BY BatchParts
<1>1. case' \in Options /\ case'.channels = case.channels
  <2>1. UNCHANGED case \/ Spend("break")
    BY DEF PickChannel, DialFails
  <2>2. case \in Options /\ "break" \in Budgets
    BY DEF DnsTypes, Budgets
  <2> QED
    BY <2>1, <2>2, SpendKeeps
<1>2. Relisted(p, Live(p))
  BY <1>0, RelistedBy, Zenon DEF PickChannel
<1>3. PICK c \in Live(p) : batches' = (batches \ {b}) \cup {[b EXCEPT !.chan = c]}
  BY DEF PickChannel
<1>4. [b EXCEPT !.chan = c] \in Batch /\ [b EXCEPT !.chan = c].items = b.items
  BY <1>0 DEF Batch
<1> QED
  BY <1>1, <1>2, <1>3, <1>4 DEF PickChannel

(* The channel that openChannel makes is a new one. *)
LEMMA OpenMoves ==
    ASSUME DnsTypes, NEW b \in batches, OpenChannel(b)
    PROVE  \E c \in Chans :
             /\ Relisted(PoolOf(b), Live(PoolOf(b)) \cup {c})
             /\ Cardinality(Live(PoolOf(b))) < case.channels
             /\ chan' \in [Chans -> Channel] /\ chan'[c].pending = Nothing
             /\ \A d \in Chans \ {c} : chan'[d] = chan[d]
             /\ UNCHANGED <<case, th, cached, tunnel, batches, item, results, closing>>
<1> DEFINE p == PoolOf(b)
           c == NewChannel
           r == [NoChannel EXCEPT !.group = Group(p), !.open = TRUE]
<1>0. /\ b \in Batch /\ p \in Pools /\ Live(p) \in SUBSET Chans
  BY BatchParts
<1>1. c \in Chans
  <2> DEFINE S == {d \in Chans : chan[d] = NoChannel}
  <2>1. S \subseteq Nat /\ S # {}
    BY ConstantsAssumption DEF OpenChannel, CanOpen
  <2>2. PICK m \in S : \A x \in S : ~(<<x, m>> \in OpToRel(<, Nat))
    BY <2>1, NatLessThanWellFounded, WFMin
  <2>3. \A x \in S : ~(x < m)
    BY <2>1, <2>2, Zenon DEF OpToRel
  <2>4. m \in Chans /\ chan[m] = NoChannel /\ \A d \in Chans : d < m => chan[d] # NoChannel
    BY <2>3
  <2> QED
    BY <2>4 DEF NewChannel
<1>2. r \in Channel /\ r.pending = Nothing
  <2>1. Nothing \in Registered
    <3>1. Nothing \in [{} -> Items]
      BY DEF Nothing
    <3> QED
      BY <3>1 DEF Registered
  <2>2. Group(p) \in Nat
    BY <1>0 DEF Group, Pools
  <2>3. NoChannel \in Channel /\ NoChannel.pending = Nothing
    BY <2>1 DEF NoChannel, Channel
  <2> QED
    BY <2>2, <2>3, Zenon DEF Channel
<1>3. chan' = [chan EXCEPT ![c] = r]
  BY DEF OpenChannel
<1>4. pool' = [pool EXCEPT ![p].chans = Live(p) \cup {c}]
  BY DEF OpenChannel
<1> HIDE DEF c, r
<1>5. Relisted(p, Live(p) \cup {c})
  BY <1>0, <1>1, <1>4, RelistedBy
<1>6. chan' \in [Chans -> Channel] /\ chan'[c].pending = Nothing
        /\ \A d \in Chans \ {c} : chan'[d] = chan[d]
  BY <1>1, <1>2, <1>3 DEF DnsTypes
<1> QED
  BY <1>1, <1>5, <1>6 DEF OpenChannel

LEMMA PickFailsMoves ==
    ASSUME DnsTypes, NEW b \in batches, PickFails(b)
    PROVE  /\ case' \in Options /\ case'.channels = case.channels
           /\ Relisted(PoolOf(b), {})
           /\ batches' = batches \ {b}
           /\ Give(Range(b.items), NoAnswer)
           /\ UNCHANGED <<th, cached, tunnel, chan, item, closing>>
<1>1. case' \in Options /\ case'.channels = case.channels
  <2>1. UNCHANGED case \/ Spend("break")
    BY DEF PickFails, DialFails
  <2>2. case \in Options /\ "break" \in Budgets
    BY DEF DnsTypes, Budgets
  <2> QED
    BY <2>1, <2>2, SpendKeeps
<1>2. Relisted(PoolOf(b), {})
  BY BatchParts, RelistedBy, Zenon DEF PickFails
<1> QED
  BY <1>1, <1>2 DEF PickFails

(* The queries of a batch are registered and wait. *)
LEMMA SendMoves ==
    ASSUME DnsTypes, NEW b \in batches, SendBatch(b)
    PROVE  /\ b.chan \in Chans /\ batches' = batches \ {b}
           /\ chan' \in [Chans -> Channel]
           /\ \A d \in Chans \ {b.chan} : chan'[d] = chan[d]
           /\ \A x \in DOMAIN chan'[b.chan].pending :
                 \/ /\ chan'[b.chan].pending[x] \in Range(b.items)
                    /\ Tx(chan'[b.chan].pending[x].thread) = x
                 \/ /\ x \in DOMAIN chan[b.chan].pending
                    /\ chan'[b.chan].pending[x] = chan[b.chan].pending[x]
           /\ chan'[b.chan].out \subseteq chan[b.chan].out \cup Range(b.items)
           /\ item' \in [Items -> Waiter]
           /\ \A i \in Range(b.items) : item'[i].at = "wait" /\ item'[i].resp = NoAnswer
           /\ \A i \in Items \ Range(b.items) : item'[i] = item[i]
           /\ UNCHANGED <<case, th, cached, pool, tunnel, results, closing>>
<1> DEFINE c == b.chan
           items == Range(b.items)
           newest(x) == CHOOSE k \in DOMAIN b.items : Tx(b.items[k].thread) = x
                           /\ \A j \in DOMAIN b.items : Tx(b.items[j].thread) = x => j <= k
           txs == {Tx(i.thread) : i \in items}
           old == chan[c].pending
           registered == [x \in txs \cup DOMAIN old |->
                             IF x \in txs THEN b.items[newest(x)] ELSE old[x]]
           out == IF chan[c].open THEN chan[c].out \cup items ELSE chan[c].out
           r == [chan[c] EXCEPT !.pending = registered, !.out = out]
           w == [NoItem EXCEPT !.at = "wait", !.chan = c]
<1>1. c \in Chans /\ items \subseteq Items /\ b.items \in Seq(Items)
  BY BatchParts DEF SendBatch, Batch
<1>2. ASSUME NEW x \in txs
      PROVE  newest(x) \in DOMAIN b.items /\ Tx(b.items[newest(x)].thread) = x
  <2> DEFINE T == {n \in Nat : \E k \in DOMAIN b.items : Tx(b.items[k].thread) = x /\ n = Len(b.items) - k}
  <2>0. DOMAIN b.items = 1..Len(b.items) /\ Len(b.items) \in Nat
    BY <1>1
  <2>1. PICK k \in DOMAIN b.items : Tx(b.items[k].thread) = x
    BY <1>2 DEF Range
  <2>2. T \subseteq Nat /\ T # {}
    <3>1. Len(b.items) - k \in T
      BY <2>0, <2>1
    <3> QED
      BY <3>1
  <2>3. PICK n \in T : \A m \in T : ~(<<m, n>> \in OpToRel(<, Nat))
    BY <2>2, NatLessThanWellFounded, WFMin
  <2>4. \A m \in T : ~(m < n)
    BY <2>2, <2>3, Zenon DEF OpToRel
  <2>5. PICK h \in DOMAIN b.items : Tx(b.items[h].thread) = x /\ n = Len(b.items) - h
    BY <2>3
  <2>6. ASSUME NEW j \in DOMAIN b.items, Tx(b.items[j].thread) = x PROVE j <= h
    <3>0. Len(b.items) - j \in Nat
      BY <2>0
    <3>1. Len(b.items) - j \in T
      BY <2>6, <3>0
    <3>2. ~(Len(b.items) - j < Len(b.items) - h)
      BY <2>4, <2>5, <3>1
    <3> QED
      BY <2>0, <3>2
  <2> QED
    BY <2>5, <2>6
<1> HIDE DEF newest
<1>3. old \in Registered /\ chan[c] \in Channel
  BY <1>1 DEF DnsTypes, Channel
<1>4. PICK D \in SUBSET Nat : old \in [D -> Items]
  BY <1>3 DEF Registered
<1>5. txs \subseteq Nat
  BY <1>1, AskedType DEF Items
<1>6. registered \in [txs \cup D -> Items]
  BY <1>1, <1>2, <1>4
<1>7. registered \in Registered
  BY <1>5, <1>6, Zenon DEF Registered
<1>8. ASSUME NEW x \in DOMAIN registered
      PROVE  \/ registered[x] \in items /\ Tx(registered[x].thread) = x
             \/ x \in DOMAIN old /\ registered[x] = old[x]
  <2>1. CASE x \in txs
    <3>1. registered[x] = b.items[newest(x)]
      BY <2>1
    <3>2. Tx(b.items[newest(x)].thread) = x /\ b.items[newest(x)] \in items
      BY <1>2, <2>1, Zenon DEF Range
    <3> HIDE DEF registered, txs, old
    <3> QED
      BY <3>1, <3>2
  <2>2. CASE x \notin txs
    <3>1. x \in DOMAIN old /\ registered[x] = old[x]
      BY <2>2
    <3> QED
      BY <3>1
  <2> QED
    BY <2>1, <2>2
<1>9. out \in SUBSET Items /\ out \subseteq chan[c].out \cup items
  BY <1>1, <1>3, Zenon DEF Channel
<1>10. /\ batches' = batches \ {b}
       /\ chan' = [chan EXCEPT ![c] = r]
       /\ item' = [i \in Items |-> IF i \in items THEN w ELSE item[i]]
       /\ UNCHANGED <<case, th, cached, pool, tunnel, results, closing>>
  BY Zenon DEF SendBatch, newest
<1> HIDE DEF registered, out
<1>11. r \in Channel /\ r.pending = registered /\ r.out = out
  BY <1>3, <1>7, <1>9 DEF Channel
<1>12. w \in Waiter /\ w.at = "wait" /\ w.resp = NoAnswer
  BY <1>1, Zenon DEF NoItem, Waiter, NoAnswer, Answers, None
<1> HIDE DEF r, w, items, old
<1>13. chan' \in [Chans -> Channel] /\ chan'[c].pending = registered /\ chan'[c].out = out
         /\ \A d \in Chans \ {c} : chan'[d] = chan[d]
  BY <1>1, <1>10, <1>11 DEF DnsTypes
<1>14. \A x \in DOMAIN chan'[c].pending :
          \/ chan'[c].pending[x] \in items /\ Tx(chan'[c].pending[x].thread) = x
          \/ x \in DOMAIN chan[c].pending /\ chan'[c].pending[x] = chan[c].pending[x]
  BY <1>8, <1>13 DEF old
<1>15. /\ item' \in [Items -> Waiter]
       /\ \A i \in items : item'[i].at = "wait" /\ item'[i].resp = NoAnswer
       /\ \A i \in Items \ items : item'[i] = item[i]
  BY <1>1, <1>10, <1>12 DEF DnsTypes
<1> QED
  BY <1>1, <1>9, <1>10, <1>13, <1>14, <1>15, Zenon DEF items

-----------------------------------------------------------------------------
(* The channels. *)

(* A step registers nothing and sends no query. *)
NoneRegistered ==
    /\ chan' \in [Chans -> Channel]
    /\ \A c \in Chans : \A x \in DOMAIN chan'[c].pending :
          x \in DOMAIN chan[c].pending /\ chan'[c].pending[x] = chan[c].pending[x]
    /\ \A c \in Chans : chan'[c].out \subseteq chan[c].out

LEMMA WithoutOne ==
    ASSUME NEW f \in Registered, NEW x
    PROVE  /\ Without(f, x) \in Registered
           /\ \A y \in DOMAIN Without(f, x) : y \in DOMAIN f /\ Without(f, x)[y] = f[y]
<1>1. PICK D \in SUBSET Nat : f \in [D -> Items]
  BY DEF Registered
<1>2. Without(f, x) \in [D \ {x} -> Items]
  BY <1>1, Zenon DEF Without, Restrict
<1> QED
  BY <1>1, <1>2, Zenon DEF Registered, Without, Restrict

LEMMA NothingRegistered == Nothing \in Registered /\ DOMAIN Nothing = {}
<1>1. Nothing \in [{} -> Items]
  BY DEF Nothing
<1> QED
  BY <1>1 DEF Registered

(* One channel is changed. *)
LEMMA OneChannel ==
    ASSUME DnsTypes, NEW c, NEW r, chan' = [chan EXCEPT ![c] = r],
           c \in Chans => /\ r \in Channel /\ r.out \subseteq chan[c].out
                          /\ \A x \in DOMAIN r.pending : x \in DOMAIN chan[c].pending
                                                           /\ r.pending[x] = chan[c].pending[x]
    PROVE  NoneRegistered
BY Zenon DEF NoneRegistered, DnsTypes

LEMMA BrokenType ==
    ASSUME DnsTypes, NEW c \in Chans
    PROVE  Broken(c) \in Channel /\ Broken(c).pending = chan[c].pending /\ Broken(c).out = {}
<1>1. chan[c] \in Channel
  BY Zenon DEF DnsTypes
<1> QED
  BY <1>1 DEF Broken, Channel

(* readLoop hands a response over, or drops it. *)
LEMMA ReadMoves ==
    ASSUME DnsTypes, NEW c \in Chans, NEW i \in chan[c].out, readLoop(c, i)
    PROVE  /\ NoneRegistered
           /\ i \in Items /\ item' \in [Items -> Waiter]
           /\ \A j \in Items :
                /\ item'[j].at = item[j].at
                /\ \/ item'[j].resp = item[j].resp
                   \/ /\ Tx(i.thread) \in DOMAIN chan[c].pending
                      /\ j = chan[c].pending[Tx(i.thread)]
                      /\ item'[j].resp = Asked(i.thread)
           /\ UNCHANGED <<case, th, cached, pool, tunnel, batches, results, closing>>
<1> DEFINE x == Tx(i.thread)
           f == chan[c].pending
           r == [chan[c] EXCEPT !.out = @ \ {i}, !.pending = Without(@, x)]
<1>1. chan[c] \in Channel /\ f \in Registered /\ i \in Items
  BY DEF DnsTypes, Channel
<1>2. Without(f, x) \in Registered /\ \A y \in DOMAIN Without(f, x) : y \in DOMAIN f /\ Without(f, x)[y] = f[y]
  BY <1>1, WithoutOne
<1>3. r \in Channel /\ r.pending = Without(f, x) /\ r.out \subseteq chan[c].out
  BY <1>1, <1>2, Zenon DEF Channel
<1>4. chan' = [chan EXCEPT ![c] = r]
  BY DEF readLoop
<1> HIDE DEF r
<1>5. NoneRegistered
  BY <1>2, <1>3, <1>4, OneChannel, Zenon
<1>6. Asked(i.thread) \in Answers
  BY <1>1, AskedType DEF Items
<1>7. CASE x \notin DOMAIN f
  <2>1. item' = item
    BY <1>7 DEF readLoop
  <2> QED
    BY <1>1, <1>5, <2>1, Zenon DEF readLoop, DnsTypes
<1>8. CASE x \in DOMAIN f
  <2> DEFINE j == f[x]
             w == [item[j] EXCEPT !.resp = Asked(i.thread)]
  <2>1. j \in Items
    BY <1>1, <1>8, Zenon DEF Registered
  <2>2. item' = [item EXCEPT ![j] = w]
    BY <1>8 DEF readLoop
  <2>3. w \in Waiter /\ w.at = item[j].at /\ w.resp = Asked(i.thread)
    <3>1. item[j] \in Waiter
      BY <2>1 DEF DnsTypes
    <3> QED
      BY <1>6, <3>1 DEF Waiter
  <2> HIDE DEF w
  <2> QED
    BY <1>1, <1>5, <1>8, <2>1, <2>2, <2>3 DEF readLoop, DnsTypes
<1> QED
  BY <1>7, <1>8

(* The steps of a channel that concern no item and no result. *)
LEMMA ChannelMoves ==
    ASSUME DnsTypes, NEW c \in Chans,
           \/ readLoopEnds(c) \/ StreamBreaks(c) \/ \E i \in chan[c].out : Unresolved(c, i)
    PROVE  /\ NoneRegistered
           /\ case' \in Options /\ case'.channels = case.channels
           /\ UNCHANGED <<th, cached, pool, tunnel, batches, item, results, closing>>
<1>0. case \in Options /\ "break" \in Budgets /\ "unresolved" \in Budgets /\ chan[c] \in Channel
  BY DEF DnsTypes, Budgets
<1>1. CASE readLoopEnds(c)
  <2> DEFINE r == [chan[c] EXCEPT !.over = TRUE, !.pending = Nothing]
  <2>1. r \in Channel /\ r.pending = Nothing /\ r.out = chan[c].out
    BY <1>0, NothingRegistered, Zenon DEF Channel
  <2>2. chan' = [chan EXCEPT ![c] = r]
    BY <1>1 DEF readLoopEnds
  <2> HIDE DEF r
  <2>3. NoneRegistered
    BY <2>1, <2>2, NothingRegistered, OneChannel, Zenon
  <2> QED
    BY <1>0, <1>1, <2>3 DEF readLoopEnds
<1>2. CASE StreamBreaks(c)
  <2>1. NoneRegistered
    BY <1>2, BrokenType, OneChannel, Zenon DEF StreamBreaks
  <2>2. case' \in Options /\ case'.channels = case.channels
    BY <1>0, <1>2, SpendKeeps DEF StreamBreaks
  <2> QED
    BY <1>2, <2>1, <2>2 DEF StreamBreaks
<1>3. ASSUME NEW i \in chan[c].out, Unresolved(c, i)
      PROVE  /\ NoneRegistered
             /\ case' \in Options /\ case'.channels = case.channels
             /\ UNCHANGED <<th, cached, pool, tunnel, batches, item, results, closing>>
  <2> DEFINE r == [chan[c] EXCEPT !.out = @ \ {i}]
  <2>1. r \in Channel /\ r.pending = chan[c].pending /\ r.out \subseteq chan[c].out
    BY <1>0 DEF Channel
  <2>2. chan' = [chan EXCEPT ![c] = r]
    BY <1>3 DEF Unresolved
  <2> HIDE DEF r
  <2>3. NoneRegistered
    BY <2>1, <2>2, OneChannel
  <2>4. case' \in Options /\ case'.channels = case.channels
    BY <1>0, <1>3, SpendKeeps DEF Unresolved
  <2> QED
    BY <1>3, <2>3, <2>4 DEF Unresolved
<1> QED
  BY <1>1, <1>2, <1>3

(* Streams that are closed with their pool or their group. *)
LEMMA BreakingMoves ==
    ASSUME DnsTypes, NEW p \in Pools, CloseChannels(p) \/ StopGroup(p)
    PROVE  /\ NoneRegistered
           /\ Relisted(p, {}) \/ UNCHANGED pool
           /\ UNCHANGED <<case, th, cached, cur, batches, item, results>>
<1>1. ASSUME NEW c \in Chans
      PROVE  /\ Broken(c) \in Channel /\ chan[c] \in Channel
             /\ Broken(c).pending = chan[c].pending /\ Broken(c).out = {}
  BY BrokenType DEF DnsTypes
<1>2. /\ DOMAIN chan' = Chans /\ \A c \in Chans : chan'[c] \in {chan[c], Broken(c)}
      /\ chan' = [c \in Chans |-> chan'[c]]
  <2>1. CASE CloseChannels(p)
    BY <2>1 DEF CloseChannels
  <2>2. CASE StopGroup(p)
    BY <2>2 DEF StopGroup
  <2> QED
    BY <2>1, <2>2
<1>3. NoneRegistered
  BY <1>1, <1>2 DEF NoneRegistered
<1>4. Relisted(p, {}) \/ UNCHANGED pool
  <2>1. CASE CloseChannels(p)
    BY <2>1, RelistedBy DEF CloseChannels
  <2>2. CASE StopGroup(p)
    BY <2>2 DEF StopGroup
  <2> QED
    BY <2>1, <2>2
<1> QED
  BY <1>3, <1>4 DEF CloseChannels, StopGroup, tunnel

(* A goroutine that waited sends one value and is over. *)
LEMMA WaiterMoves ==
    ASSUME DnsTypes, NEW i \in Items, WaiterEnds(i)
    PROVE  /\ NoneRegistered
           /\ case' \in Options /\ case'.channels = case.channels
           /\ item[i].at = "wait"
           /\ item' \in [Items -> Waiter] /\ item'[i].at = "over" /\ item'[i].resp = item[i].resp
           /\ \A j \in Items \ {i} : item'[j] = item[j]
           /\ Give({i}, item[i].resp) \/ Give({i}, NoAnswer)
           /\ UNCHANGED <<th, cached, pool, tunnel, batches, closing>>
<1> DEFINE c == item[i].chan
           w == [item[i] EXCEPT !.at = "over"]
           r == [chan[c] EXCEPT !.pending = Without(@, Tx(i.thread))]
<1>1. item[i] \in Waiter /\ case \in Options /\ "timeout" \in Budgets
  BY DEF DnsTypes, Budgets
<1>2. w \in Waiter /\ w.at = "over" /\ w.resp = item[i].resp
  BY <1>1 DEF Waiter
<1>3. item' = [item EXCEPT ![i] = w] /\ chan' = [chan EXCEPT ![c] = r]
  BY Zenon DEF WaiterEnds
<1>4. ASSUME c \in Chans
      PROVE  /\ r \in Channel /\ r.out = chan[c].out
             /\ \A x \in DOMAIN r.pending : x \in DOMAIN chan[c].pending
                                             /\ r.pending[x] = chan[c].pending[x]
  <2>1. chan[c] \in Channel /\ chan[c].pending \in Registered
    BY <1>4 DEF DnsTypes, Channel
  <2>2. r \in Channel /\ r.out = chan[c].out /\ r.pending = Without(chan[c].pending, Tx(i.thread))
    BY <2>1, WithoutOne DEF Channel
  <2> HIDE DEF r
  <2> QED
    BY <2>1, <2>2, WithoutOne
<1> HIDE DEF w, r
<1>5. NoneRegistered
  BY <1>3, <1>4, OneChannel, Zenon
<1>6. case' \in Options /\ case'.channels = case.channels
  <2>1. UNCHANGED case \/ Spend("timeout")
    BY DEF WaiterEnds, TimedOut
  <2> QED
    BY <1>1, <2>1, SpendKeeps
<1>7. Give({i}, item[i].resp) \/ Give({i}, NoAnswer)
  BY DEF WaiterEnds
<1>8. /\ item' \in [Items -> Waiter] /\ item'[i].at = "over" /\ item'[i].resp = item[i].resp
      /\ \A j \in Items \ {i} : item'[j] = item[j]
  BY <1>2, <1>3 DEF DnsTypes
<1> QED
  BY <1>5, <1>6, <1>7, <1>8 DEF WaiterEnds

(* The pool gave a result, or a stream, or a direct query. *)
Resolving(t) == GetResult(t) \/ dnsViaStream(t) \/ dnsDirect(t)

LEMMA ResolvingMoves ==
    ASSUME DnsTypes, NEW t \in Threads, Resolving(t)
    PROVE  /\ case' \in Options /\ case'.channels = case.channels
           /\ th[t].at \in {"wait", "stream", "direct"}
           /\ \/ Succeed(t, Asked(t))
              \/ /\ results[Item(t)] # <<>> /\ Head(results[Item(t)]) # NoAnswer
                 /\ Succeed(t, Head(results[Item(t)]))
              \/ Fail(t)
              \/ UNCHANGED cached /\ Goto(t, "stream")
              \/ UNCHANGED cached /\ Goto(t, "dropped")
           /\ UNCHANGED <<pool, tunnel, batches, chan, item, results, closing>>
<1>0. case \in Options /\ "stream" \in Budgets /\ "timeout" \in Budgets
  BY Zenon DEF DnsTypes, Budgets
<1>1. CASE GetResult(t)
  <2>1. UNCHANGED case \/ Spend("timeout")
    BY <1>1 DEF GetResult
  <2>2. case' \in Options /\ case'.channels = case.channels
    BY <1>0, <2>1, SpendKeeps
  <2> QED
    BY <1>1, <2>2 DEF GetResult
<1>2. CASE dnsViaStream(t)
  <2>1. UNCHANGED case \/ Spend("stream")
    BY <1>2 DEF dnsViaStream
  <2>2. case' \in Options /\ case'.channels = case.channels
    BY <1>0, <2>1, SpendKeeps
  <2> QED
    BY <1>2, <2>2 DEF dnsViaStream
<1>3. CASE dnsDirect(t)
  BY <1>0, <1>3, Zenon DEF dnsDirect
<1> QED
  BY <1>1, <1>2, <1>3, Zenon DEF Resolving

(* Stop and SwapDialStream close a pool. *)
LEMMA ClosingMoves ==
    ASSUME DnsTypes, Stop \/ SwapDialStream
    PROVE  \E p \in Pools :
             /\ Requeued(p, <<>>) /\ Give(Range(pool[p].queue), NoAnswer)
             /\ case' \in Options /\ case'.channels = case.channels
             /\ UNCHANGED <<th, cached, cur, batches, chan, item>>
<1>0. case \in Options /\ "stop" \in Budgets /\ "swap" \in Budgets /\ cur \in Pools /\ 1 \in Pools
  BY DEF DnsTypes, Budgets, Pools
<1>1. CASE Stop
  <2>1. case' \in Options /\ case'.channels = case.channels
    BY <1>0, <1>1, SpendKeeps DEF Stop
  <2>2. Requeued(cur, <<>>) /\ Give(Range(pool[cur].queue), NoAnswer)
    BY <1>0, <1>1, FailQueueMoves DEF Stop
  <2> QED
    BY <1>0, <1>1, <2>1, <2>2 DEF Stop
<1>2. CASE SwapDialStream
  <2>1. case' \in Options /\ case'.channels = case.channels
    BY <1>0, <1>2, SpendKeeps DEF SwapDialStream
  <2>2. Requeued(1, <<>>) /\ Give(Range(pool[1].queue), NoAnswer)
    BY <1>0, <1>2, FailQueueMoves DEF SwapDialStream
  <2> QED
    BY <1>0, <1>2, <2>1, <2>2 DEF SwapDialStream
<1> QED
  BY <1>1, <1>2

-----------------------------------------------------------------------------
(* Types and bounds. *)

LEMMA RequeuedBounded ==
    ASSUME DnsTypes, PoolsBounded, NEW p \in Pools, NEW q, Requeued(p, q), Len(q) < BatchMax,
           case'.channels = case.channels
    PROVE  PoolsBounded'
BY DEF PoolsBounded, Requeued

LEMMA RelistedBounded ==
    ASSUME DnsTypes, PoolsBounded, NEW p \in Pools, NEW S, Relisted(p, S),
           IsFiniteSet(S), Cardinality(S) <= case.channels, case'.channels = case.channels
    PROVE  PoolsBounded'
BY DEF PoolsBounded, Relisted

(* A pruned list is no longer than before. *)
LEMMA PrunedBounded ==
    ASSUME DnsTypes, PoolsBounded, NEW p \in Pools, NEW S \in SUBSET pool[p].chans
    PROVE  IsFiniteSet(S) /\ Cardinality(S) <= case.channels /\ Cardinality(S) \in Nat
<1>1. IsFiniteSet(pool[p].chans) /\ Cardinality(pool[p].chans) <= case.channels
  BY DEF PoolsBounded
<1>2. IsFiniteSet(S) /\ Cardinality(S) <= Cardinality(pool[p].chans)
  BY <1>1, FS_Subset
<1>3. Cardinality(S) \in Nat /\ Cardinality(pool[p].chans) \in Nat
  BY <1>1, <1>2, FS_CardinalityType
<1>4. case.channels \in Nat
  BY DEF DnsTypes, Options
<1> QED
  BY <1>1, <1>2, <1>3, <1>4

Bounded == DnsTypes /\ CacheOK /\ PoolsBounded

(* Nothing is under way at the start. *)
LEMMA InitBounded == Init => Bounded
<1> SUFFICES ASSUME Init PROVE Bounded
  BY Zenon
<1> USE ConstantsAssumption
<1>1. case \in Options /\ cur \in Pools /\ case.channels \in Nat
  BY DEF Init, Pools, Options
<1>2. NoThread \in Thread /\ NoItem \in Waiter
  BY DEF NoThread, Thread, Places, Pools, NoAnswer, None, Answers, NoItem, Waiter
<1>3. NoChannel \in Channel
  BY NothingRegistered DEF NoChannel, Channel
<1>4. pool \in [Pools -> Pool]
  <2> DEFINE r == [queue |-> <<>>, timer |-> FALSE, late |-> FALSE, chans |-> {}]
  <2>1. r \in Pool
    BY DEF Pool
  <2>2. pool = [p \in Pools |-> r]
    BY DEF Init
  <2> HIDE DEF r
  <2> QED
    BY <2>1, <2>2
<1>5. results \in [Items -> Seq(Answers)]
  BY DEF Init
<1>6. DnsTypes
  BY <1>1, <1>2, <1>3, <1>4, <1>5 DEF Init, DnsTypes
<1>7. CacheOK
  <2>1. Range(lru) = {} /\ lru \in Seq(Nat) /\ Len(lru) = 0 /\ IsInjective(lru)
    BY DEF Init, Range, IsInjective
  <2>2. cache \in [{} -> Entry]
    BY DEF Init, Nothing
  <2> QED
    BY <2>1, <2>2 DEF CacheOK
<1>8. PoolsBounded
  <2>1. \A p \in Pools : pool[p].chans = {} /\ pool[p].queue = <<>>
    BY DEF Init
  <2>2. IsFiniteSet({}) /\ Cardinality({}) = 0
    BY FS_EmptySet
  <2>3. 0 <= case.channels /\ Len(<<>>) < BatchMax
    BY <1>1
  <2> QED
    BY <2>1, <2>2, <2>3, Zenon DEF PoolsBounded
<1> QED
  BY <1>6, <1>7, <1>8 DEF Bounded

(* put is called with the answer and one of the responses of the case. *)
LEMMA SucceedCaches ==
    ASSUME DnsTypes, CacheOK, NEW t \in Threads, NEW a \in Answers, Succeed(t, a)
    PROVE  /\ CacheOK'
           /\ \A m \in DOMAIN cache' : \/ m = Asked(t).name /\ cache'[m].answer = a
                                       \/ m \in DOMAIN cache /\ cache'[m] = cache[m]
<1>1. PICK r \in case.records : put(Asked(t).name, a, r)
  BY DEF Succeed
<1>2. r \in Records /\ Asked(t).name \in Nat
  BY AskedType DEF DnsTypes, Options, Records, Answers
<1> QED
  BY <1>1, <1>2, PutKeeps

LEMMA ResolvingBounded ==
    ASSUME Bounded, NEW t \in Threads, Resolving(t)
    PROVE  Bounded'
<1> USE DEF Bounded
<1>1. /\ case' \in Options /\ case'.channels = case.channels
      /\ UNCHANGED <<pool, cur, batches, chan, item, results>>
  BY ResolvingMoves, Zenon DEF tunnel
<1>2. th' \in [Threads -> Thread] /\ CacheOK'
  <2>1. ASSUME NEW a \in Answers, Succeed(t, a) PROVE th' \in [Threads -> Thread] /\ CacheOK'
    BY <2>1, ThreadSucceeds, SucceedCaches, Zenon
  <2>2. Asked(t) \in Answers
    BY AskedType
  <2>3. ASSUME results[Item(t)] # <<>> PROVE Head(results[Item(t)]) \in Answers
    <3>1. results[Item(t)] \in Seq(Answers)
      BY ItemType DEF DnsTypes
    <3> QED
      BY <2>3, <3>1
  <2>4. ASSUME UNCHANGED cached PROVE CacheOK'
    BY <2>4 DEF cached, CacheOK
  <2>5. ASSUME Fail(t) PROVE th' \in [Threads -> Thread] /\ CacheOK'
    BY <2>4, <2>5, ThreadFails, Zenon DEF Fail
  <2>6. ASSUME NEW a \in Places, Goto(t, a) PROVE th' \in [Threads -> Thread]
    BY <2>6, ThreadMoves
  <2>7. "stream" \in Places /\ "dropped" \in Places
    BY DEF Places
  <2> QED
    BY ResolvingMoves, <2>1, <2>2, <2>3, <2>4, <2>5, <2>6, <2>7
<1>3. DnsTypes'
  BY <1>1, <1>2 DEF DnsTypes
<1>4. PoolsBounded'
  BY <1>1, Zenon DEF PoolsBounded
<1> QED
  BY <1>2, <1>3, <1>4, Zenon

(* Every step keeps the types, the cache and the bounds of the pools. *)
LEMMA BoundedKept == Bounded /\ [Next]_vars => Bounded'
<1> SUFFICES ASSUME Bounded, [Next]_vars PROVE Bounded'
  BY Zenon
<1> USE DEF Bounded
<1>0. ASSUME UNCHANGED cached PROVE CacheOK'
  BY <1>0, Zenon DEF cached, CacheOK
<1>1. ASSUME NEW u \in Users, Arrive(u) PROVE Bounded'
  <2>1. th' \in [Threads -> Thread] /\ CacheOK'
    BY <1>1, QueryArrives, LookupKeeps DEF Arrive, handleUDP
  <2>2. UNCHANGED <<case, pool, cur, batches, chan, item, results>>
    BY <1>1, Zenon DEF Arrive, handleUDP, tunnel
  <2> QED
    BY <2>1, <2>2, Zenon DEF DnsTypes, PoolsBounded
<1>2. ASSUME NEW t \in Threads, submitQuery(t) PROVE Bounded'
  <2> DEFINE p == th[t].pool
             q == Append(pool[p].queue, Item(t))
  <2>1. /\ p \in Pools /\ Goto(t, "wait")
        /\ \/ Requeued(p, <<>>) /\ batches' = batches \cup {[items |-> q, chan |-> None]}
           \/ Requeued(p, q) /\ Len(q) < BatchMax /\ UNCHANGED batches
        /\ UNCHANGED <<case, cached, tunnel, chan, item, results>>
    BY <1>2, SubmitMoves
  <2>2. q \in Seq(Items) /\ q # <<>>
    BY <2>1, ItemType, AppendedRange, Zenon DEF DnsTypes, Pool
  <2>3. [items |-> q, chan |-> None] \in Batch
    BY <2>2, Zenon DEF Batch
  <2> HIDE DEF p, q
  <2>4. th' \in [Threads -> Thread]
    BY <2>1, ThreadMoves, Zenon DEF Places
  <2>5. pool' \in [Pools -> Pool] /\ Len(<<>>) < BatchMax
    BY <2>1, ConstantsAssumption DEF Requeued
  <2>6. DnsTypes'
    BY <2>1, <2>2, <2>3, <2>4, <2>5 DEF DnsTypes, tunnel
  <2>7. PoolsBounded'
    BY <2>1, <2>5, RequeuedBounded
  <2> QED
    BY <1>0, <2>1, <2>6, <2>7, Zenon
<1>3. ASSUME NEW t \in Threads, Resolving(t) PROVE Bounded'
  BY <1>3, ResolvingBounded, Zenon
<1>4. ASSUME NEW p \in Pools, TimerFires(p) PROVE Bounded'
  <2>1. /\ Requeued(p, <<>>)
        /\ \/ UNCHANGED batches
           \/ /\ pool[p].queue # <<>>
              /\ batches' = batches \cup {[items |-> pool[p].queue, chan |-> None]}
        /\ UNCHANGED <<case, th, cached, tunnel, chan, item, results>>
    BY <1>4, TimerMoves, Zenon
  <2>2. batches' \subseteq Batch /\ \A b \in batches' : b.items # <<>>
    <3> DEFINE b == [items |-> pool[p].queue, chan |-> None]
    <3>1. b \in Batch /\ b.items = pool[p].queue
      BY DEF Batch, DnsTypes, Pool
    <3> HIDE DEF b
    <3>2. UNCHANGED batches \/ (pool[p].queue # <<>> /\ batches' = batches \cup {b})
      BY <2>1, Zenon DEF b
    <3> QED
      BY <3>1, <3>2 DEF DnsTypes
  <2>3. pool' \in [Pools -> Pool] /\ Len(<<>>) < BatchMax
    BY <2>1, ConstantsAssumption DEF Requeued
  <2>4. DnsTypes'
    BY <2>1, <2>2, <2>3, Zenon DEF DnsTypes, tunnel
  <2>5. PoolsBounded'
    BY <2>1, <2>3, RequeuedBounded
  <2> QED
    BY <1>0, <2>1, <2>4, <2>5, Zenon
<1>5. ASSUME NEW p \in Pools, CloseChannels(p) \/ StopGroup(p) PROVE Bounded'
  <2>1. /\ NoneRegistered
        /\ Relisted(p, {}) \/ UNCHANGED pool
        /\ UNCHANGED <<case, th, cached, cur, batches, item, results>>
    BY <1>5, BreakingMoves, Zenon
  <2>2. chan' \in [Chans -> Channel] /\ pool' \in [Pools -> Pool]
    BY <2>1, Zenon DEF NoneRegistered, Relisted, DnsTypes
  <2>3. DnsTypes'
    BY <2>1, <2>2 DEF DnsTypes
  <2>4. PoolsBounded'
    <3>1. CASE Relisted(p, {})
      BY <2>1, <3>1, PrunedBounded, RelistedBounded
    <3>2. CASE UNCHANGED pool
      BY <2>1, <3>2, Zenon DEF PoolsBounded
    <3> QED
      BY <2>1, <3>1, <3>2, Zenon
  <2> QED
    BY <1>0, <2>1, <2>3, <2>4
<1>6. ASSUME NEW b \in batches, PickChannel(b) PROVE Bounded'
  <2> DEFINE p == PoolOf(b)
  <2>1. /\ case' \in Options /\ case'.channels = case.channels
        /\ Relisted(p, Live(p))
        /\ \E d \in Batch : d.items = b.items /\ batches' = (batches \ {b}) \cup {d}
        /\ UNCHANGED <<th, cached, tunnel, chan, item, results>>
    BY <1>6, PickMoves, Zenon
  <2>2. p \in Pools /\ Live(p) \in SUBSET pool[p].chans
    BY BatchParts, Zenon
  <2> HIDE DEF p
  <2>3. DnsTypes'
    BY <2>1, Zenon DEF DnsTypes, tunnel, Relisted
  <2>4. PoolsBounded'
    BY <2>1, <2>2, PrunedBounded, RelistedBounded
  <2> QED
    BY <1>0, <2>1, <2>3, <2>4, Zenon
<1>7. ASSUME NEW b \in batches, OpenChannel(b) PROVE Bounded'
  <2> DEFINE p == PoolOf(b)
  <2>1. PICK c \in Chans :
          /\ Relisted(p, Live(p) \cup {c}) /\ Cardinality(Live(p)) < case.channels
          /\ chan' \in [Chans -> Channel]
          /\ UNCHANGED <<case, th, cached, tunnel, batches, item, results>>
    BY <1>7, OpenMoves
  <2>2. p \in Pools /\ Live(p) \in SUBSET pool[p].chans
    BY BatchParts
  <2> HIDE DEF p
  <2>3. IsFiniteSet(Live(p)) /\ Cardinality(Live(p)) \in Nat
    BY <2>2, PrunedBounded
  <2>4. /\ IsFiniteSet(Live(p) \cup {c})
        /\ Cardinality(Live(p) \cup {c}) = Cardinality(Live(p))
             \/ Cardinality(Live(p) \cup {c}) = Cardinality(Live(p)) + 1
    BY <2>3, FS_AddElement
  <2>5. Cardinality(Live(p) \cup {c}) <= case.channels
    <3>1. case.channels \in Nat
      BY DEF DnsTypes, Options
    <3> QED
      BY <2>1, <2>3, <2>4, <3>1
  <2>6. PoolsBounded'
    BY <2>1, <2>2, <2>4, <2>5, RelistedBounded, Zenon
  <2>7. DnsTypes'
    BY <2>1, Zenon DEF DnsTypes, tunnel, Relisted
  <2> QED
    BY <1>0, <2>1, <2>6, <2>7, Zenon
<1>8. ASSUME NEW b \in batches, PickFails(b) PROVE Bounded'
  <2> DEFINE p == PoolOf(b)
  <2>1. /\ case' \in Options /\ case'.channels = case.channels
        /\ Relisted(p, {}) /\ batches' = batches \ {b}
        /\ Give(Range(b.items), NoAnswer)
        /\ UNCHANGED <<th, cached, tunnel, chan, item>>
    BY <1>8, PickFailsMoves, Zenon
  <2>2. p \in Pools
    BY BatchParts
  <2> HIDE DEF p
  <2>3. results' \in [Items -> Seq(Answers)]
    BY <2>1, GiveSends, Zenon DEF NoAnswer, None, Answers
  <2>4. DnsTypes'
    BY <2>1, <2>3, Zenon DEF DnsTypes, tunnel, Relisted
  <2>5. PoolsBounded'
    BY <2>1, <2>2, PrunedBounded, RelistedBounded
  <2> QED
    BY <1>0, <2>1, <2>4, <2>5
<1>9. ASSUME NEW b \in batches, SendBatch(b) PROVE Bounded'
  <2>1. /\ batches' = batches \ {b}
        /\ chan' \in [Chans -> Channel] /\ item' \in [Items -> Waiter]
        /\ UNCHANGED <<case, th, cached, pool, tunnel, results>>
    BY <1>9, SendMoves, Zenon
  <2>2. DnsTypes' /\ PoolsBounded'
    BY <2>1 DEF DnsTypes, tunnel, PoolsBounded
  <2> QED
    BY <1>0, <2>1, <2>2, Zenon
<1>10. ASSUME NEW c \in Chans, ChannelStep(c) \/ StreamBreaks(c) PROVE Bounded'
  <2>1. /\ NoneRegistered /\ case' \in Options /\ case'.channels = case.channels
        /\ item' \in [Items -> Waiter]
        /\ UNCHANGED <<th, cached, pool, tunnel, batches, results>>
    <3>1. ASSUME NEW i \in chan[c].out, readLoop(c, i)
          PROVE  /\ NoneRegistered /\ item' \in [Items -> Waiter]
                 /\ UNCHANGED <<case, th, cached, pool, tunnel, batches, results>>
      BY <3>1, ReadMoves, Zenon
    <3>2. ASSUME \/ readLoopEnds(c) \/ StreamBreaks(c) \/ \E i \in chan[c].out : Unresolved(c, i)
          PROVE  /\ NoneRegistered /\ case' \in Options /\ case'.channels = case.channels
                 /\ UNCHANGED <<th, cached, pool, tunnel, batches, item, results>>
      BY <3>2, ChannelMoves
    <3>3. case \in Options /\ item \in [Items -> Waiter]
      BY Zenon DEF DnsTypes
    <3> QED
      BY <1>10, <3>1, <3>2, <3>3, Zenon DEF ChannelStep
  <2>2. DnsTypes' /\ PoolsBounded'
    BY <2>1, Zenon DEF DnsTypes, tunnel, PoolsBounded, NoneRegistered
  <2> QED
    BY <1>0, <2>1, <2>2, Zenon
<1>11. ASSUME NEW i \in Items, WaiterEnds(i) PROVE Bounded'
  <2>1. /\ NoneRegistered /\ case' \in Options /\ case'.channels = case.channels
        /\ item' \in [Items -> Waiter]
        /\ Give({i}, item[i].resp) \/ Give({i}, NoAnswer)
        /\ UNCHANGED <<th, cached, pool, tunnel, batches>>
    BY <1>11, WaiterMoves, Zenon
  <2>2. results' \in [Items -> Seq(Answers)]
    <3>1. item[i].resp \in Answers /\ NoAnswer \in Answers
      BY Zenon DEF DnsTypes, Waiter, NoAnswer, None, Answers
    <3> QED
      BY <2>1, <3>1, GiveSends, Zenon
  <2>3. DnsTypes' /\ PoolsBounded'
    BY <2>1, <2>2 DEF DnsTypes, tunnel, PoolsBounded, NoneRegistered
  <2> QED
    BY <1>0, <2>1, <2>3
<1>12. CASE Tick
  <2>1. case' \in Options /\ case'.channels = case.channels
    BY <1>12, SpendKeeps DEF Tick, DnsTypes, Budgets
  <2>2. CacheOK'
    BY <1>12, AgeingKeeps
  <2>3. DnsTypes' /\ PoolsBounded'
    BY <1>12, <2>1, Zenon DEF Tick, DnsTypes, tunnel, PoolsBounded
  <2> QED
    BY <2>2, <2>3
<1>13. CASE Stop \/ SwapDialStream
  <2>1. PICK p \in Pools :
          /\ Requeued(p, <<>>) /\ Give(Range(pool[p].queue), NoAnswer)
          /\ case' \in Options /\ case'.channels = case.channels
          /\ UNCHANGED <<th, cached, cur, batches, chan, item>>
    BY <1>13, ClosingMoves, Zenon
  <2>2. results' \in [Items -> Seq(Answers)]
    BY <2>1, GiveSends DEF NoAnswer, None, Answers
  <2>3. DnsTypes'
    BY <2>1, <2>2, Zenon DEF DnsTypes, Requeued
  <2>4. PoolsBounded'
    BY <2>1, RequeuedBounded, ConstantsAssumption
  <2> QED
    BY <1>0, <2>1, <2>3, <2>4, Zenon
<1>14. CASE SwapPool
  <2>1. DnsTypes' /\ PoolsBounded'
    BY <1>14 DEF SwapPool, DnsTypes, PoolsBounded, Pools
  <2> QED
    BY <1>0, <1>14, <2>1, Zenon DEF SwapPool
<1>15. CASE UNCHANGED vars
  <2>1. DnsTypes' /\ PoolsBounded'
    BY <1>15 DEF vars, DnsTypes, PoolsBounded
  <2> QED
    BY <1>0, <1>15, <2>1, Zenon DEF vars, cached
<1> QED
  BY <1>1, <1>2, <1>3, <1>4, <1>5, <1>6, <1>7, <1>8, <1>9, <1>10, <1>11, <1>12, <1>13, <1>14,
     <1>15 DEF Next, ThreadStep, PoolStep, Resolving

-----------------------------------------------------------------------------
(* Answers. *)

LEMMA RegisteredKept ==
    ASSUME RegisteredByID, NoneRegistered \/ UNCHANGED chan, UNCHANGED clash
    PROVE  RegisteredByID'
BY DEF RegisteredByID, NoneRegistered

(* A value that is the item's own, or nil, joins its results. *)
LEMMA GiveOwn ==
    ASSUME DnsTypes, OwnResponses, NEW S, NEW v \in Answers, Give(S, v),
           \A i \in S : Right(clash, v, i)
    PROVE  \A i \in Items : \A k \in DOMAIN results'[i] : Right(clash, results'[i][k], i)
<1> SUFFICES ASSUME NEW i \in Items, NEW k \in DOMAIN results'[i]
             PROVE  Right(clash, results'[i][k], i)
  BY Zenon
<1>1. results'[i] = IF i \in S THEN Append(results[i], v) ELSE results[i]
  BY GiveSends, Zenon
<1>2. results[i] \in Seq(Answers) /\ \A j \in DOMAIN results[i] : Right(clash, results[i][j], i)
  BY Zenon DEF DnsTypes, OwnResponses
<1>3. CASE i \notin S
  BY <1>1, <1>2, <1>3, Zenon
<1>4. CASE i \in S
  <2> DEFINE s == results[i]
  <2> HIDE DEF s
  <2>1. s \in Seq(Answers) /\ results'[i] = Append(s, v)
    BY <1>1, <1>2, <1>4, Zenon DEF s
  <2>2. /\ DOMAIN Append(s, v) = 1..(Len(s) + 1) /\ Append(s, v)[Len(s) + 1] = v
        /\ \A j \in 1..Len(s) : Append(s, v)[j] = s[j]
    BY <2>1
  <2>3. Len(s) \in Nat /\ DOMAIN s = 1..Len(s)
    BY <2>1
  <2>4. (k \in DOMAIN s /\ results'[i][k] = s[k]) \/ results'[i][k] = v
    BY <2>1, <2>2, <2>3
  <2> QED
    BY <1>2, <1>4, <2>4, Zenon DEF s
<1> QED
  BY <1>3, <1>4

(* What a thread gets is its own answer. *)
LEMMA ResolvingOwn ==
    ASSUME Bounded, OwnResponses, OwnAnswers, NEW t \in Threads, Resolving(t)
    PROVE  OwnResponses' /\ OwnAnswers'
<1> USE DEF Bounded
<1>0. UNCHANGED clash
  BY DEF Resolving, GetResult, dnsViaStream, dnsDirect, history
<1>1. OwnResponses'
  BY <1>0, ResolvingMoves DEF OwnResponses
<1>2. Asked(t) \in Answers /\ Served(clash, Asked(t), t)
  BY AskedType DEF Served, Tx
<1>3. ASSUME NEW a \in Answers, Served(clash, a, t), Succeed(t, a) PROVE OwnAnswers'
  <2>1. /\ th'[t].reply = a
        /\ \A v \in Threads \ {t} : th'[v] = th[v]
    BY <1>3, ThreadSucceeds, Zenon
  <2>2. \A m \in DOMAIN cache' : \/ m = Asked(t).name /\ cache'[m].answer = a
                                 \/ m \in DOMAIN cache /\ cache'[m] = cache[m]
    BY <1>3, SucceedCaches
  <2>3. clash \/ a = Asked(t)
    BY <1>3 DEF Served
  <2>4. \A v \in Threads : th'[v].at = "answered" => Served(clash, th'[v].reply, v)
    BY <1>3, <2>1, Zenon DEF OwnAnswers
  <2>5. ~clash => \A m \in DOMAIN cache' : cache'[m].answer.name = m
    BY <2>2, <2>3 DEF OwnAnswers
  <2> QED
    BY <1>0, <2>4, <2>5, Zenon DEF OwnAnswers
<1>4. ASSUME results[Item(t)] # <<>>, Head(results[Item(t)]) # NoAnswer
      PROVE  Head(results[Item(t)]) \in Answers /\ Served(clash, Head(results[Item(t)]), t)
  <2>1. Item(t) \in Items /\ Item(t).thread = t /\ results[Item(t)] \in Seq(Answers)
    BY ItemType, Zenon DEF DnsTypes
  <2>2. 1 \in DOMAIN results[Item(t)] /\ Head(results[Item(t)]) = results[Item(t)][1]
    BY <1>4, <2>1
  <2>3. Right(clash, results[Item(t)][1], Item(t))
    BY <2>1, <2>2, Zenon DEF OwnResponses
  <2>4. Served(clash, Head(results[Item(t)]), t)
    BY <1>4, <2>1, <2>2, <2>3, Zenon DEF Right
  <2> QED
    BY <1>4, <2>1, <2>2, <2>4
<1>5. ASSUME Fail(t) PROVE OwnAnswers'
  <2>1. th'[t].at # "answered" /\ \A v \in Threads \ {t} : th'[v] = th[v]
    BY <1>5, ThreadFails
  <2> QED
    BY <1>0, <1>5, <2>1, Zenon DEF OwnAnswers, Fail, cached
<1>6. ASSUME NEW a \in {"stream", "dropped"}, Goto(t, a), UNCHANGED cached PROVE OwnAnswers'
  <2>1. th'[t].at = a /\ \A v \in Threads \ {t} : th'[v] = th[v]
    BY <1>6, ThreadMoves, Zenon DEF Places
  <2> QED
    BY <1>0, <1>6, <2>1, Zenon DEF OwnAnswers, cached
<1>7. OwnAnswers'
  BY ResolvingMoves, <1>2, <1>3, <1>4, <1>5, <1>6, Zenon
<1> QED
  BY <1>1, <1>7, Zenon

(* A cached answer gets the ID of the query that it is served to. *)
LEMMA LookupOwn ==
    ASSUME Bounded, OwnAnswers, NEW u \in Users, handleUDP(u)
    PROVE  OwnAnswers'
<1> USE DEF Bounded
<1> DEFINE n == Query[u].name
           w == Prefetch(u)
<1>a. UNCHANGED clash
  BY DEF handleUDP, history
<1>0. \A m \in DOMAIN cache' : m \in DOMAIN cache /\ cache'[m] = cache[m]
  BY LookupKeeps, Zenon DEF handleUDP
<1>1. u \in Threads /\ w \in Threads /\ u # w /\ Asked(u) = Query[u]
  BY PrefetchApart, Zenon
<1>2. /\ \A v \in Threads \ {u, w} : th'[v] = th[v]
      /\ \/ /\ Hit(u) /\ th'[u].reply = PatchID(cache[n].answer, Query[u].tx)
            /\ th'[w] = th[w] \/ th'[w].at = "submit"
         \/ th'[u].at = "submit" /\ th'[w] = th[w]
  BY QueryArrives
<1>3. ASSUME Hit(u) PROVE Served(clash, PatchID(cache[n].answer, Query[u].tx), u)
  <2>1. cache[n].answer \in Answers /\ (clash \/ cache[n].answer.name = n)
    BY <1>3 DEF Hit, CacheOK, Entry, OwnAnswers
  <2>2. Query[u] \in [name : Nat \ {0}, tx : Nat]
    BY ConstantsAssumption, Zenon
  <2>3. PatchID(cache[n].answer, Query[u].tx).tx = Query[u].tx
    BY <2>1 DEF PatchID, Answers
  <2>4. clash \/ PatchID(cache[n].answer, Query[u].tx) = Query[u]
    BY <2>1, <2>2 DEF PatchID, Answers
  <2> QED
    BY <1>1, <2>3, <2>4, Zenon DEF Served, Tx
<1>4. \A t \in Threads : th'[t].at = "answered" => Served(clash, th'[t].reply, t)
  BY <1>1, <1>2, <1>3, Zenon DEF OwnAnswers
<1> QED
  BY <1>0, <1>4, <1>a, Zenon DEF OwnAnswers

(* A response reaches an item with the same ID, which asked the same unless  *)
(* there was a clash.                                                        *)
LEMMA ReadOwn ==
    ASSUME Bounded, RegisteredByID, OwnResponses,
           NEW c \in Chans, NEW i \in chan[c].out, readLoop(c, i)
    PROVE  OwnResponses'
<1> USE DEF Bounded
<1> DEFINE x == Tx(i.thread)
<1>1. /\ i \in Items /\ UNCHANGED results
      /\ \A j \in Items :
           \/ item'[j].resp = item[j].resp
           \/ /\ x \in DOMAIN chan[c].pending /\ j = chan[c].pending[x]
              /\ item'[j].resp = Asked(i.thread)
  BY ReadMoves, Zenon
<1>2. ASSUME NEW j \in Items, x \in DOMAIN chan[c].pending, j = chan[c].pending[x]
      PROVE  Right(clash, Asked(i.thread), j)
  <2>1. Tx(j.thread) = x /\ (clash \/ Asked(j.thread) = Asked(i.thread))
    BY <1>2, Zenon DEF RegisteredByID
  <2>2. Asked(i.thread).tx = x
    BY DEF Tx
  <2> QED
    BY <2>1, <2>2, Zenon DEF Right, Served
<1>3. \A j \in Items : Right(clash, item'[j].resp, j)
  BY <1>1, <1>2, Zenon DEF OwnResponses
<1>4. UNCHANGED clash
  BY DEF readLoop, history
<1> QED
  BY <1>1, <1>3, <1>4, Zenon DEF OwnResponses

(* Queries are sent: those that are on the channel with the same ID ask the  *)
(* same, or there is a clash.                                                *)
LEMMA SendOwn ==
    ASSUME Bounded, RegisteredByID, OwnResponses, OwnAnswers, NEW b \in batches, SendBatch(b)
    PROVE  RegisteredByID' /\ OwnResponses' /\ OwnAnswers'
<1> USE DEF Bounded
<1> DEFINE c == b.chan
           items == Range(b.items)
<1>1. /\ c \in Chans
      /\ \A d \in Chans \ {c} : chan'[d] = chan[d]
      /\ \A x \in DOMAIN chan'[c].pending :
            \/ chan'[c].pending[x] \in items /\ Tx(chan'[c].pending[x].thread) = x
            \/ x \in DOMAIN chan[c].pending /\ chan'[c].pending[x] = chan[c].pending[x]
      /\ chan'[c].out \subseteq chan[c].out \cup items
      /\ \A i \in items : item'[i].resp = NoAnswer
      /\ \A i \in Items \ items : item'[i] = item[i]
      /\ UNCHANGED <<th, cached, results>>
  BY SendMoves, Zenon
<1>2. clash' = (clash \/ \E i \in items : \E j \in items \cup OnChannel(c) : Confusable(i, j))
  BY Zenon DEF SendBatch
<1> HIDE DEF items, c
<1>3. clash => clash'
  BY <1>2
<1>4. ASSUME ~clash', NEW i \in items, NEW j \in items \cup OnChannel(c),
             Tx(i.thread) = Tx(j.thread)
      PROVE  Asked(i.thread) = Asked(j.thread)
  BY <1>2, <1>4, Zenon DEF Confusable
<1>5. ASSUME NEW x \in DOMAIN chan'[c].pending
      PROVE  /\ Tx(chan'[c].pending[x].thread) = x
             /\ \/ clash'
                \/ \A i \in chan'[c].out :
                      Tx(i.thread) = x => Asked(chan'[c].pending[x].thread) = Asked(i.thread)
  <2> DEFINE j == chan'[c].pending[x]
  <2>1. \/ j \in items
        \/ x \in DOMAIN chan[c].pending /\ j = chan[c].pending[x] /\ j \in OnChannel(c)
    BY <1>1, <1>5 DEF OnChannel, Range
  <2>2. Tx(j.thread) = x
    BY <1>1, <1>5 DEF RegisteredByID
  <2> HIDE DEF j
  <2>3. ASSUME ~clash', NEW i \in chan'[c].out, Tx(i.thread) = x
        PROVE  Asked(j.thread) = Asked(i.thread)
    <3>1. i \in items \/ (i \in chan[c].out /\ i \in OnChannel(c))
      BY <1>1, <2>3, Zenon DEF OnChannel
    <3>2. CASE i \in items
      <4>1. j \in items \cup OnChannel(c)
        BY <2>1, Zenon
      <4> QED
        BY <1>4, <2>2, <2>3, <3>2, <4>1
    <3>3. CASE j \in items
      <4>1. i \in items \cup OnChannel(c)
        BY <3>1, Zenon
      <4> QED
        BY <1>4, <2>2, <2>3, <3>3, <4>1
    <3>4. CASE i \in chan[c].out /\ x \in DOMAIN chan[c].pending /\ j = chan[c].pending[x]
      BY <1>1, <1>3, <2>3, <3>4, Zenon DEF RegisteredByID
    <3> QED
      BY <2>1, <3>1, <3>2, <3>3, <3>4, Zenon
  <2> QED
    BY <2>2, <2>3, Zenon DEF j
<1>6. RegisteredByID'
  <2>1. ASSUME NEW d \in Chans \ {c}, NEW x \in DOMAIN chan'[d].pending
        PROVE  /\ Tx(chan'[d].pending[x].thread) = x
               /\ \/ clash'
                  \/ \A i \in chan'[d].out :
                        Tx(i.thread) = x => Asked(chan'[d].pending[x].thread) = Asked(i.thread)
    <3>1. chan'[d] = chan[d] /\ d \in Chans
      BY <1>1, Zenon
    <3>2. /\ Tx(chan[d].pending[x].thread) = x
          /\ \/ clash
             \/ \A i \in chan[d].out :
                   Tx(i.thread) = x => Asked(chan[d].pending[x].thread) = Asked(i.thread)
      BY <3>1, Zenon DEF RegisteredByID
    <3> QED
      BY <1>3, <3>1, <3>2, Zenon
  <2> QED
    BY <1>5, <2>1, Zenon DEF RegisteredByID
<1>7. \A a, t : Served(clash, a, t) => Served(clash', a, t)
  BY <1>3, Zenon DEF Served
<1>8. \A a, i : Right(clash, a, i) => Right(clash', a, i)
  BY <1>7, Zenon DEF Right
<1>9. OwnResponses'
  <2>1. \A i \in Items : Right(clash', item'[i].resp, i)
    BY <1>1, <1>8, Zenon DEF OwnResponses, Right
  <2>2. \A i \in Items : \A k \in DOMAIN results'[i] : Right(clash', results'[i][k], i)
    BY <1>1, <1>8 DEF OwnResponses
  <2> QED
    BY <2>1, <2>2, Zenon DEF OwnResponses
<1>10. OwnAnswers'
  BY <1>1, <1>3, <1>7 DEF OwnAnswers, cached
<1> QED
  BY <1>6, <1>9, <1>10

(* Every step keeps answers with their questions. *)
LEMMA MatchingKept == Bounded /\ Matching /\ [Next]_vars => Matching'
<1> SUFFICES ASSUME Bounded, Matching, [Next]_vars PROVE Matching'
  OBVIOUS
<1> USE DEF Bounded
<1>0. RegisteredByID /\ OwnResponses /\ OwnAnswers
  BY DEF Matching
<1> SUFFICES RegisteredByID' /\ OwnResponses' /\ OwnAnswers'
  BY DEF Matching
<1> DEFINE Kept == RegisteredByID' /\ OwnResponses' /\ OwnAnswers'
<1>a. ASSUME UNCHANGED <<item, results, clash>> PROVE OwnResponses'
  BY <1>0, <1>a DEF OwnResponses
<1>b. ASSUME UNCHANGED <<th, cached, clash>> PROVE OwnAnswers'
  BY <1>0, <1>b DEF OwnAnswers, cached
<1>c. NoAnswer \in Answers /\ \A i \in Items : Right(clash, NoAnswer, i)
  BY Zenon DEF NoAnswer, None, Answers, Right
<1>d. ASSUME NEW S, Give(S, NoAnswer), UNCHANGED <<item, clash>>, S \subseteq Items
      PROVE  OwnResponses'
  <2>1. \A i \in Items : \A k \in DOMAIN results'[i] : Right(clash, results'[i][k], i)
    BY <1>0, <1>c, <1>d, GiveOwn
  <2> QED
    BY <1>0, <1>d, <2>1 DEF OwnResponses
<1>1. ASSUME NEW u \in Users, Arrive(u) PROVE Kept
  <2>1. handleUDP(u) /\ UNCHANGED <<chan, item, results, clash>>
    BY <1>1 DEF Arrive, handleUDP, history
  <2> QED
    BY <1>0, <1>a, <2>1, LookupOwn, RegisteredKept
<1>2. ASSUME NEW t \in Threads, submitQuery(t) PROVE Kept
  <2>1. Goto(t, "wait") /\ UNCHANGED <<cached, chan, item, results, clash>>
    BY <1>2, Zenon DEF submitQuery, history
  <2>2. th'[t].at = "wait" /\ \A v \in Threads \ {t} : th'[v] = th[v]
    BY <2>1, ThreadMoves DEF Places
  <2>3. OwnAnswers'
    BY <1>0, <2>1, <2>2 DEF OwnAnswers, cached
  <2> QED
    BY <1>0, <1>a, <2>1, <2>3, RegisteredKept
<1>3. ASSUME NEW t \in Threads, Resolving(t) PROVE Kept
  <2>1. UNCHANGED <<chan, clash>>
    BY <1>3 DEF Resolving, GetResult, dnsViaStream, dnsDirect, history
  <2> QED
    BY <1>0, <1>3, <2>1, ResolvingOwn, RegisteredKept, Zenon
<1>4. ASSUME NEW p \in Pools, TimerFires(p) PROVE Kept
  BY <1>0, <1>4, <1>a, <1>b, RegisteredKept DEF TimerFires, history
<1>5. ASSUME NEW p \in Pools, CloseChannels(p) \/ StopGroup(p) PROVE Kept
  <2>1. NoneRegistered /\ UNCHANGED <<th, cached, item, results>>
    BY <1>5, BreakingMoves
  <2>2. UNCHANGED clash
    BY <1>5 DEF CloseChannels, StopGroup, history
  <2> QED
    BY <1>0, <1>a, <1>b, <2>1, <2>2, RegisteredKept
<1>6. ASSUME NEW b \in batches, PickChannel(b) PROVE Kept
  BY <1>0, <1>6, <1>a, <1>b, RegisteredKept DEF PickChannel, history
<1>7. ASSUME NEW b \in batches, OpenChannel(b) PROVE Kept
  <2>1. PICK c \in Chans :
          /\ chan'[c].pending = Nothing /\ \A d \in Chans \ {c} : chan'[d] = chan[d]
          /\ UNCHANGED <<th, cached, item, results>>
    BY <1>7, OpenMoves
  <2>2. UNCHANGED clash
    BY <1>7 DEF OpenChannel, history
  <2>3. RegisteredByID'
    BY <1>0, <2>1, <2>2, NothingRegistered DEF RegisteredByID
  <2> QED
    BY <1>a, <1>b, <2>1, <2>2, <2>3, Zenon
<1>8. ASSUME NEW b \in batches, PickFails(b) PROVE Kept
  <2>1. /\ Give(Range(b.items), NoAnswer)
        /\ UNCHANGED <<th, cached, chan, item, clash>>
    BY <1>8 DEF PickFails, history
  <2>2. Range(b.items) \subseteq Items
    BY BatchParts
  <2> QED
    BY <1>0, <1>b, <1>d, <2>1, <2>2, RegisteredKept
<1>9. ASSUME NEW b \in batches, SendBatch(b) PROVE Kept
  BY <1>0, <1>9, SendOwn, Zenon
<1>10. ASSUME NEW c \in Chans, ChannelStep(c) \/ StreamBreaks(c) PROVE Kept
  <2>1. ASSUME NEW i \in chan[c].out, readLoop(c, i) PROVE Kept
    <3>1. NoneRegistered /\ UNCHANGED <<th, cached>>
      BY <2>1, ReadMoves
    <3>2. UNCHANGED clash
      BY <2>1 DEF readLoop, history
    <3> QED
      BY <1>0, <1>b, <2>1, <3>1, <3>2, ReadOwn, RegisteredKept, Zenon
  <2>2. ASSUME \/ readLoopEnds(c) \/ StreamBreaks(c) \/ \E i \in chan[c].out : Unresolved(c, i)
        PROVE  Kept
    <3>1. NoneRegistered /\ UNCHANGED <<th, cached, item, results>>
      BY <2>2, ChannelMoves, Zenon
    <3>2. UNCHANGED clash
      BY <2>2 DEF readLoopEnds, StreamBreaks, Unresolved, history
    <3> QED
      BY <1>0, <1>a, <1>b, <3>1, <3>2, RegisteredKept, Zenon
  <2> QED
    BY <1>10, <2>1, <2>2, Zenon DEF ChannelStep
<1>11. ASSUME NEW i \in Items, WaiterEnds(i) PROVE Kept
  <2>1. /\ NoneRegistered
        /\ item'[i].resp = item[i].resp /\ \A j \in Items \ {i} : item'[j] = item[j]
        /\ Give({i}, item[i].resp) \/ Give({i}, NoAnswer)
        /\ UNCHANGED <<th, cached>>
    BY <1>11, WaiterMoves
  <2>2. UNCHANGED clash
    BY <1>11 DEF WaiterEnds, history
  <2>3. OwnResponses'
    <3>1. item[i].resp \in Answers /\ Right(clash, item[i].resp, i)
      BY <1>0, Zenon DEF DnsTypes, Waiter, OwnResponses
    <3>2. \A j \in Items : \A k \in DOMAIN results'[j] : Right(clash, results'[j][k], j)
      <4>1. ASSUME NEW v \in Answers, Give({i}, v), Right(clash, v, i)
            PROVE  \A j \in Items : \A k \in DOMAIN results'[j] : Right(clash, results'[j][k], j)
        <5>1. \A j \in {i} : Right(clash, v, j)
          BY <4>1, Zenon
        <5> QED
          BY <1>0, <4>1, <5>1, GiveOwn
      <4> QED
        BY <1>c, <2>1, <3>1, <4>1
    <3>3. \A j \in Items : Right(clash, item'[j].resp, j)
      BY <1>0, <2>1 DEF OwnResponses
    <3> QED
      BY <2>2, <3>2, <3>3, Zenon DEF OwnResponses
  <2> QED
    BY <1>0, <1>b, <2>1, <2>2, <2>3, RegisteredKept, Zenon
<1>12. CASE Tick
  <2>1. UNCHANGED <<th, chan, item, results, clash>>
    BY <1>12 DEF Tick, history
  <2>2. OwnAnswers'
    BY <1>0, <1>12, <2>1, AgeingKeeps DEF OwnAnswers
  <2> QED
    BY <1>0, <1>a, <2>1, <2>2, RegisteredKept
<1>13. CASE Stop \/ SwapDialStream
  <2>1. PICK p \in Pools : /\ Give(Range(pool[p].queue), NoAnswer)
                           /\ UNCHANGED <<th, cached, chan, item>>
    BY <1>13, ClosingMoves, Zenon
  <2>2. Range(pool[p].queue) \subseteq Items
    BY DEF DnsTypes, Pool, Range
  <2>3. UNCHANGED clash
    BY <1>13 DEF Stop, SwapDialStream, history
  <2> QED
    BY <1>0, <1>b, <1>d, <2>1, <2>2, <2>3, RegisteredKept
<1>14. CASE SwapPool
  BY <1>0, <1>14, <1>a, <1>b, RegisteredKept DEF SwapPool, history
<1>15. CASE UNCHANGED vars
  BY <1>0, <1>15, <1>a, <1>b, RegisteredKept DEF vars, cached, history
<1> QED
  BY <1>1, <1>2, <1>3, <1>4, <1>5, <1>6, <1>7, <1>8, <1>9, <1>10, <1>11, <1>12, <1>13, <1>14,
     <1>15 DEF Next, ThreadStep, PoolStep, Resolving

-----------------------------------------------------------------------------
(* Items. *)

(* A thread only ever uses up what is ahead of it. *)
LEMMA AheadShrinks ==
    ASSUME Bounded, OnePlace, [Next]_vars
    PROVE  PrefetchLater' /\ \A t \in Threads : Ahead(t)' \subseteq Ahead(t)
<1> USE DEF Bounded
<1> DEFINE Shrinks(t) ==
             \/ th'[t] = th[t] \/ th[t].at = "idle"
             \/ /\ th[t].at # "idle" /\ th'[t].at # "idle"
                /\ th'[t].server = th[t].server
                /\ th'[t].at = "submit" => th[t].at = "submit"
             \/ th[t].at # "idle" /\ th'[t].at # "idle" /\ th[t].server = 1 /\ th'[t].server = 2
<1>0. th \in [Threads -> Thread] /\ \A u \in Users : u \in Threads /\ Prefetch(u) \in Threads
  BY PrefetchApart, Zenon DEF DnsTypes
<1>1. ASSUME NEW t \in Threads, Shrinks(t) PROVE Ahead(t)' \subseteq Ahead(t)
  <2>1. \A i \in Items : i.server \in {1, 2}
    BY DEF Items
  <2>2. th[t].server \in {1, 2}
    BY <1>0, Zenon DEF Thread
  <2>3. CASE th'[t] = th[t] \/ th[t].at = "idle"
    BY <2>3, Zenon DEF Ahead
  <2>4. CASE ~(th'[t] = th[t] \/ th[t].at = "idle")
    BY <1>1, <2>1, <2>2, <2>4 DEF Ahead
  <2> QED
    BY <2>3, <2>4, Zenon
<1>2. ASSUME NEW t \in Threads, th[t].at # "idle", th'[t].at # "idle",
             \A v \in Threads \ {t} : th'[v] = th[v]
      PROVE  PrefetchLater'
  <2>1. \A v \in Threads : th'[v].at = "idle" <=> th[v].at = "idle"
    BY <1>2, Zenon
  <2> QED
    BY <1>0, <2>1, Zenon DEF OnePlace, PrefetchLater
<1>3. ASSUME NEW u \in Users, Arrive(u)
      PROVE  PrefetchLater' /\ \A t \in Threads : Shrinks(t)
  <2>1. /\ \A v \in Threads \ {u, Prefetch(u)} : th'[v] = th[v]
        /\ th[u].at = "idle" /\ th'[u].at # "idle"
    BY <1>3, QueryArrives, Zenon DEF Arrive
  <2>2. th[Prefetch(u)].at = "idle"
    BY <2>1, Zenon DEF OnePlace, PrefetchLater
  <2>3. ASSUME NEW v \in Users, th'[v].at = "idle" PROVE th'[Prefetch(v)].at = "idle"
    <3>1. v # u /\ v # Prefetch(u) /\ Prefetch(v) # u /\ Prefetch(v) # Prefetch(u)
      BY <2>1, <2>3, PrefetchApart, Zenon
    <3> QED
      BY <1>0, <2>1, <2>3, <3>1, Zenon DEF OnePlace, PrefetchLater
  <2> QED
    BY <2>1, <2>2, <2>3, Zenon DEF PrefetchLater
<1>4. ASSUME NEW t \in Threads, submitQuery(t)
      PROVE  PrefetchLater' /\ \A v \in Threads : Shrinks(v)
  <2>1. th[t].at = "submit" /\ Goto(t, "wait")
    BY <1>4, Zenon DEF submitQuery
  <2>2. /\ th'[t].at = "wait" /\ th'[t].server = th[t].server
        /\ \A v \in Threads \ {t} : th'[v] = th[v]
    BY <2>1, ThreadMoves, Zenon DEF Places
  <2> QED
    BY <1>2, <2>1, <2>2
<1>5. ASSUME NEW t \in Threads, Resolving(t)
      PROVE  PrefetchLater' /\ \A v \in Threads : Shrinks(v)
  <2>1. th[t].at \in {"wait", "stream", "direct"}
    BY <1>5, ResolvingMoves, Zenon
  <2>2. ASSUME NEW a \in Answers, Succeed(t, a)
        PROVE  /\ \A v \in Threads \ {t} : th'[v] = th[v]
               /\ th'[t].at = "answered" /\ th'[t].server = th[t].server
    BY <2>2, ThreadSucceeds, Zenon
  <2>3. /\ Asked(t) \in Answers
        /\ results[Item(t)] # <<>> => Head(results[Item(t)]) \in Answers
    <3>1. results[Item(t)] \in Seq(Answers)
      BY ItemType, Zenon DEF DnsTypes
    <3>2. results[Item(t)] # <<>> => Head(results[Item(t)]) \in Answers
      BY <3>1
    <3> QED
      BY <3>2, AskedType, Zenon
  <2>4. ASSUME Fail(t)
        PROVE  /\ \A v \in Threads \ {t} : th'[v] = th[v]
               /\ \/ th[t].server = 1 /\ th'[t].server = 2 /\ th'[t].at = "submit"
                  \/ th'[t].server = th[t].server /\ th'[t].at \in {"direct", "dropped"}
    BY <2>4, ThreadFails, Zenon
  <2>5. ASSUME NEW a \in {"stream", "dropped"}, Goto(t, a)
        PROVE  /\ \A v \in Threads \ {t} : th'[v] = th[v]
               /\ th'[t].at = a /\ th'[t].server = th[t].server
    BY <2>5, ThreadMoves DEF Places
  <2>6. /\ \A v \in Threads \ {t} : th'[v] = th[v]
        /\ \/ th[t].server = 1 /\ th'[t].server = 2 /\ th'[t].at = "submit"
           \/ /\ th'[t].server = th[t].server
              /\ th'[t].at \in {"answered", "direct", "dropped", "stream"}
    BY <1>5, <2>2, <2>3, <2>4, <2>5, ResolvingMoves, Zenon
  <2> QED
    BY <1>2, <2>1, <2>6
<1>6. ASSUME UNCHANGED th PROVE PrefetchLater' /\ \A t \in Threads : Shrinks(t)
  BY <1>6 DEF OnePlace, PrefetchLater
<1>7. \/ \E u \in Users : Arrive(u)
      \/ \E t \in Threads : submitQuery(t) \/ Resolving(t)
      \/ UNCHANGED th
  BY Zenon DEF Next, ThreadStep, Resolving, PoolStep, TimerFires, CloseChannels, PickChannel, OpenChannel,
         PickFails, SendBatch, ChannelStep, readLoopEnds, readLoop, Unresolved, StreamBreaks,
         WaiterEnds, Tick, Stop, SwapDialStream, SwapPool, StopGroup, vars
<1> QED
  BY <1>1, <1>3, <1>4, <1>5, <1>6, <1>7, Zenon

(* The queue of p is taken: its items are no longer queued. *)
LEMMA QueueTaken ==
    ASSUME Bounded, QueuedAtHome, NEW p \in Pools, Requeued(p, <<>>)
    PROVE  /\ QueuedAtHome'
           /\ \A i \in Items : Queued(i)' <=> Queued(i) /\ i \notin Range(pool[p].queue)
           /\ \A i \in Range(pool[p].queue) : i \in Items /\ Queued(i)
<1>1. Range(<<>>) = {} /\ Range(pool'[p].queue) = {}
  BY DEF Range, Requeued
<1>2. \A o \in Pools \ {p} : pool'[o].queue = pool[o].queue
  BY Zenon DEF Requeued
<1>3. Range(pool[p].queue) \subseteq Items
  <2>1. pool[p].queue \in Seq(Items)
    BY Zenon DEF Bounded, DnsTypes, Pool
  <2> QED
    BY <2>1 DEF Range
<1>4. QueuedAtHome'
  BY <1>1, <1>2 DEF QueuedAtHome
<1>5. \A i \in Items : Queued(i)' <=> Queued(i) /\ i \notin Range(pool[p].queue)
  <2>1. ASSUME NEW i \in Items, Queued(i)' PROVE Queued(i) /\ i \notin Range(pool[p].queue)
    <3>1. PICK o \in Pools : i \in Range(pool'[o].queue)
      BY <2>1, Zenon DEF Queued
    <3>2. o # p
      BY <1>1, <3>1, Zenon
    <3>3. i \in Range(pool[o].queue)
      BY <1>2, <3>1, <3>2, Zenon
    <3>4. i.pool = o
      BY <3>3, Zenon DEF QueuedAtHome
    <3>5. i \notin Range(pool[p].queue)
      BY <3>2, <3>4, Zenon DEF QueuedAtHome
    <3> QED
      BY <3>3, <3>5, Zenon DEF Queued
  <2>2. ASSUME NEW i \in Items, Queued(i), i \notin Range(pool[p].queue) PROVE Queued(i)'
    <3>1. PICK o \in Pools : i \in Range(pool[o].queue)
      BY <2>2, Zenon DEF Queued
    <3>2. o # p
      BY <2>2, <3>1, Zenon
    <3> QED
      BY <1>2, <3>1, <3>2, Zenon DEF Queued
  <2> QED
    BY <2>1, <2>2, Zenon
<1>6. \A i \in Range(pool[p].queue) : i \in Items /\ Queued(i)
  BY <1>3 DEF Queued
<1> QED
  BY <1>4, <1>5, <1>6, Zenon

(* Item j joins the queue of its pool. *)
LEMMA QueueGrows ==
    ASSUME Bounded, QueuedAtHome, NEW j \in Items, NEW q, Requeued(j.pool, q),
           Range(q) = Range(pool[j.pool].queue) \cup {j}
    PROVE  QueuedAtHome' /\ \A i \in Items : Queued(i)' <=> Queued(i) \/ i = j
<1> DEFINE p == j.pool
<1>1. p \in Pools
  BY Zenon DEF Items
<1>2. Range(pool'[p].queue) = Range(pool[p].queue) \cup {j}
  BY DEF Requeued
<1>3. \A o \in Pools \ {p} : pool'[o].queue = pool[o].queue
  BY DEF Requeued
<1> QED
  BY <1>1, <1>2, <1>3 DEF QueuedAtHome, Queued

LEMMA QueuesSame ==
    ASSUME QueuedAtHome, \A o \in Pools : pool'[o].queue = pool[o].queue
    PROVE  QueuedAtHome' /\ \A i \in Items : Queued(i)' <=> Queued(i)
BY DEF QueuedAtHome, Queued

(* Items that are in no batch form one. *)
LEMMA BatchStarts ==
    ASSUME BatchesApart, NEW b, batches' = batches \cup {b},
           \A i \in Range(b.items) : ~Batched(i)
    PROVE  BatchesApart' /\ \A i \in Items : Batched(i)' <=> Batched(i) \/ i \in Range(b.items)
BY DEF BatchesApart, Batched

(* A batch is given a channel, and nothing else of it changes. *)
LEMMA BatchPicks ==
    ASSUME BatchesApart, NEW b \in batches, NEW d, d.items = b.items,
           batches' = (batches \ {b}) \cup {d}
    PROVE  BatchesApart' /\ \A i \in Items : Batched(i)' <=> Batched(i)
BY DEF BatchesApart, Batched

(* A batch ends: as no two share an item, its items are in no batch. *)
LEMMA BatchEnds ==
    ASSUME BatchesApart, NEW b \in batches, batches' = batches \ {b}
    PROVE  /\ BatchesApart'
           /\ \A i \in Items : Batched(i)' <=> Batched(i) /\ i \notin Range(b.items)
           /\ \A i \in Range(b.items) : Batched(i)
BY DEF BatchesApart, Batched

LEMMA BatchesSame ==
    ASSUME BatchesApart, UNCHANGED batches
    PROVE  BatchesApart' /\ \A i \in Items : Batched(i)' <=> Batched(i)
BY DEF BatchesApart, Batched

(* The first result of an item. *)
LEMMA FirstResult ==
    ASSUME Bounded, NEW S, NEW v \in Answers, Give(S, v),
           \A i \in S : results[i] = <<>>
    PROVE  \A i \in Items : IF i \in S THEN Len(results'[i]) <= 1 /\ results'[i] # <<>>
                                       ELSE results'[i] = results[i]
<1>1. \A i \in Items : results'[i] = IF i \in S THEN Append(results[i], v) ELSE results[i]
  BY GiveSends DEF Bounded
<1>2. Append(<<>>, v) = <<v>> /\ Len(<<v>>) <= 1 /\ <<v>> # <<>>
  OBVIOUS
<1> QED
  BY <1>1, <1>2, Zenon

(* Where the items are, after a step that moves none. *)
ItemsKept == \A i \in Items : Settled(i)' /\ (Fresh(i) => Fresh(i)')

LEMMA NothingMoves ==
    ASSUME OnePlace, \A o \in Pools : pool'[o].queue = pool[o].queue,
           \/ UNCHANGED batches
           \/ \E b \in batches, d \in Batch :
                 d.items = b.items /\ batches' = (batches \ {b}) \cup {d},
           UNCHANGED results, \A i \in Items : item'[i].at = item[i].at
    PROVE  QueuedAtHome' /\ BatchesApart' /\ ItemsKept
<1>1. QueuedAtHome' /\ \A i \in Items : Queued(i)' <=> Queued(i)
  BY QueuesSame, Zenon DEF OnePlace
<1>2. BatchesApart' /\ \A i \in Items : Batched(i)' <=> Batched(i)
  BY BatchPicks, BatchesSame, Zenon DEF OnePlace
<1>3. ItemsKept
  BY <1>1, <1>2, Zenon DEF OnePlace, ItemsKept, Settled, Fresh
<1> QED
  BY <1>1, <1>2, <1>3

(* The item of a thread that submits it was nowhere, and joins the queue or, *)
(* with the queue, a batch.                                                  *)
LEMMA SubmitPlaces ==
    ASSUME Bounded, OnePlace, NEW t \in Threads, submitQuery(t)
    PROVE  /\ QueuedAtHome' /\ BatchesApart'
           /\ \A i \in Items : Settled(i)' /\ (Fresh(i) /\ i # Item(t) => Fresh(i)')
<1> DEFINE p == th[t].pool
           j == Item(t)
           q == Append(pool[p].queue, j)
           b == [items |-> q, chan |-> None]
<1>1. /\ p \in Pools /\ th[t].at = "submit"
      /\ \/ Requeued(p, <<>>) /\ batches' = batches \cup {b}
         \/ Requeued(p, q) /\ UNCHANGED batches
      /\ UNCHANGED <<item, results>>
  BY SubmitMoves, Zenon DEF Bounded
<1>2. j \in Items /\ j.thread = t /\ j.pool = p /\ j.server = th[t].server
  BY ItemType DEF Bounded
<1>3. Fresh(j)
  BY <1>1, <1>2, Zenon DEF OnePlace, Ahead
<1>4. Range(q) = Range(pool[p].queue) \cup {j}
  BY <1>1, <1>2, AppendedRange, Zenon DEF Bounded, DnsTypes, Pool
<1>5. b.items = q
  BY Zenon
<1> HIDE DEF p, j, q, b
<1>6. CASE Requeued(p, <<>>) /\ batches' = batches \cup {b}
  <2>1. /\ QueuedAtHome'
        /\ \A i \in Items : Queued(i)' <=> Queued(i) /\ i \notin Range(pool[p].queue)
        /\ \A i \in Range(pool[p].queue) : i \in Items /\ Queued(i)
    BY <1>1, <1>6, QueueTaken, Zenon DEF OnePlace
  <2>2. \A i \in Range(b.items) : ~Batched(i)
    BY <1>3, <1>4, <1>5, <2>1 DEF OnePlace, Settled, Fresh
  <2>3. BatchesApart' /\ \A i \in Items : Batched(i)' <=> Batched(i) \/ i \in Range(q)
    BY <1>5, <1>6, <2>2, BatchStarts DEF OnePlace
  <2>4. ASSUME NEW i \in Items
        PROVE  Settled(i)' /\ (Fresh(i) /\ i # j => Fresh(i)')
    BY <1>1, <1>2, <1>3, <1>4, <2>1, <2>3, Zenon DEF OnePlace, Settled, Fresh
  <2> QED
    BY <2>1, <2>3, <2>4 DEF j
<1>7. CASE Requeued(p, q) /\ UNCHANGED batches
  <2>1. QueuedAtHome' /\ \A i \in Items : Queued(i)' <=> Queued(i) \/ i = j
    BY <1>2, <1>4, <1>7, QueueGrows, Zenon DEF OnePlace
  <2>2. BatchesApart' /\ \A i \in Items : Batched(i)' <=> Batched(i)
    BY <1>7, BatchesSame DEF OnePlace
  <2>3. ASSUME NEW i \in Items
        PROVE  Settled(i)' /\ (Fresh(i) /\ i # j => Fresh(i)')
    BY <1>1, <1>2, <1>3, <2>1, <2>2, Zenon DEF OnePlace, Settled, Fresh
  <2> QED
    BY <2>1, <2>2, <2>3 DEF j
<1> QED
  BY <1>1, <1>6, <1>7, Zenon

(* The queue becomes a batch when the timer fires. *)
LEMMA TimerPlaces ==
    ASSUME Bounded, OnePlace, NEW p \in Pools, TimerFires(p)
    PROVE  QueuedAtHome' /\ BatchesApart' /\ ItemsKept
<1> DEFINE q == pool[p].queue
           b == [items |-> q, chan |-> None]
<1>1. /\ Requeued(p, <<>>) /\ UNCHANGED <<item, results>>
      /\ (q = <<>> /\ UNCHANGED batches) \/ batches' = batches \cup {b}
  BY TimerMoves, Zenon DEF Bounded
<1>2. /\ QueuedAtHome'
      /\ \A i \in Items : Queued(i)' <=> Queued(i) /\ i \notin Range(q)
      /\ \A i \in Range(q) : i \in Items /\ Queued(i)
  BY <1>1, QueueTaken, Zenon DEF OnePlace
<1>3. BatchesApart' /\ \A i \in Items : Batched(i)' <=> Batched(i) \/ i \in Range(q)
  <2>1. CASE q = <<>> /\ UNCHANGED batches
    <3>1. Range(q) = {}
      BY <2>1 DEF Range
    <3> QED
      BY <2>1, <3>1, BatchesSame, Zenon DEF OnePlace
  <2>2. CASE batches' = batches \cup {b}
    <3>1. b.items = q
      BY Zenon
    <3>2. \A i \in Range(b.items) : ~Batched(i)
      BY <1>2, <3>1, Zenon DEF OnePlace, Settled
    <3> HIDE DEF b
    <3> QED
      BY <2>2, <3>1, <3>2, BatchStarts DEF OnePlace
  <2> QED
    BY <1>1, <2>1, <2>2, Zenon
<1> HIDE DEF q
<1>4. ItemsKept
  BY <1>1, <1>2, <1>3 DEF OnePlace, ItemsKept, Settled, Fresh
<1> QED
  BY <1>2, <1>3, <1>4, Zenon

(* Queued items, or the items of a batch that gets no channel, get an error. *)
LEMMA ErrorPlaces ==
    ASSUME Bounded, OnePlace, NEW S \in SUBSET Items, Give(S, NoAnswer), UNCHANGED item,
           \A i \in Items : Queued(i)' <=> Queued(i) /\ i \notin S,
           \A i \in Items : Batched(i)' <=> Batched(i) /\ i \notin S,
           \A i \in S : Queued(i) \/ Batched(i)
    PROVE  ItemsKept
<1>1. \A i \in S : results[i] = <<>> /\ item[i].at = "none"
  BY Zenon DEF OnePlace, Settled
<1>2. \A i \in Items : IF i \in S THEN Len(results'[i]) <= 1 /\ results'[i] # <<>>
                                  ELSE results'[i] = results[i]
  BY <1>1, FirstResult DEF NoAnswer, None, Answers
<1>3. ASSUME NEW i \in Items PROVE Settled(i)' /\ (Fresh(i) => Fresh(i)')
  <2>1. CASE i \in S
    BY <1>1, <1>2, <2>1, Zenon DEF Settled, Fresh
  <2>2. CASE i \notin S
    BY <1>2, <2>2 DEF OnePlace, Settled, Fresh
  <2> QED
    BY <2>1, <2>2, Zenon
<1> QED
  BY <1>3, Zenon DEF ItemsKept

LEMMA ClosingPlaces ==
    ASSUME Bounded, OnePlace, Stop \/ SwapDialStream
    PROVE  QueuedAtHome' /\ BatchesApart' /\ ItemsKept
<1>1. PICK p \in Pools :
        /\ Requeued(p, <<>>) /\ Give(Range(pool[p].queue), NoAnswer)
        /\ UNCHANGED <<batches, item>>
  BY ClosingMoves DEF Bounded
<1> DEFINE S == Range(pool[p].queue)
<1>2. /\ QueuedAtHome' /\ \A i \in Items : Queued(i)' <=> Queued(i) /\ i \notin S
      /\ \A i \in S : i \in Items /\ Queued(i)
  BY <1>1, QueueTaken DEF OnePlace
<1>3. BatchesApart' /\ \A i \in Items : Batched(i)' <=> Batched(i)
  BY <1>1, BatchesSame, Zenon DEF OnePlace
<1>4. \A i \in S : ~Batched(i)
  BY <1>2 DEF OnePlace, Settled
<1> HIDE DEF S
<1>5. ItemsKept
  BY <1>1, <1>2, <1>3, <1>4, ErrorPlaces DEF S
<1> QED
  BY <1>2, <1>3, <1>5, Zenon

LEMMA PickFailsPlaces ==
    ASSUME Bounded, OnePlace, NEW b \in batches, PickFails(b)
    PROVE  QueuedAtHome' /\ BatchesApart' /\ ItemsKept
<1> DEFINE S == Range(b.items)
<1>1. /\ \A o \in Pools : pool'[o].queue = pool[o].queue
      /\ batches' = batches \ {b} /\ Give(S, NoAnswer) /\ UNCHANGED item
  BY PickFailsMoves, Zenon DEF Bounded, Relisted
<1>2. QueuedAtHome' /\ \A i \in Items : Queued(i)' <=> Queued(i)
  BY <1>1, QueuesSame, Zenon DEF OnePlace
<1>3. /\ BatchesApart' /\ \A i \in Items : Batched(i)' <=> Batched(i) /\ i \notin S
      /\ \A i \in S : Batched(i)
  BY <1>1, BatchEnds, Zenon DEF OnePlace
<1>4. S \subseteq Items
  BY BatchParts, Zenon DEF Bounded
<1>5. \A i \in S : ~Queued(i)
  BY <1>3, <1>4, Zenon DEF OnePlace, Settled
<1> HIDE DEF S
<1>6. ItemsKept
  BY <1>1, <1>2, <1>3, <1>4, <1>5, ErrorPlaces
<1> QED
  BY <1>2, <1>3, <1>6, Zenon

(* The items of a batch get the goroutines that wait for their responses. *)
LEMMA SendPlaces ==
    ASSUME Bounded, OnePlace, NEW b \in batches, SendBatch(b)
    PROVE  QueuedAtHome' /\ BatchesApart' /\ ItemsKept
<1> DEFINE S == Range(b.items)
<1>1. /\ batches' = batches \ {b} /\ UNCHANGED <<pool, results>>
      /\ \A i \in S : item'[i].at = "wait"
      /\ \A i \in Items \ S : item'[i] = item[i]
  BY SendMoves DEF Bounded
<1>2. QueuedAtHome' /\ \A i \in Items : Queued(i)' <=> Queued(i)
  BY <1>1, QueuesSame, Zenon DEF OnePlace
<1>3. /\ BatchesApart' /\ \A i \in Items : Batched(i)' <=> Batched(i) /\ i \notin S
      /\ \A i \in S : Batched(i)
  BY <1>1, BatchEnds, Zenon DEF OnePlace
<1> HIDE DEF S
<1>4. ASSUME NEW i \in Items PROVE Settled(i)' /\ (Fresh(i) => Fresh(i)')
  <2>1. CASE i \in S
    BY <1>1, <1>2, <1>3, <2>1, Zenon DEF OnePlace, Settled, Fresh
  <2>2. CASE i \notin S
    BY <1>1, <1>2, <1>3, <2>2 DEF OnePlace, Settled, Fresh
  <2> QED
    BY <2>1, <2>2, Zenon
<1> QED
  BY <1>2, <1>3, <1>4, Zenon DEF ItemsKept

(* A goroutine sends the one result of its item and ends. *)
LEMMA WaiterPlaces ==
    ASSUME Bounded, OnePlace, NEW j \in Items, WaiterEnds(j)
    PROVE  QueuedAtHome' /\ BatchesApart' /\ ItemsKept
<1>1. /\ item[j].at = "wait" /\ item'[j].at = "over"
      /\ \A i \in Items \ {j} : item'[i] = item[i]
      /\ Give({j}, item[j].resp) \/ Give({j}, NoAnswer)
      /\ UNCHANGED <<pool, batches>>
  BY WaiterMoves, Zenon DEF Bounded
<1>2. QueuedAtHome' /\ \A i \in Items : Queued(i)' <=> Queued(i)
  BY <1>1, QueuesSame, Zenon DEF OnePlace
<1>3. BatchesApart' /\ \A i \in Items : Batched(i)' <=> Batched(i)
  BY <1>1, BatchesSame, Zenon DEF OnePlace
<1>4. results[j] = <<>> /\ ~Queued(j) /\ ~Batched(j)
  BY <1>1, Zenon DEF OnePlace, Settled
<1>5. item[j].resp \in Answers /\ NoAnswer \in Answers
  BY Zenon DEF Bounded, DnsTypes, Waiter, NoAnswer, None, Answers
<1>6. \A i \in Items : IF i = j THEN Len(results'[i]) <= 1 /\ results'[i] # <<>>
                                ELSE results'[i] = results[i]
  <2>1. ASSUME NEW v \in Answers, Give({j}, v)
        PROVE  \A i \in Items : IF i \in {j} THEN Len(results'[i]) <= 1 /\ results'[i] # <<>>
                                             ELSE results'[i] = results[i]
    BY <1>4, <2>1, FirstResult, Zenon
  <2> QED
    BY <1>1, <1>5, <2>1
<1>7. ASSUME NEW i \in Items PROVE Settled(i)' /\ (Fresh(i) => Fresh(i)')
  <2>1. CASE i = j
    BY <1>1, <1>2, <1>3, <1>4, <1>6, <2>1 DEF Settled, Fresh
  <2>2. CASE i # j
    BY <1>1, <1>2, <1>3, <1>6, <2>2, Zenon DEF OnePlace, Settled, Fresh
  <2> QED
    BY <2>1, <2>2, Zenon
<1> QED
  BY <1>2, <1>3, <1>7, Zenon DEF ItemsKept

(* Apart from the item that a thread submits, what is nowhere stays nowhere. *)
LEMMA PlacesKept ==
    ASSUME Bounded, OnePlace, [Next]_vars
    PROVE  /\ QueuedAtHome' /\ BatchesApart'
           /\ \/ ItemsKept
              \/ \E t \in Threads :
                   /\ submitQuery(t)
                   /\ \A i \in Items : Settled(i)' /\ (Fresh(i) /\ i # Item(t) => Fresh(i)')
<1> DEFINE Kept == QueuedAtHome' /\ BatchesApart' /\ ItemsKept
<1>1. ASSUME UNCHANGED <<pool, batches, item, results>> PROVE Kept
  BY <1>1, NothingMoves, Zenon
<1>2. ASSUME NEW u \in Users, Arrive(u) PROVE Kept
  BY <1>1, <1>2, Zenon DEF Arrive, handleUDP
<1>3. ASSUME NEW t \in Threads, Resolving(t) PROVE Kept
  BY <1>1, <1>3, ResolvingMoves, Zenon DEF Bounded
<1>4. ASSUME NEW p \in Pools, CloseChannels(p) \/ StopGroup(p) PROVE Kept
  BY <1>4, BreakingMoves, NothingMoves DEF Bounded, Relisted
<1>5. ASSUME NEW b \in batches, PickChannel(b) PROVE Kept
  BY <1>5, PickMoves, NothingMoves, Zenon DEF Bounded, Relisted
<1>6. ASSUME NEW b \in batches, OpenChannel(b) PROVE Kept
  BY <1>6, OpenMoves, NothingMoves, Zenon DEF Bounded, Relisted
<1>7. ASSUME NEW c \in Chans, ChannelStep(c) \/ StreamBreaks(c) PROVE Kept
  <2>1. ASSUME NEW i \in chan[c].out, readLoop(c, i) PROVE Kept
    BY <2>1, ReadMoves, NothingMoves DEF Bounded
  <2>2. ASSUME \/ readLoopEnds(c) \/ StreamBreaks(c) \/ \E i \in chan[c].out : Unresolved(c, i)
        PROVE  Kept
    BY <1>1, <2>2, ChannelMoves, Zenon DEF Bounded
  <2> QED
    BY <1>7, <2>1, <2>2, Zenon DEF ChannelStep
<1>8. ASSUME Tick \/ SwapPool \/ UNCHANGED vars PROVE Kept
  BY <1>1, <1>8 DEF Tick, SwapPool, vars
<1>9. ASSUME NEW p \in Pools, TimerFires(p) PROVE Kept
  BY <1>9, TimerPlaces
<1>10. ASSUME NEW b \in batches, PickFails(b) PROVE Kept
  BY <1>10, PickFailsPlaces
<1>11. ASSUME NEW b \in batches, SendBatch(b) PROVE Kept
  BY <1>11, SendPlaces
<1>12. ASSUME NEW i \in Items, WaiterEnds(i) PROVE Kept
  BY <1>12, WaiterPlaces
<1>13. ASSUME Stop \/ SwapDialStream PROVE Kept
  BY <1>13, ClosingPlaces, Zenon
<1> HIDE DEF Kept
<1>14. Kept \/ \E t \in Threads : submitQuery(t)
  BY <1>2, <1>3, <1>4, <1>5, <1>6, <1>7, <1>8, <1>9, <1>10, <1>11, <1>12, <1>13
     DEF Next, ThreadStep, PoolStep, Resolving
<1> QED
  BY <1>14, SubmitPlaces DEF Kept

LEMMA OnePlaceKept == Bounded /\ OnePlace /\ [Next]_vars => OnePlace'
<1> SUFFICES ASSUME Bounded, OnePlace, [Next]_vars PROVE OnePlace'
  OBVIOUS
<1>1. PrefetchLater' /\ \A t \in Threads : Ahead(t)' \subseteq Ahead(t)
  BY AheadShrinks
<1>2. /\ QueuedAtHome' /\ BatchesApart'
      /\ \/ ItemsKept
         \/ \E t \in Threads :
              /\ submitQuery(t)
              /\ \A i \in Items : Settled(i)' /\ (Fresh(i) /\ i # Item(t) => Fresh(i)')
  BY PlacesKept
<1>3. \A i \in Items : Settled(i)'
  BY <1>2 DEF ItemsKept
<1>4. ASSUME NEW t \in Threads, NEW i \in Ahead(t)' PROVE Fresh(i)'
  <2>1. i \in Items /\ i.thread = t /\ Fresh(i)
    BY <1>1, <1>4 DEF OnePlace, Ahead
  <2>2. ASSUME NEW v \in Threads, submitQuery(v) PROVE i # Item(v)
    <3>1. SUFFICES ASSUME i = Item(v) PROVE FALSE
      OBVIOUS
    <3>2. v = t /\ i.server = th[t].server
      BY <2>1, <3>1, ItemType, Zenon DEF Bounded
    <3>3. th'[t].at = "wait" /\ th'[t].server = th[t].server
      BY <2>2, <3>2, SubmitMoves, ThreadMoves DEF Bounded, Places
    <3>4. th[t].server \in {1, 2}
      BY Zenon DEF Bounded, DnsTypes, Thread
    <3> QED
      BY <1>4, <3>2, <3>3, <3>4 DEF Ahead
  <2> QED
    BY <1>2, <2>1, <2>2, Zenon DEF ItemsKept
<1> QED
  BY <1>1, <1>2, <1>3, <1>4, Zenon DEF OnePlace

-----------------------------------------------------------------------------
(* The theorems. *)

DnsInv == Bounded /\ OnePlace /\ Matching

LEMMA InitPlaces == Init => OnePlace /\ Matching
<1> SUFFICES ASSUME Init PROVE OnePlace /\ Matching
  OBVIOUS
<1>1. /\ th = [t \in Threads |-> NoThread]
      /\ pool = [p \in Pools |-> [queue |-> <<>>, timer |-> FALSE, late |-> FALSE, chans |-> {}]]
      /\ chan = [c \in Chans |-> NoChannel] /\ batches = {} /\ cache = Nothing
      /\ item = [i \in Items |-> NoItem] /\ results = [i \in Items |-> <<>>]
  BY Zenon DEF Init
<1>2. /\ Range(<<>>) = {} /\ DOMAIN <<>> = {} /\ Len(<<>>) = 0
      /\ DOMAIN Nothing = {} /\ NoChannel.pending = Nothing
  BY DEF Range, Nothing, NoChannel
<1>3. \A i \in Items : item[i].at = "none" /\ item[i].resp = NoAnswer /\ results[i] = <<>>
  BY <1>1, Zenon DEF NoItem
<1>4. (\A p \in Pools : Range(pool[p].queue) = {}) /\ \A i \in Items : ~Queued(i) /\ ~Batched(i)
  BY <1>1, <1>2, Zenon DEF Queued, Batched
<1>5. \A i \in Items : Fresh(i) /\ Settled(i)
  BY <1>2, <1>3, <1>4 DEF Fresh, Settled
<1>6. \A t \in Threads : th[t].at = "idle"
  BY <1>1 DEF NoThread
<1>7. PrefetchLater
  BY <1>6, PrefetchApart, Zenon DEF PrefetchLater
<1>8. OnePlace
  BY <1>1, <1>4, <1>5, <1>7, Zenon DEF OnePlace, QueuedAtHome, BatchesApart, Ahead
<1>9. Matching
  BY <1>1, <1>2, <1>3, <1>6 DEF Matching, RegisteredByID, OwnResponses, OwnAnswers, Right
<1> QED
  BY <1>8, <1>9

LEMMA DnsInvariant == Spec => []DnsInv
<1>1. Init => DnsInv
  BY InitBounded, InitPlaces DEF DnsInv
<1>2. DnsInv /\ [Next]_vars => DnsInv'
  BY BoundedKept, OnePlaceKept, MatchingKept DEF DnsInv
<1> QED
  BY <1>1, <1>2, PTL DEF Spec

(* The cache and its list always agree and never hold more than              *)
(* dnsCacheMaxEntries names, whatever is looked up, fetched again and        *)
(* evicted; the pools keep to their number of channels, and a queue is       *)
(* flushed before it reaches the size of a batch.                            *)
THEOREM CacheBounded == Spec => []TypeOK
<1>1. DnsInv => TypeOK
  <2> SUFFICES ASSUME DnsInv PROVE TypeOK
    OBVIOUS
  <2>1. case \in Options /\ \A t \in Threads : th[t].at \in Places
    BY Zenon DEF DnsInv, Bounded, DnsTypes, Thread
  <2>2. /\ IsInjective(lru) /\ Range(lru) = DOMAIN cache /\ Len(lru) <= CacheMax
        /\ \A n \in DOMAIN cache : cache[n] \in Entry /\ cache[n].left <= cache[n].ttl
    BY DEF DnsInv, Bounded, CacheOK
  <2>3. \A n \in DOMAIN cache : cache[n].left \in 0..cache[n].ttl /\ cache[n].ttl \in 1..MaxTTL
    BY <2>2 DEF Entry
  <2>4. \A p \in Pools : Cardinality(pool[p].chans) <= case.channels /\ Len(pool[p].queue) < BatchMax
    BY Zenon DEF DnsInv, Bounded, PoolsBounded
  <2> QED
    BY <2>1, <2>2, <2>3, <2>4 DEF TypeOK, Places
<1> QED
  BY <1>1, DnsInvariant, PTL

(* Users get an answer with their own transaction ID, whether it comes from  *)
(* the cache, from a channel that many queries share, from a stream or from  *)
(* a socket, for any queries with any IDs.  It answers their own question,   *)
(* and the cache keeps answers under their names, until flushBatch has put   *)
(* two different questions with one ID on one channel at the same time.      *)
THEOREM AnswersOwn == Spec => []AnswersMatch
<1>1. DnsInv => AnswersMatch
  <2> SUFFICES ASSUME DnsInv PROVE AnswersMatch
    OBVIOUS
  <2>1. OwnAnswers
    BY DEF DnsInv, Matching
  <2>2. \A u \in Users : u \in Threads /\ Asked(u) = Query[u] /\ Tx(u) = Query[u].tx
    BY PrefetchApart, Zenon DEF Tx
  <2> QED
    BY <2>1, <2>2 DEF OwnAnswers, Served, AnswersMatch
<1> QED
  BY <1>1, DnsInvariant, PTL

(* No resultCh is ever sent a second value: an item is in one queue, one     *)
(* batch or one goroutine, and whatever takes it from there, a flush, close  *)
(* or a failed pickChannel, takes it for good.                               *)
THEOREM OneResult == Spec => []ResultOnce
<1>1. DnsInv => ResultOnce
  BY DEF DnsInv, OnePlace, Settled, ResultOnce
<1> QED
  BY <1>1, DnsInvariant, PTL
=============================================================================
