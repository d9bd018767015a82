---------------------------- MODULE AcceptLoop ----------------------------
(***************************************************************************)
(* The hole-punch server of golib/api.go: StartServer, StopServer and the  *)
(* accept-loop goroutine that StartServer leaves behind, with the slots of *)
(* the signaling server, the clients that answer offers, and the life of a *)
(* WebRTC server group.                                                    *)
(*                                                                         *)
(* Each StartServer has a session id of its own and its own goroutine,     *)
(* numbered by life.  StopServer cancels the goroutine without waiting for *)
(* it, so loops of earlier lives run beside the current one and share its  *)
(* globals.  A section under the global mutex mu is one step, except that  *)
(* ICE, which does not take mu, may act between a test of IsAlive and what *)
(* the section does about it.  Requests to the signaling server are steps  *)
(* of their own and may be lost, or have their response lost.  Statistics  *)
(* counters, the STUN keepalive of the raw socket, the UPnP server and the *)
(* manual mode are left out; what StopServer does to the discovery listing *)
(* is in module Discovery.                                                 *)
(***************************************************************************)
EXTENDS Naturals, FiniteSets

CONSTANTS Clients,     \* peers that answer offers
          MaxLives,    \* bound: successful StartServer calls
          MaxGroups,   \* bound: server groups created
          MaxAnswers,  \* bound: answers posted
          MaxFaults    \* bound: lost requests and signaling restarts

ASSUME BoundsAssumption ==
    MaxLives \in Nat /\ MaxGroups \in Nat /\ MaxAnswers \in Nat /\ MaxFaults \in Nat

Lives == 1..MaxLives
Groups == 1..MaxGroups
Answers == 1..MaxAnswers
None == 0              \* a nil group, an empty slot

VARIABLES
    running,    \* serverRunning
    life,       \* number of successful StartServer calls
    active,     \* activeWebRTCServerGroup
    draining,   \* drainingWebRTCServerGroups
    ngroups,    \* groups created so far
    gst,        \* gst[g]: state of the PeerConnections of g
    gans,       \* gans[g]: the answer set on g
    gowner,     \* gowner[g]: the life whose code created g
    busy,       \* groups with an active stream
    cancelled,  \* cancelled[l]: serverCtx of life l is done
    mu,         \* the loop that holds mu between two steps
    todo,       \* draining groups that it has yet to look at
    dead,       \* the group that it has found not alive
    lpc,        \* control state of the accept loop
    lgrp,       \* its wrtcGroup; its currentOffers are the offers of lgrp
    lnew,       \* its newGroup
    lans,       \* its sdpAnswersRaw
    failed,     \* it failed to replace a used group, or to set all the answers
    offer,      \* offer[l]: the group whose offers the session's slot holds
    answer,     \* answer[l]: the answer the session's slot holds
    afor,       \* afor[a]: the group whose offers a answers
    nans,       \* answers posted so far
    taken,      \* answers some loop has received
    cpc,        \* control state of a client
    cget,       \* cget[c] = <<l, g>>: the session and the offers it has read
    faults,     \* faults so far
    clearLost,  \* a request that clears an answer slot was lost
    late        \* a loop published a group after its server was stopped

globals == <<running, life, active, draining, cancelled, mu, todo, dead>>
groups == <<ngroups, gst, gans, gowner, busy>>
loops == <<lpc, lgrp, lnew, lans, failed>>
slots == <<offer, answer>>
clients == <<afor, nans, cpc, cget>>
history == <<taken, faults, clearLost, late>>
vars == <<globals, groups, loops, slots, clients, history>>

Init ==
    /\ running = FALSE /\ life = 0 /\ active = None /\ draining = {}
    /\ ngroups = 0
    /\ gst = [g \in Groups |-> "none"]
    /\ gans = [g \in Groups |-> None]
    /\ gowner = [g \in Groups |-> None]
    /\ busy = {}
    /\ cancelled = [l \in Lives |-> FALSE]
    /\ mu = None /\ todo = {} /\ dead = {}
    /\ lpc = [l \in Lives |-> "none"]
    /\ lgrp = [l \in Lives |-> None]
    /\ lnew = [l \in Lives |-> None]
    /\ lans = [l \in Lives |-> None]
    /\ failed = [l \in Lives |-> FALSE]
    /\ offer = [l \in Lives |-> None]
    /\ answer = [l \in Lives |-> None]
    /\ afor = [a \in Answers |-> None]
    /\ nans = 0
    /\ cpc = [c \in Clients |-> "idle"]
    /\ cget = [c \in Clients |-> <<None, None>>]
    /\ taken = {} /\ faults = 0 /\ clearLost = FALSE /\ late = FALSE

\* ServerGroup.IsAlive: the flag iceAlive of some PeerConnection is set.  ICE
\* clears it when it is disconnected, which it may recover from.
IsAlive(g) == gst[g] = "up"

\* ServerGroup.Stop on every group in G.
StopGroups(G) == gst' = [g \in Groups |-> IF g \in G THEN "stopped" ELSE gst[g]]

\* A new group, with its offers, as startServerGroupWithSrflx returns it.
NewGroup == ngroups + 1

CreateGroup(l) ==
    /\ ngroups < MaxGroups
    /\ ngroups' = NewGroup
    /\ gst' = [gst EXCEPT ![NewGroup] = "offered"]
    /\ gowner' = [gowner EXCEPT ![NewGroup] = l]
    /\ UNCHANGED <<gans, busy>>

\* The slots of session l at the signaling server.
PostSDPOffers(l, g) == offer' = [offer EXCEPT ![l] = g]
PostSDPAnswers(l, a) == answer' = [answer EXCEPT ![l] = a]

\* Both waits skip the empty list that clears the slot.
Answered(l) == answer[l] # None

Goto(l, pc) == lpc' = [lpc EXCEPT ![l] = pc]

-----------------------------------------------------------------------------
(* The API calls.  Both hold mu from the first to the last statement.      *)

\* A call that fails on the way stops its group and changes nothing else.
StartServer ==
    LET l == life + 1 IN
    /\ mu = None
    /\ ~running
    /\ life < MaxLives
    /\ CreateGroup(l)
    /\ PostSDPOffers(l, NewGroup)
    /\ active' = NewGroup
    /\ running' = TRUE
    /\ life' = l
    /\ Goto(l, "check")
    /\ lgrp' = [lgrp EXCEPT ![l] = NewGroup]
    /\ UNCHANGED <<draining, cancelled, mu, todo, dead, lnew, lans, failed, answer,
                   clients, history>>

\* Mutant: the draining groups are forgotten.
StopServerForgets ==
    /\ mu = None
    /\ running
    /\ running' = FALSE
    /\ cancelled' = [cancelled EXCEPT ![life] = TRUE]
    /\ StopGroups({active})
    /\ busy' = busy \ {active}
    /\ active' = None
    /\ draining' = {}
    /\ UNCHANGED <<life, mu, todo, dead, ngroups, gans, gowner, loops, slots, clients,
                   history>>

StopServer ==
    /\ mu = None
    /\ running
    /\ running' = FALSE
    /\ cancelled' = [cancelled EXCEPT ![life] = TRUE]
    /\ StopGroups({active} \cup draining)
    /\ busy' = busy \ ({active} \cup draining)
    /\ active' = None
    /\ draining' = {}
    /\ UNCHANGED <<life, mu, todo, dead, ngroups, gans, gowner, loops, slots, clients,
                   history>>

-----------------------------------------------------------------------------
(* The accept loop of life l.                                              *)

\* Mutant: only serverRunning is looked at, which a newer life may have set.
CheckNoContext(l) ==
    /\ lpc[l] = "check" /\ mu = None
    /\ Goto(l, IF ~running THEN "exited" ELSE "wait")
    /\ UNCHANGED <<globals, groups, lgrp, lnew, lans, failed, slots, clients, history>>

\* The top of the loop: the context, then serverRunning under mu.
Check(l) ==
    /\ lpc[l] = "check"
    /\ cancelled[l] \/ mu = None
    /\ Goto(l, IF cancelled[l] \/ ~running THEN "exited" ELSE "wait")
    /\ UNCHANGED <<globals, groups, lgrp, lnew, lans, failed, slots, clients, history>>

\* WaitSDPAnswersSSE or pollForSDPAnswers returns a non-empty answer.
Take(l) ==
    /\ lpc[l] = "wait"
    /\ ~cancelled[l]
    /\ Answered(l)
    /\ lans' = [lans EXCEPT ![l] = answer[l]]
    /\ taken' = taken \cup {answer[l]}
    /\ Goto(l, "clear")
    /\ UNCHANGED <<globals, groups, lgrp, lnew, failed, slots, clients, faults, clearLost, late>>

\* Mutant: the offers are not posted again.
WaitFailsQuietly(l) ==
    /\ lpc[l] = "wait" /\ mu = None
    /\ Goto(l, IF running THEN "reap" ELSE "exited")
    /\ UNCHANGED <<globals, groups, lgrp, lnew, lans, failed, slots, clients, history>>

\* Both waits fail: timeout, broken stream or cancelled context.
WaitFails(l) ==
    /\ lpc[l] = "wait" /\ mu = None
    /\ Goto(l, IF running THEN "repost" ELSE "exited")
    /\ UNCHANGED <<globals, groups, lgrp, lnew, lans, failed, slots, clients, history>>

\* PostSDPOffers(currentOffers); an error is only logged.
Repost(l) ==
    /\ lpc[l] = "repost"
    /\ PostSDPOffers(l, lgrp[l])
    /\ Goto(l, "reap")
    /\ UNCHANGED <<globals, groups, lgrp, lnew, lans, failed, answer, clients, history>>

RepostLost(l) ==
    /\ lpc[l] = "repost"
    /\ faults < MaxFaults
    /\ faults' = faults + 1
    /\ Goto(l, "reap")
    /\ UNCHANGED <<globals, groups, lgrp, lnew, lans, failed, slots, clients, taken, clearLost, late>>

\* Mutant: the answer slot is not cleared.
ClearNothing(l) ==
    /\ lpc[l] \in {"clear", "clear2"}
    /\ Goto(l, IF lpc[l] = "clear" THEN "accept" ELSE "post")
    /\ UNCHANGED <<globals, groups, lgrp, lnew, lans, failed, slots, clients, history>>

\* PostSDPAnswers(nil): before the answer is used, and again before the new
\* offers are posted.  Its error is ignored.
Clear(l) ==
    /\ lpc[l] \in {"clear", "clear2"}
    /\ PostSDPAnswers(l, None)
    /\ Goto(l, IF lpc[l] = "clear" THEN "accept" ELSE "post")
    /\ UNCHANGED <<globals, groups, lgrp, lnew, lans, failed, offer, clients, history>>

ClearLost(l) ==
    /\ lpc[l] \in {"clear", "clear2"}
    /\ faults < MaxFaults
    /\ faults' = faults + 1
    /\ clearLost' = TRUE
    /\ Goto(l, IF lpc[l] = "clear" THEN "accept" ELSE "post")
    /\ UNCHANGED <<globals, groups, lgrp, lnew, lans, failed, slots, clients, taken, late>>

\* Some PeerConnections of g get the answer a, whose credentials are those of
\* the offers that it answers.
SetAnswer(g, a) ==
    /\ gst[g] = "offered"
    /\ gst' = [gst EXCEPT ![g] = "accepted"]
    /\ gans' = [gans EXCEPT ![g] = a]

\* currGroup.AcceptAnswers: every PeerConnection takes its answer; or one of
\* them refuses it after others have taken theirs; or there is an error before
\* that, for a wrong number of answers, an answer that the first one refuses,
\* a group that has its answers already, or a stopped one.
\* There is never a previous group: prevWrtcGroup stays nil.
Accept(l) ==
    /\ lpc[l] = "accept"
    /\ \/ SetAnswer(lgrp[l], lans[l]) /\ Goto(l, "connect") /\ UNCHANGED failed
       \/ /\ SetAnswer(lgrp[l], lans[l])
          /\ failed' = [failed EXCEPT ![l] = TRUE]
          /\ Goto(l, "check")
       \/ Goto(l, "check") /\ UNCHANGED <<gst, gans, failed>>
    /\ lans' = [lans EXCEPT ![l] = None]
    /\ UNCHANGED <<globals, ngroups, gowner, busy, lgrp, lnew, slots, clients, history>>

\* Mutant: no group is prepared for the next client.
WaitConnectedOnly(l) ==
    /\ lpc[l] = "connect" /\ mu = None
    /\ Goto(l, IF running THEN "check" ELSE "exited")
    /\ UNCHANGED <<globals, groups, lgrp, lnew, lans, failed, slots, clients, history>>

\* WaitConnected returns: connected, failed, stopped or timed out.  All lead
\* to the preparation of the next group, if serverRunning.
WaitConnected(l) ==
    /\ lpc[l] = "connect" /\ mu = None
    /\ Goto(l, IF running THEN "create" ELSE "exited")
    /\ UNCHANGED <<globals, groups, lgrp, lnew, lans, failed, slots, clients, history>>

\* startServerGroupWithSrflx: seconds of STUN discovery, without mu.
Create(l) ==
    /\ lpc[l] = "create"
    /\ CreateGroup(l)
    /\ lnew' = [lnew EXCEPT ![l] = NewGroup]
    /\ Goto(l, "clear2")
    /\ UNCHANGED <<globals, lgrp, lans, failed, slots, clients, history>>

CreateFails(l) ==
    /\ lpc[l] = "create"
    /\ failed' = [failed EXCEPT ![l] = TRUE]
    /\ Goto(l, "check")
    /\ UNCHANGED <<globals, groups, lgrp, lnew, lans, slots, clients, history>>

\* PostSDPOffers(newOffers).  On an error the new group is stopped; if only
\* the response was lost, its offers are in the slot all the same.
PostOffers(l) ==
    /\ lpc[l] = "post"
    /\ PostSDPOffers(l, lnew[l])
    /\ Goto(l, "swap")
    /\ UNCHANGED <<globals, groups, lgrp, lnew, lans, failed, answer, clients, history>>

\* Mutant: the new group is not stopped.
PostOffersFailsLeaks(l) ==
    /\ lpc[l] = "post"
    /\ faults < MaxFaults
    /\ faults' = faults + 1
    /\ PostSDPOffers(l, lnew[l]) \/ UNCHANGED offer
    /\ lnew' = [lnew EXCEPT ![l] = None]
    /\ failed' = [failed EXCEPT ![l] = TRUE]
    /\ Goto(l, "check")
    /\ UNCHANGED <<globals, groups, lgrp, lans, answer, clients, taken, clearLost, late>>

PostOffersFails(l) ==
    /\ lpc[l] = "post"
    /\ faults < MaxFaults
    /\ faults' = faults + 1
    /\ PostSDPOffers(l, lnew[l]) \/ UNCHANGED offer
    /\ StopGroups({lnew[l]})
    /\ lnew' = [lnew EXCEPT ![l] = None]
    /\ failed' = [failed EXCEPT ![l] = TRUE]
    /\ Goto(l, "check")
    /\ UNCHANGED <<globals, ngroups, gans, gowner, busy, lgrp, lans, answer,
                   clients, taken, clearLost, late>>

\* Under mu, whether the old group is alive.
SwapLook(l) ==
    /\ lpc[l] = "swap" /\ mu = None
    /\ mu' = l
    /\ dead' = {lgrp[l]} \ {g \in Groups : IsAlive(g)}
    /\ Goto(l, "swapping")
    /\ UNCHANGED <<running, life, active, draining, cancelled, todo, groups, lgrp, lnew,
                   lans, failed, slots, clients, history>>

\* The new group becomes the active one and the loop's own.
Publish(l) ==
    /\ active' = lnew[l]
    /\ lgrp' = [lgrp EXCEPT ![l] = lnew[l]]
    /\ lnew' = [lnew EXCEPT ![l] = None]
    /\ late' = (late \/ cancelled[l])
    /\ mu' = None /\ dead' = {}
    /\ Goto(l, "reap")
    /\ UNCHANGED <<running, life, cancelled, todo, ngroups, gans, gowner, lans, failed,
                   slots, clients, taken, faults, clearLost>>

\* Mutant: the old group is forgotten.
SwapForgets(l) ==
    lpc[l] = "swapping" /\ Publish(l) /\ UNCHANGED <<gst, busy, draining>>

\* Still under mu: the old group drains if it was alive and is stopped if it was
\* not, and the new one becomes the active group.
Swap(l) ==
    /\ lpc[l] = "swapping"
    /\ StopGroups(dead)
    /\ busy' = busy \ dead
    /\ draining' = draining \cup ({lgrp[l]} \ dead)
    /\ Publish(l)

\* cleanupDrainingServerGroups takes mu and goes through the draining groups,
\* if there are any.
ReapBegin(l) ==
    /\ lpc[l] = "reap" /\ mu = None
    /\ IF draining = {}
       THEN Goto(l, "check") /\ UNCHANGED <<mu, todo>>
       ELSE Goto(l, "reaping") /\ mu' = l /\ todo' = draining
    /\ UNCHANGED <<running, life, active, draining, cancelled, dead, groups, lgrp, lnew,
                   lans, failed, slots, clients, history>>

ReapLook(l) ==
    /\ lpc[l] = "reaping" /\ dead = {}
    /\ \E g \in todo :
          /\ todo' = todo \ {g}
          /\ dead' = IF IsAlive(g) THEN {} ELSE {g}
    /\ UNCHANGED <<running, life, active, draining, cancelled, mu, groups, loops, slots,
                   clients, history>>

ReapStop(l) ==
    /\ lpc[l] = "reaping" /\ dead # {}
    /\ StopGroups(dead)
    /\ busy' = busy \ dead
    /\ draining' = draining \ dead
    /\ dead' = {}
    /\ UNCHANGED <<running, life, active, cancelled, mu, todo, ngroups, gans, gowner,
                   loops, slots, clients, history>>

ReapEnd(l) ==
    /\ lpc[l] = "reaping" /\ todo = {} /\ dead = {}
    /\ mu' = None
    /\ Goto(l, "check")
    /\ UNCHANGED <<running, life, active, draining, cancelled, todo, dead, groups, lgrp,
                   lnew, lans, failed, slots, clients, history>>

-----------------------------------------------------------------------------
(* The environment: ICE, the clients and the signaling server.             *)

ICE(g, from, to) ==
    /\ gst[g] \in from
    /\ gst' = [gst EXCEPT ![g] = to]
    /\ UNCHANGED <<globals, ngroups, gans, gowner, loops, slots, clients, history>>

\* ICE connects only a group whose own offers were answered: the answer to
\* the offers of another group carries the wrong credentials.
Connected(g) ==
    /\ gans[g] # None
    /\ afor[gans[g]] = g
    /\ ICE(g, {"accepted", "shaky"}, "up")
    /\ UNCHANGED busy

\* ICE state disconnected: iceAlive is cleared, the sessions stay open.
Disconnected(g) == ICE(g, {"up"}, "shaky") /\ UNCHANGED busy

\* ICE state failed: closeSessions ends the streams.
Failed(g) == ICE(g, {"accepted", "up", "shaky"}, "failed") /\ busy' = busy \ {g}

\* handleStream starts and ends.
StreamOpens(g) ==
    /\ gst[g] = "up"
    /\ busy' = busy \cup {g}
    /\ UNCHANGED <<globals, ngroups, gst, gans, gowner, loops, slots, clients, history>>

StreamCloses(g) ==
    /\ g \in busy
    /\ busy' = busy \ {g}
    /\ UNCHANGED <<globals, ngroups, gst, gans, gowner, loops, slots, clients, history>>

\* A client reads the offers of a session and posts its answer later.
ReadOffer(c, l) ==
    /\ cpc[c] = "idle"
    /\ nans < MaxAnswers
    /\ offer[l] # None
    /\ cget' = [cget EXCEPT ![c] = <<l, offer[l]>>]
    /\ cpc' = [cpc EXCEPT ![c] = "answer"]
    /\ UNCHANGED <<globals, groups, loops, slots, afor, nans, history>>

PostAnswer(c) ==
    /\ cpc[c] = "answer"
    /\ nans < MaxAnswers
    /\ nans' = nans + 1
    /\ afor' = [afor EXCEPT ![nans + 1] = cget[c][2]]
    /\ PostSDPAnswers(cget[c][1], nans + 1)
    /\ cpc' = [cpc EXCEPT ![c] = "idle"]
    /\ cget' = [cget EXCEPT ![c] = <<None, None>>]
    /\ UNCHANGED <<globals, groups, loops, offer, history>>

\* The signaling server restarts, or collects the session.
SlotsVanish(l) ==
    /\ faults < MaxFaults
    /\ faults' = faults + 1
    /\ offer' = [offer EXCEPT ![l] = None]
    /\ answer' = [answer EXCEPT ![l] = None]
    /\ UNCHANGED <<globals, groups, loops, clients, taken, clearLost, late>>

LoopStep(l) ==
    \/ Check(l) \/ Take(l) \/ WaitFails(l) \/ Repost(l) \/ RepostLost(l)
    \/ Clear(l) \/ ClearLost(l) \/ Accept(l) \/ WaitConnected(l)
    \/ Create(l) \/ CreateFails(l) \/ PostOffers(l) \/ PostOffersFails(l)
    \/ SwapLook(l) \/ Swap(l)
    \/ ReapBegin(l) \/ ReapLook(l) \/ ReapStop(l) \/ ReapEnd(l)

Environment ==
    \/ \E g \in Groups : \/ Connected(g) \/ Disconnected(g) \/ Failed(g)
                         \/ StreamOpens(g) \/ StreamCloses(g)
    \/ \E c \in Clients : PostAnswer(c) \/ \E l \in Lives : ReadOffer(c, l)
    \/ \E l \in Lives : SlotsVanish(l)

Next == StartServer \/ StopServer \/ (\E l \in Lives : LoopStep(l)) \/ Environment

\* Every wait of the loop ends by a timeout at the latest and every request
\* has one, so the goroutine keeps running; it gets mu at last, which Go gives
\* to the one that has waited longest, even if other loops take it again and
\* again.  A request that is repeated for ever is not lost for ever.
Fairness == \A l \in Lives : SF_vars(LoopStep(l))

Spec == Init /\ [][Next]_vars /\ Fairness

-----------------------------------------------------------------------------
(* Properties.                                                             *)

GroupStates == {"none", "offered", "accepted", "up", "shaky", "failed", "stopped"}
LoopStates == {"none", "check", "wait", "repost", "reap", "clear", "accept",
               "connect", "create", "clear2", "post", "swap", "swapping", "reaping",
               "exited"}

\* Every variable has its type; in particular no nil group drains.
TypeOK ==
    /\ running \in BOOLEAN
    /\ life \in 0..MaxLives
    /\ active \in Groups \cup {None}
    /\ draining \in SUBSET Groups
    /\ ngroups \in 0..MaxGroups
    /\ gst \in [Groups -> GroupStates]
    /\ gans \in [Groups -> Answers \cup {None}]
    /\ gowner \in [Groups -> Lives \cup {None}]
    /\ busy \in SUBSET Groups
    /\ cancelled \in [Lives -> BOOLEAN]
    /\ mu \in Lives \cup {None}
    /\ todo \in SUBSET Groups /\ dead \in SUBSET Groups
    /\ lpc \in [Lives -> LoopStates]
    /\ lgrp \in [Lives -> Groups \cup {None}]
    /\ lnew \in [Lives -> Groups \cup {None}]
    /\ lans \in [Lives -> Answers \cup {None}]
    /\ failed \in [Lives -> BOOLEAN]
    /\ offer \in [Lives -> Groups \cup {None}]
    /\ answer \in [Lives -> Answers \cup {None}]
    /\ afor \in [Answers -> Groups \cup {None}]
    /\ nans \in 0..MaxAnswers
    /\ taken \in SUBSET Answers
    /\ cpc \in [Clients -> {"idle", "answer"}]
    /\ cget \in [Clients -> (Lives \cup {None}) \X (Groups \cup {None})]
    /\ faults \in 0..MaxFaults
    /\ clearLost \in BOOLEAN /\ late \in BOOLEAN

Live(g) == gst[g] \notin {"none", "stopped"}

\* While the server runs, no group of its own accept loop is lost: each one
\* that has not been stopped is the loop's current or new group, or drains.
\* A stale loop of an earlier life may overwrite the active group meanwhile.
NoGroupLost ==
    \A g \in Groups :
        running /\ gowner[g] = life /\ Live(g)
          => g \in {lgrp[life], lnew[life]} \cup draining

\* While the loop waits for answers, the offers that clients can read are
\* those of the group it will set the answers on.  If not, the slot is empty
\* or holds the offers of a group that was stopped after a lost response;
\* never those of another group that still listens.
OfferAgrees ==
    \A l \in Lives :
        lpc[l] \in {"wait", "repost"} /\ offer[l] # lgrp[l]
          => offer[l] = None \/ gst[offer[l]] = "stopped"

\* Every group with open sockets will be stopped: it is the active group or
\* drains, so that StopServer or the cleanup stops it, or it is the new group of
\* a loop, which publishes it or stops it, also when the server is stopped, and
\* started again, meanwhile.  The one exception is a loop that publishes its new
\* group after StopServer has ended its server: nobody may look for that group,
\* and the active group of a newer server may be overwritten.
NoGroupOutlives ==
    ~late => \A g \in Groups :
               Live(g) => g \in {active} \cup draining \cup {lnew[l] : l \in Lives}

\* An answer is received once.  Only a lost clearing request, whose error the
\* loop ignores, lets the next wait pick the same answer up again.
AnswerTakenOnce ==
    [][\A l \in Lives :
          lpc[l] = "wait" /\ lpc'[l] = "clear" /\ answer[l] \in taken => clearLost]_vars

\* The goroutine of a stopped server ends.
StoppedLoopExits ==
    \A l \in Lives : cancelled[l] ~> lpc[l] = "exited"

Fresh(l) == lgrp[l] # None /\ gst[lgrp[l]] = "offered"
Used(l) == running /\ life = l /\ ~Fresh(l)

\* A group that has been used is replaced by one that listens, as long as the
\* server runs, no creation fails, no posting of the new offers fails and no
\* group takes only some of its answers: after each of those three the loop goes
\* back to waiting with the used group.
FreshAfterUse ==
    \A l \in Lives :
        Used(l) ~> Fresh(l) \/ cancelled[l] \/ failed[l]

\* Lost offers come back: the loop posts its current offers again after every
\* wait that brings no answer.
OfferRestored ==
    \A l \in Lives :
        running /\ life = l /\ offer[l] # lgrp[l]
          ~> offer[l] = lgrp[l] \/ cancelled[l]

-----------------------------------------------------------------------------
(* What comments of the code promise and the code does not do.             *)

\* api.go, StopServer: "stops the proxy server and cleans up resources".
\* Once it has returned and the loops have ended, every group is stopped.
StopCleansUp ==
    ~running /\ (\A l \in Lives : lpc[l] \in {"none", "exited"})
      => \A g \in Groups : ~Live(g)

\* api.go: "Accept loop: wait for clients and handle reconnections."  A used
\* group is replaced, whatever failed on the way, as long as the server runs.
HandlesReconnections ==
    \A l \in Lives : Used(l) ~> Fresh(l) \/ cancelled[l]

\* api.go, cleanupDrainingServerGroups: "stops and removes draining WebRTC
\* server groups that have no active streams".
DrainStopsOnlyIdle ==
    [][\A l \in Lives : lpc[l] = "reaping"
          => \A g \in draining \ draining' : g \notin busy]_vars

=============================================================================
