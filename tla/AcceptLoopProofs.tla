------------------------- MODULE AcceptLoopProofs -------------------------
(***************************************************************************)
(* The accept loop of the hole-punch server, for any number of lives,      *)
(* groups, clients, answers and faults: no group is lost while the server  *)
(* runs, and none outlives it unless a loop publishes it late; the offers  *)
(* that clients read are the loop's own, and an answer is taken once.      *)
(* Loops of stopped servers run beside the current one throughout.         *)
(***************************************************************************)
EXTENDS AcceptLoop, TLAPS

USE DEF None

(* The loop holds a new group between its creation and its publication. *)
Preparing == {"clear2", "post", "swap", "swapping"}

(* A group that has not been created is nobody's. *)
FreshGroups ==
    /\ \A g \in Groups : g > ngroups => gst[g] = "none" /\ gowner[g] = None
    /\ \A g \in draining \cup {active} : g <= ngroups

(* The groups of loop l were created by its own life, and the new one is not *)
(* the current one and waits for its first answer.                           *)
Owned(l) ==
    /\ l > life <=> lpc[l] = "none"
    /\ l <= life => lgrp[l] \in 1..ngroups /\ gowner[lgrp[l]] = l
    /\ lpc[l] \in Preparing =>
         /\ lnew[l] \in 1..ngroups /\ gowner[lnew[l]] = l /\ lnew[l] # lgrp[l]
         /\ gst[lnew[l]] \in {"offered", "stopped"}
    /\ lpc[l] \notin Preparing => lnew[l] = None

(* What the holder of mu has looked at was created. *)
Looked == \A g \in todo \cup dead : g <= ngroups

OwnGroups == FreshGroups /\ (\A g \in Groups : gowner[g] <= life) /\ \A l \in Lives : Owned(l)

(* Types are kept.  A group drains only if the loop has one: Swap needs Owned. *)
LEMMA TypeStep == TypeOK /\ OwnGroups /\ [Next]_vars => TypeOK'
<1> SUFFICES ASSUME TypeOK, OwnGroups, [Next]_vars PROVE TypeOK'
  OBVIOUS
<1> USE BoundsAssumption DEF TypeOK, Lives, Groups, Answers, GroupStates, LoopStates,
        globals, groups, loops, slots, clients, history, CreateGroup, NewGroup,
        PostSDPOffers, PostSDPAnswers, Goto, StopGroups
<1>1. CASE StartServer
  BY <1>1 DEF StartServer
<1>2. CASE StopServer
  BY <1>2 DEF StopServer
<1>3. ASSUME NEW l \in Lives, LoopStep(l) PROVE TypeOK'
  <2>1. CASE Check(l)
    BY <2>1 DEF Check
  <2>2. CASE Take(l)
    BY <2>2 DEF Take, Answered
  <2>3. CASE WaitFails(l)
    BY <2>3 DEF WaitFails
  <2>4. CASE Repost(l)
    BY <2>4 DEF Repost
  <2>5. CASE RepostLost(l)
    BY <2>5 DEF RepostLost
  <2>6. CASE Clear(l)
    BY <2>6 DEF Clear
  <2>7. CASE ClearLost(l)
    BY <2>7 DEF ClearLost
  <2>8. CASE Accept(l)
    <3>1. CASE SetAnswer(lgrp[l], lans[l])
      <4>1. gst' \in [Groups -> GroupStates]
        BY <3>1 DEF SetAnswer
      <4>2. lans[l] \in Answers \cup {None}
        OBVIOUS
      <4>3. gans' \in [Groups -> Answers \cup {None}]
        BY <3>1, <4>2 DEF SetAnswer
      <4>4. lpc' \in [Lives -> LoopStates] /\ failed' \in [Lives -> BOOLEAN]
        <5>1. Goto(l, "connect") \/ Goto(l, "check")
          BY <2>8 DEF Accept
        <5>2. UNCHANGED failed \/ failed' = [failed EXCEPT ![l] = TRUE]
          BY <2>8 DEF Accept
        <5>3. lpc' \in [Lives -> LoopStates]
          BY <5>1
        <5>4. failed' \in [Lives -> BOOLEAN]
          BY <5>2
        <5> QED
          BY <5>3, <5>4
      <4>5. /\ lans' \in [Lives -> Answers \cup {None}]
            /\ UNCHANGED <<globals, ngroups, gowner, busy, lgrp, lnew, slots, clients, history>>
        BY <2>8 DEF Accept
      <4> QED
        BY <4>1, <4>3, <4>4, <4>5
    <3>2. CASE UNCHANGED <<gst, gans, failed>> /\ Goto(l, "check")
      BY <2>8, <3>2 DEF Accept
    <3> QED
      BY <2>8, <3>1, <3>2 DEF Accept
  <2>9. CASE WaitConnected(l)
    BY <2>9 DEF WaitConnected
  <2>10. CASE Create(l)
    BY <2>10 DEF Create
  <2>11. CASE CreateFails(l)
    BY <2>11 DEF CreateFails
  <2>12. CASE PostOffers(l)
    BY <2>12 DEF PostOffers
  <2>13. CASE PostOffersFails(l)
    <3>1. offer' \in [Lives -> Groups \cup {None}]
      BY <2>13 DEF PostOffersFails
    <3>2. gst' \in [Groups -> GroupStates]
      BY <2>13 DEF PostOffersFails
    <3>3. /\ faults' \in 0..MaxFaults /\ lnew' \in [Lives -> Groups \cup {None}]
          /\ failed' \in [Lives -> BOOLEAN] /\ lpc' \in [Lives -> LoopStates]
      BY <2>13 DEF PostOffersFails
    <3>4. UNCHANGED <<globals, ngroups, gans, gowner, busy, lgrp, lans, answer, clients, taken,
                      clearLost, late>>
      BY <2>13 DEF PostOffersFails
    <3> QED
      BY <3>1, <3>2, <3>3, <3>4
  <2>14. CASE Swap(l)
    <3>1. lgrp[l] \in Groups
      BY <2>14 DEF Swap, OwnGroups, Owned
    <3>2. gst' \in [Groups -> GroupStates]
      BY <2>14 DEF Swap
    <3>3. busy' \in SUBSET Groups /\ draining' \in SUBSET Groups
      BY <2>14, <3>1 DEF Swap
    <3>4. /\ active' \in Groups \cup {None} /\ lgrp' \in [Lives -> Groups \cup {None}]
          /\ lnew' \in [Lives -> Groups \cup {None}] /\ late' \in BOOLEAN
          /\ lpc' \in [Lives -> LoopStates] /\ mu' = None /\ dead' = {}
      BY <2>14 DEF Swap, Publish
    <3>5. UNCHANGED <<running, life, cancelled, todo, ngroups, gans, gowner, lans, failed,
                      slots, clients, taken, faults, clearLost>>
      BY <2>14 DEF Swap, Publish
    <3> QED
      BY <3>2, <3>3, <3>4, <3>5
  <2>15. CASE SwapLook(l)
    <3>1. lgrp[l] \in Groups
      BY <2>15 DEF SwapLook, OwnGroups, Owned
    <3>2. dead' \in SUBSET Groups /\ mu' = l /\ lpc' \in [Lives -> LoopStates]
      BY <2>15, <3>1 DEF SwapLook
    <3> QED
      BY <2>15, <3>2 DEF SwapLook
  <2>16. CASE ReapBegin(l)
    <3>1. mu' \in Lives \cup {None} /\ todo' \in SUBSET Groups
      BY <2>16 DEF ReapBegin
    <3>2. Goto(l, "check") \/ Goto(l, "reaping")
      BY <2>16 DEF ReapBegin
    <3>4. lpc' \in [Lives -> LoopStates]
      BY <3>2
    <3>3. UNCHANGED <<running, life, active, draining, cancelled, dead, groups, lgrp, lnew, lans,
                      failed, slots, clients, history>>
      BY <2>16 DEF ReapBegin
    <3> QED
      BY <3>1, <3>3, <3>4
  <2>17. CASE ReapLook(l)
    BY <2>17 DEF ReapLook
  <2>18. CASE ReapStop(l)
    BY <2>18 DEF ReapStop
  <2>19. CASE ReapEnd(l)
    BY <2>19 DEF ReapEnd
  <2> QED
    BY <1>3, <2>1, <2>2, <2>3, <2>4, <2>5, <2>6, <2>7, <2>8, <2>9, <2>10, <2>11,
       <2>12, <2>13, <2>14, <2>15, <2>16, <2>17, <2>18, <2>19 DEF LoopStep
<1>4. CASE Environment
  <2>1. ASSUME NEW g \in Groups, NEW from, NEW to \in GroupStates, ICE(g, from, to),
               busy' \in SUBSET Groups
        PROVE  TypeOK'
    BY <2>1 DEF ICE
  <2>5. ASSUME NEW g \in Groups, Connected(g) \/ Disconnected(g) \/ Failed(g)
        PROVE  TypeOK'
    BY <2>1, <2>5 DEF Connected, Disconnected, Failed
  <2>6. ASSUME NEW g \in Groups, StreamOpens(g) PROVE TypeOK'
    BY <2>6 DEF StreamOpens
  <2>7. ASSUME NEW g \in Groups, StreamCloses(g) PROVE TypeOK'
    BY <2>7 DEF StreamCloses
  <2>2. ASSUME NEW c \in Clients, PostAnswer(c) PROVE TypeOK'
    <3>1. cget[c][2] \in Groups \cup {None}
      OBVIOUS
    <3>2. nans + 1 \in Answers
      BY <2>2 DEF PostAnswer
    <3>3. afor' \in [Answers -> Groups \cup {None}]
      BY <2>2, <3>1, <3>2 DEF PostAnswer
    <3>4. answer' \in [Lives -> Answers \cup {None}]
      BY <2>2, <3>2 DEF PostAnswer
    <3>5. cget' \in [Clients -> (Lives \cup {None}) \X (Groups \cup {None})]
      BY <2>2 DEF PostAnswer
    <3>6. /\ nans' \in 0..MaxAnswers /\ cpc' \in [Clients -> {"idle", "answer"}]
          /\ UNCHANGED <<globals, groups, loops, offer, history>>
      BY <2>2, <3>2 DEF PostAnswer
    <3> QED
      BY <3>3, <3>4, <3>5, <3>6
  <2>3. ASSUME NEW c \in Clients, NEW l \in Lives, ReadOffer(c, l) PROVE TypeOK'
    BY <2>3 DEF ReadOffer
  <2>4. ASSUME NEW l \in Lives, SlotsVanish(l) PROVE TypeOK'
    BY <2>4 DEF SlotsVanish
  <2> QED
    BY <1>4, <2>2, <2>3, <2>4, <2>5, <2>6, <2>7 DEF Environment
<1>5. CASE UNCHANGED vars
  BY <1>5 DEF vars
<1> QED
  BY <1>1, <1>2, <1>3, <1>4, <1>5 DEF Next

(* A step of loop l that only moves its control state. *)
MovesOn(l) ==
    /\ UNCHANGED <<running, life, active, draining, cancelled, ngroups, gst, gowner, lgrp,
                   lnew, late>>
    /\ \A k \in Lives \ {l} : lpc'[k] = lpc[k]
    /\ lpc[l] # "none" /\ lpc'[l] # "none"
    /\ lpc[l] \in Preparing <=> lpc'[l] \in Preparing

(* The waits, the requests and the decisions of the loop are such steps. *)
LEMMA QuietSteps ==
    ASSUME TypeOK, NEW l \in Lives,
           \/ Check(l) \/ Take(l) \/ WaitFails(l) \/ Repost(l) \/ RepostLost(l)
           \/ Clear(l) \/ ClearLost(l) \/ WaitConnected(l) \/ CreateFails(l) \/ PostOffers(l)
           \/ SwapLook(l) \/ ReapBegin(l) \/ ReapLook(l) \/ ReapEnd(l)
    PROVE  MovesOn(l)
<1>1. lpc \in [Lives -> LoopStates]
  BY DEF TypeOK
<1>2. CASE SwapLook(l) \/ ReapBegin(l) \/ ReapLook(l) \/ ReapEnd(l)
  BY <1>1, <1>2 DEF SwapLook, ReapBegin, ReapLook, ReapEnd, MovesOn, Preparing, Goto, groups, loops, history
<1>3. CASE ~(SwapLook(l) \/ ReapBegin(l) \/ ReapLook(l) \/ ReapEnd(l))
  BY <1>1, <1>3 DEF Check, Take, WaitFails, Repost, RepostLost, Clear, ClearLost, WaitConnected,
     CreateFails, PostOffers, MovesOn, Preparing, Goto, globals, groups, loops, history
<1> QED
  BY <1>2, <1>3

(* What ICE, the clients and the signaling server do to the server: a group  *)
(* that was answered changes its state, a slot may lose its offers.          *)
Spares ==
    /\ UNCHANGED <<running, life, active, draining, cancelled, todo, dead, ngroups, gowner,
                   lpc, lgrp, lnew, late>>
    /\ \A g \in Groups : \/ gst'[g] = gst[g]
                         \/ /\ gst[g] \in {"accepted", "up", "shaky"}
                            /\ gst'[g] \in {"up", "shaky", "failed"}
    /\ \A l \in Lives : offer'[l] \in {offer[l], None}

(* Every step of the environment is of that kind. *)
LEMMA EnvironmentSpares ==
    ASSUME TypeOK, Environment
    PROVE  Spares
<1> USE DEF TypeOK, globals, groups, loops, slots, clients, history
<1>1. ASSUME NEW g \in Groups, Connected(g) PROVE Spares
  BY <1>1 DEF Connected, ICE, Spares
<1>2. ASSUME NEW g \in Groups, Disconnected(g) PROVE Spares
  BY <1>2 DEF Disconnected, ICE, Spares
<1>3. ASSUME NEW g \in Groups, Failed(g) PROVE Spares
  BY <1>3 DEF Failed, ICE, Spares
<1>4. ASSUME NEW g \in Groups, StreamOpens(g) \/ StreamCloses(g) PROVE Spares
  BY <1>4 DEF StreamOpens, StreamCloses, Spares
<1>5. ASSUME NEW c \in Clients, PostAnswer(c) PROVE Spares
  BY <1>5 DEF PostAnswer, Spares
<1>6. ASSUME NEW c \in Clients, NEW l \in Lives, ReadOffer(c, l) PROVE Spares
  BY <1>6 DEF ReadOffer, Spares
<1>7. ASSUME NEW l \in Lives, SlotsVanish(l) PROVE Spares
  BY <1>7 DEF SlotsVanish, Spares
<1> QED
  BY <1>1, <1>2, <1>3, <1>4, <1>5, <1>6, <1>7 DEF Environment

(* The counters are within their bounds. *)
LEMMA Counted ==
    ASSUME TypeOK
    PROVE  life \in 0..MaxLives /\ ngroups \in 0..MaxGroups
  BY DEF TypeOK

(* Groups stay with the life that created them. *)
LEMMA OwnStep == TypeOK /\ Looked /\ OwnGroups /\ [Next]_vars => OwnGroups'
<1> SUFFICES ASSUME TypeOK, Looked, OwnGroups, [Next]_vars PROVE OwnGroups'
  OBVIOUS
<1>0. /\ life \in 0..MaxLives /\ ngroups \in 0..MaxGroups
      /\ active \in Groups \cup {None} /\ draining \in SUBSET Groups
      /\ gst \in [Groups -> GroupStates] /\ gowner \in [Groups -> Lives \cup {None}]
      /\ lpc \in [Lives -> LoopStates] /\ lgrp \in [Lives -> Groups \cup {None}]
      /\ lnew \in [Lives -> Groups \cup {None}] /\ dead \in SUBSET Groups
  BY DEF TypeOK
<1> USE <1>0, BoundsAssumption DEF Lives, Groups,
        globals, groups, loops, slots, clients, history, CreateGroup, NewGroup,
        Goto, StopGroups, OwnGroups, FreshGroups, Owned, Preparing
<1>1. CASE StartServer
  <2>0. /\ ngroups' = ngroups + 1 /\ ngroups' \in Groups /\ life' = life + 1 /\ active' = ngroups'
        /\ gst' = [gst EXCEPT ![ngroups'] = "offered"] /\ UNCHANGED draining
        /\ gowner' = [gowner EXCEPT ![ngroups'] = life']
    BY <1>1 DEF StartServer
  <2>1. FreshGroups' /\ \A g \in Groups : (gowner[g] <= life)'
    BY <2>0
  <2>2. ASSUME NEW l \in Lives PROVE Owned(l)'
    <3>1. CASE l = life + 1
      <4>1. lpc'[l] = "check" /\ lgrp'[l] = ngroups' /\ lnew'[l] = lnew[l] /\ life' = l
        BY <1>1, <3>1 DEF StartServer
      <4>2. ngroups' \in Groups /\ gowner'[ngroups'] = l
        BY <1>1, <3>1 DEF StartServer
      <4>3. lnew[l] = None
        BY <3>1
      <4> QED
        BY <4>1, <4>2, <4>3
    <3>2. CASE l # life + 1
      <4>1. lpc'[l] = lpc[l] /\ lgrp'[l] = lgrp[l] /\ UNCHANGED lnew
        BY <1>1, <3>2 DEF StartServer
      <4>2. \A g \in 1..ngroups : gst'[g] = gst[g] /\ gowner'[g] = gowner[g]
        BY <1>1 DEF StartServer
      <4>3. life' = life + 1 /\ ngroups' = ngroups + 1
        BY <1>1 DEF StartServer
      <4> QED
        BY <3>2, <4>1, <4>2, <4>3
    <3> QED
      BY <3>1, <3>2
  <2> QED
    BY <2>1, <2>2
<1>2. CASE StopServer
  <2>1. \A g \in Groups : gst'[g] = gst[g] \/ (gst'[g] = "stopped" /\ g \in {active} \cup draining)
    BY <1>2 DEF StopServer
  <2>2. UNCHANGED <<life, ngroups, gowner, lpc, lgrp, lnew>>
    BY <1>2 DEF StopServer
  <2>3. active' = None /\ draining' = {}
    BY <1>2 DEF StopServer
  <2>4. \A k \in Lives : Owned(k)'
    BY <2>1, <2>2
  <2>5. FreshGroups'
    BY <2>1, <2>2, <2>3
  <2> QED
    BY <2>2, <2>4, <2>5
<1>3. ASSUME NEW l \in Lives, LoopStep(l) PROVE OwnGroups'
  <2>1. CASE MovesOn(l)
    <3>1. UNCHANGED <<life, active, draining, ngroups, gst, gowner, lgrp, lnew>>
      BY <2>1 DEF MovesOn
    <3>2. FreshGroups' /\ \A g \in Groups : (gowner[g] <= life)'
      BY <3>1
    <3>3. ASSUME NEW k \in Lives PROVE Owned(k)'
      <4>1. /\ lpc'[k] = "none" <=> lpc[k] = "none"
            /\ lpc'[k] \in Preparing <=> lpc[k] \in Preparing
        BY <2>1 DEF MovesOn
      <4>2. Owned(k)
        OBVIOUS
      <4> HIDE <1>0 DEF Preparing
      <4> QED
        BY <3>1, <4>1, <4>2
    <3> QED
      BY <3>2, <3>3
  <2>8. CASE Accept(l)
    <3>1. lgrp[l] \in Groups /\ gowner[lgrp[l]] = l
      BY <2>8 DEF Accept
    <3>2. CASE SetAnswer(lgrp[l], lans[l])
      <4>1. gst' = [gst EXCEPT ![lgrp[l]] = "accepted"] /\ gst[lgrp[l]] = "offered"
        BY <3>2 DEF SetAnswer
      <4>2. UNCHANGED <<life, active, draining, ngroups, gowner, lgrp, lnew>>
        BY <2>8 DEF Accept
      <4>3. FreshGroups'
        BY <3>1, <4>1, <4>2
      <4>4. \A k \in Lives : Owned(k)'
        <5>1. /\ lpc[l] = "accept" /\ lpc'[l] \in {"connect", "check"}
              /\ \A k \in Lives \ {l} : lpc'[k] = lpc[k]
          BY <2>8 DEF Accept
        <5>2. \A g \in Groups \ {lgrp[l]} : gst'[g] = gst[g]
          BY <4>1
        <5>3. Owned(l)'
          BY <4>2, <5>1
        <5>4. ASSUME NEW k \in Lives \ {l} PROVE Owned(k)'
          <6>1. lpc[k] \in Preparing => lnew[k] \in Groups \ {lgrp[l]}
            BY <3>1
          <6>2. Owned(k)
            OBVIOUS
          <6> HIDE <1>0 DEF Preparing
          <6> QED
            BY <4>2, <5>1, <5>2, <6>1, <6>2
        <5> QED
          BY <5>3, <5>4
      <4> QED
        BY <4>2, <4>3, <4>4
    <3>3. CASE UNCHANGED gst /\ Goto(l, "check")
      <4>2. MovesOn(l)
        BY <2>8, <3>3 DEF Accept, MovesOn
      <4> QED
        BY <2>1, <4>2
    <3> QED
      BY <2>8, <3>2, <3>3 DEF Accept
  <2>10. CASE Create(l)
    <3>1. FreshGroups' /\ \A g \in Groups : (gowner[g] <= life)'
      BY <2>10 DEF Create
    <3>2. \A g \in 1..ngroups : gst'[g] = gst[g] /\ gowner'[g] = gowner[g]
      BY <2>10 DEF Create
    <3>3. ngroups' = ngroups + 1 /\ ngroups' \in Groups /\ UNCHANGED <<life, lgrp>>
      BY <2>10 DEF Create
    <3>4. gst'[ngroups'] = "offered" /\ gowner'[ngroups'] = l
      BY <2>10 DEF Create
    <3>5. ASSUME NEW k \in Lives, k # l PROVE Owned(k)'
      BY <2>10, <3>2, <3>3, <3>5 DEF Create
    <3>6. Owned(l)'
      BY <2>10, <3>2, <3>3, <3>4 DEF Create
    <3>7. ASSUME NEW k \in Lives PROVE Owned(k)'
      <4>1. CASE k = l
        BY <3>6, <4>1, Zenon
      <4>2. CASE k # l
        BY <3>5, <4>2, Zenon
      <4> QED
        BY <4>1, <4>2
    <3> QED
      BY <3>1, <3>7
  <2>13. CASE PostOffersFails(l)
    <3>1. FreshGroups' /\ \A g \in Groups : (gowner[g] <= life)'
      BY <2>13 DEF PostOffersFails
    <3>2. ASSUME NEW k \in Lives PROVE Owned(k)'
      BY <2>13 DEF PostOffersFails
    <3> QED
      BY <3>1, <3>2
  <2>14. CASE Swap(l)
    <3>1. lgrp[l] \in 1..ngroups /\ lnew[l] \in 1..ngroups
      BY <2>14 DEF Swap
    <3>2. \A g \in Groups : gst'[g] = gst[g] \/ (gst'[g] = "stopped" /\ g <= ngroups)
      BY <2>14 DEF Swap, Looked
    <3>3. draining' \subseteq draining \cup {lgrp[l]}
      BY <2>14 DEF Swap
    <3>6. \A g \in draining' \cup {active'} : g <= ngroups
      BY <2>14, <3>1, <3>3 DEF Swap, Publish
    <3>5. UNCHANGED <<ngroups, gowner, life>>
      BY <2>14 DEF Swap, Publish
    <3>4. ASSUME NEW k \in Lives PROVE Owned(k)'
      BY <2>14, <3>1, <3>2 DEF Swap, Publish
    <3>7. FreshGroups'
      BY <3>1, <3>2, <3>5, <3>6
    <3> QED
      BY <3>4, <3>5, <3>7
  <2>15. CASE ReapStop(l)
    <3>1. \A g \in Groups : gst'[g] = gst[g] \/ (gst'[g] = "stopped" /\ g <= ngroups)
      BY <2>15 DEF ReapStop, Looked
    <3>2. UNCHANGED <<life, active, ngroups, gowner, lpc, lgrp, lnew>> /\ draining' \subseteq draining
      BY <2>15 DEF ReapStop
    <3>3. \A k \in Lives : Owned(k)'
      BY <3>1, <3>2
    <3>4. FreshGroups'
      BY <3>1, <3>2
    <3> QED
      BY <3>2, <3>3, <3>4
  <2> QED
    BY <1>3, <2>1, <2>8, <2>10, <2>13, <2>14, <2>15, QuietSteps DEF LoopStep
<1>4. CASE Environment
  <2>1. Spares
    BY <1>4, EnvironmentSpares
  <2>2. UNCHANGED <<life, active, draining, ngroups, gowner, lpc, lgrp, lnew>>
    BY <2>1 DEF Spares
  <2>3. \A g \in Groups : gst[g] \in {"none", "offered", "stopped"} => gst'[g] = gst[g]
    BY <2>1 DEF Spares
  <2>4. ASSUME NEW k \in Lives PROVE Owned(k)'
    <3>1. lpc[k] \in Preparing => lnew[k] \in Groups /\ gst[lnew[k]] \in {"offered", "stopped"}
      OBVIOUS
    <3> QED
      BY <2>2, <2>3, <3>1
  <2>5. FreshGroups'
    BY <2>2, <2>3
  <2> QED
    BY <2>2, <2>4, <2>5
<1>5. CASE UNCHANGED vars
  BY <1>5 DEF vars
<1> QED
  BY <1>1, <1>2, <1>3, <1>4, <1>5 DEF Next

(* A group leaves the loop's hands only by draining or after Stop. *)
LEMMA NoGroupLostStep ==
    ASSUME TypeOK, OwnGroups, running => life \in Lives, NoGroupLost, [Next]_vars
    PROVE  NoGroupLost'
<1> USE BoundsAssumption DEF NoGroupLost, Live
<1>1. CASE StartServer
  <2>1. ngroups' = ngroups + 1 /\ life' = life + 1 /\ life' \in Lives /\ lgrp'[life'] = ngroups'
    BY <1>1 DEF StartServer, CreateGroup, NewGroup, TypeOK, Lives
  <2>2. \A g \in Groups : g # ngroups' => gowner'[g] <= life
    BY <1>1 DEF StartServer, CreateGroup, NewGroup, TypeOK, OwnGroups
  <2> QED
    BY <2>1, <2>2 DEF TypeOK
<1>2. CASE StopServer
  BY <1>2 DEF StopServer
<1>3. ASSUME NEW l \in Lives, LoopStep(l) PROVE NoGroupLost'
  <2>1. CASE MovesOn(l)
    BY <2>1 DEF MovesOn
  <2>2. CASE Accept(l)
    <3>1. \A g \in Groups : gst'[g] # gst[g] => gst[g] = "offered"
      BY <2>2 DEF Accept, SetAnswer, TypeOK
    <3> QED
      BY <2>2, <3>1 DEF Accept, globals
  <2>3. CASE Create(l)
    <3>1. ngroups' = ngroups + 1 /\ lnew' = [lnew EXCEPT ![l] = ngroups'] /\ lnew[l] = None
      BY <2>3 DEF Create, CreateGroup, NewGroup, OwnGroups, Owned, Preparing
    <3>2. UNCHANGED <<running, life, draining, lgrp>>
      BY <2>3 DEF Create, globals
    <3>3. \A g \in Groups : g # ngroups' => gst'[g] = gst[g] /\ gowner'[g] = gowner[g]
      BY <2>3 DEF Create, CreateGroup, NewGroup, TypeOK
    <3>4. gowner'[ngroups'] = l
      BY <2>3 DEF Create, CreateGroup, NewGroup, TypeOK, Groups
    <3>5. ASSUME NEW g \in Groups, running', gowner'[g] = life', Live(g)', g = ngroups'
          PROVE  g = lnew'[life']
      BY <3>1, <3>2, <3>4, <3>5 DEF TypeOK
    <3>6. ASSUME NEW g \in Groups, running', gowner'[g] = life', Live(g)', g # ngroups'
          PROVE  g \in {lgrp'[life'], lnew'[life']} \cup draining'
      <4>1. g \in {lgrp[life], lnew[life]} \cup draining
        BY <3>2, <3>3, <3>6
      <4>2. g # None
        BY DEF Groups, None
      <4> QED
        BY <3>1, <3>2, <4>1, <4>2 DEF TypeOK
    <3> QED
      BY <3>5, <3>6
  <2>4. CASE PostOffersFails(l)
    BY <2>4 DEF PostOffersFails, StopGroups, globals, TypeOK
  <2>5. CASE Swap(l)
    <3>1. lgrp[l] \in draining' \/ gst'[lgrp[l]] = "stopped"
      <4>0. l \in Nat /\ life \in Nat /\ ngroups \in 0..MaxGroups /\ lpc[l] # "none"
        BY <2>5, Counted, BoundsAssumption DEF Swap, Lives
      <4>1. lgrp[l] \in Groups
        BY <4>0, BoundsAssumption DEF OwnGroups, Owned, Groups
      <4> QED
        BY <2>5, <4>1 DEF Swap, StopGroups
    <3>2. draining \subseteq draining' /\ \A g \in Groups : gst'[g] \in {gst[g], "stopped"}
      BY <2>5 DEF Swap, StopGroups
    <3>3. lgrp' = [lgrp EXCEPT ![l] = lnew[l]] /\ lnew' = [lnew EXCEPT ![l] = None]
      BY <2>5 DEF Swap, Publish
    <3>4. UNCHANGED <<running, life, gowner>>
      BY <2>5 DEF Swap, Publish
    <3> QED
      BY <3>1, <3>2, <3>3, <3>4 DEF TypeOK
  <2>6. CASE ReapStop(l)
    BY <2>6 DEF ReapStop, StopGroups, loops
  <2> QED
    BY <1>3, <2>1, <2>2, <2>3, <2>4, <2>5, <2>6, QuietSteps DEF LoopStep
<1>4. CASE Environment
  BY <1>4, EnvironmentSpares DEF Spares
<1>5. CASE UNCHANGED vars
  BY <1>5 DEF vars, globals, groups, loops
<1> QED
  BY <1>1, <1>2, <1>3, <1>4, <1>5 DEF Next

(* What the holder of mu looks at drains, or is the loop's current group. *)
LEMMA LookedStep ==
    ASSUME TypeOK, OwnGroups, Looked, [Next]_vars
    PROVE  Looked'
<1>0. /\ ngroups \in Nat /\ todo \in SUBSET Groups /\ dead \in SUBSET Groups
      /\ draining \in SUBSET Groups /\ \A g \in Groups : g \in Nat
  BY BoundsAssumption DEF TypeOK, Groups
<1>1. CASE StartServer
  BY <1>0, <1>1 DEF StartServer, CreateGroup, NewGroup, Looked
<1>2. CASE StopServer
  BY <1>2 DEF StopServer, Looked
<1>3. ASSUME NEW l \in Lives, LoopStep(l) PROVE Looked'
  <2>1. CASE Check(l) \/ Take(l) \/ WaitFails(l) \/ Repost(l) \/ RepostLost(l) \/ Clear(l)
             \/ ClearLost(l) \/ Accept(l) \/ WaitConnected(l) \/ CreateFails(l) \/ PostOffers(l)
             \/ PostOffersFails(l)
    <3>1. UNCHANGED <<todo, dead, ngroups>>
      BY <2>1 DEF Check, Take, WaitFails, Repost, RepostLost, Clear, ClearLost, Accept,
                  WaitConnected, CreateFails, PostOffers, PostOffersFails, globals, groups
    <3> QED
      BY <3>1 DEF Looked
  <2>2. CASE Create(l)
    BY <1>0, <2>2 DEF Create, CreateGroup, NewGroup, globals, Looked
  <2>3. CASE SwapLook(l)
    <3>1. lgrp[l] \in 1..ngroups
      BY <2>3, Counted, BoundsAssumption DEF SwapLook, OwnGroups, Owned, Lives
    <3>2. todo' = todo /\ ngroups' = ngroups /\ dead' \subseteq {lgrp[l]}
      BY <2>3 DEF SwapLook, groups
    <3> QED
      BY <1>0, <3>1, <3>2 DEF Looked
  <2>4. CASE Swap(l)
    BY <2>4 DEF Swap, Publish, Looked
  <2>5. CASE ReapBegin(l)
    BY <2>5 DEF ReapBegin, groups, Looked, OwnGroups, FreshGroups
  <2>6. CASE ReapLook(l)
    BY <2>6 DEF ReapLook, groups, Looked
  <2>7. CASE ReapStop(l) \/ ReapEnd(l)
    BY <2>7 DEF ReapStop, ReapEnd, groups, Looked
  <2> QED
    BY <1>3, <2>1, <2>2, <2>3, <2>4, <2>5, <2>6, <2>7 DEF LoopStep
<1>4. CASE Environment
  BY <1>4, EnvironmentSpares DEF Spares, Looked
<1>5. CASE UNCHANGED vars
  BY <1>5 DEF vars, globals, groups, Looked
<1> QED
  BY <1>1, <1>2, <1>3, <1>4, <1>5 DEF Next

(* The slot of a session holds the offers of the group its loop will publish *)
(* or has published, or nothing, or those of a group that was stopped.       *)
OffersOwn ==
    \A l \in Lives :
       \/ offer[l] = None
       \/ offer[l] = IF lpc[l] \in {"swap", "swapping"} THEN lnew[l] ELSE lgrp[l]
       \/ gst[offer[l]] = "stopped"

(* A stopped group stays stopped, so what a lost response left in the slot is *)
(* harmless from then on.                                                    *)
LEMMA OffersOwnStep ==
    ASSUME TypeOK, OwnGroups, OffersOwn, [Next]_vars
    PROVE  OffersOwn'
<1>0. lpc \in [Lives -> LoopStates] /\ offer \in [Lives -> Groups \cup {None}] /\ gst \in [Groups -> GroupStates]
      /\ lgrp \in [Lives -> Groups \cup {None}] /\ lnew \in [Lives -> Groups \cup {None}]
  BY DEF TypeOK
<1> USE <1>0 DEF OffersOwn
<1>1. CASE StartServer
  <2>0. ngroups + 1 \in Groups /\ ngroups + 1 > ngroups /\ life + 1 \in Lives /\ life + 1 > life
    BY <1>1, Counted, BoundsAssumption DEF StartServer, CreateGroup, Lives, Groups
  <2>1. gst[ngroups + 1] = "none" /\ ngroups + 1 \in Groups /\ lpc[life + 1] = "none" /\ life + 1 \in Lives
    BY <2>0 DEF OwnGroups, FreshGroups, Owned
  <2> QED
    BY <1>1, <2>1 DEF StartServer, CreateGroup, NewGroup, PostSDPOffers, Goto
<1>2. CASE StopServer
  BY <1>2 DEF StopServer, StopGroups, loops, slots
<1>3. ASSUME NEW l \in Lives, LoopStep(l) PROVE OffersOwn'
  <2>1. CASE MovesOn(l) /\ UNCHANGED offer /\ lpc'[l] \notin {"swap", "swapping"} /\ lpc[l] \notin {"swap", "swapping"}
    BY <2>1 DEF MovesOn
  <2>2. CASE Repost(l)
    BY <2>2 DEF Repost, PostSDPOffers, Goto, groups
  <2>3. CASE PostOffers(l)
    BY <2>3 DEF PostOffers, PostSDPOffers, Goto, groups
  <2>4. CASE Check(l) \/ Take(l) \/ WaitFails(l) \/ RepostLost(l) \/ Clear(l) \/ ClearLost(l)
             \/ WaitConnected(l) \/ CreateFails(l) \/ ReapBegin(l) \/ ReapLook(l) \/ ReapEnd(l)
    <3>1. MovesOn(l)
      BY <2>4, QuietSteps
    <3>2. UNCHANGED offer /\ lpc'[l] \notin {"swap", "swapping"} /\ lpc[l] \notin {"swap", "swapping"}
      BY <2>4 DEF Check, Take, WaitFails, RepostLost, Clear, ClearLost, WaitConnected,
                  CreateFails, ReapBegin, ReapLook, ReapEnd, Goto, loops, slots
    <3> QED
      BY <2>1, <3>1, <3>2
  <2>5. CASE Accept(l)
    BY <2>5 DEF Accept, SetAnswer, Goto, slots
  <2>6. CASE Create(l)
    <3>0. ngroups + 1 \in Groups /\ ngroups + 1 > ngroups
      BY <2>6, Counted, BoundsAssumption DEF Create, CreateGroup, Groups
    <3>1. gst[ngroups + 1] = "none" /\ ngroups + 1 \in Groups
      BY <3>0 DEF OwnGroups, FreshGroups
    <3> QED
      BY <2>6, <3>1 DEF Create, CreateGroup, NewGroup, Goto, slots
  <2>7. CASE PostOffersFails(l)
    <3>1. lnew[l] \in Groups
      <4>1. lpc[l] = "post"
        BY <2>7 DEF PostOffersFails
      <4>2. lnew[l] \in 1..ngroups /\ lnew[l] # None
        BY <4>1 DEF OwnGroups, Owned, Preparing, None
      <4>3. QED BY <4>2
    <3> QED
      BY <2>7, <3>1 DEF PostOffersFails, PostSDPOffers, StopGroups, Goto
  <2>8. CASE Swap(l)
    <3>1. \A g \in Groups : gst'[g] \in {gst[g], "stopped"}
      BY <2>8 DEF Swap, StopGroups
    <3> QED
      BY <2>8, <3>1 DEF Swap, Publish, Goto, slots
  <2>9. CASE SwapLook(l)
    BY <2>9 DEF SwapLook, Goto, groups, slots
  <2>10. CASE ReapStop(l)
    BY <2>10 DEF ReapStop, StopGroups, loops, slots
  <2> QED
    BY <1>3, <2>2, <2>3, <2>4, <2>5, <2>6, <2>7, <2>8, <2>9, <2>10 DEF LoopStep
<1>4. CASE Environment
  BY <1>4, EnvironmentSpares DEF Spares
<1>5. CASE UNCHANGED vars
  BY <1>5 DEF vars, groups, loops, slots
<1> QED
  BY <1>1, <1>2, <1>3, <1>4, <1>5 DEF Next

(* Answers are numbered as they are posted, each is in one slot only, and one *)
(* that was taken is in its slot only until the loop clears it.              *)
AnswersOwn ==
    /\ \A c \in Clients : cpc[c] = "answer" => cget[c][1] \in Lives
    /\ \A l \in Lives : answer[l] <= nans
    /\ \A a \in taken : a <= nans
    /\ \A k, l \in Lives : answer[k] = answer[l] /\ answer[k] # None => k = l
    /\ ~clearLost => \A l \in Lives : answer[l] \in taken => lpc[l] = "clear"

(* A step that leaves the answers and the clients alone. *)
LeavesAnswers ==
    /\ UNCHANGED <<answer, taken, nans, clearLost, cpc, cget>>
    /\ \A l \in Lives : lpc[l] = "clear" => lpc'[l] = "clear"

(* Only Take, Clear, PostAnswer and the loss of a slot touch the answers. *)
LEMMA AnswersOwnStep ==
    ASSUME TypeOK, OwnGroups, AnswersOwn, [Next]_vars
    PROVE  AnswersOwn'
<1>0. /\ lpc \in [Lives -> LoopStates] /\ answer \in [Lives -> Answers \cup {None}]
      /\ taken \subseteq Answers /\ nans \in Nat
      /\ cpc \in [Clients -> {"idle", "answer"}]
      /\ cget \in [Clients -> (Lives \cup {None}) \X (Groups \cup {None})]
  BY DEF TypeOK
<1>1. LeavesAnswers => AnswersOwn'
  BY DEF LeavesAnswers, AnswersOwn
<1>2. CASE StartServer
  <2>0. life + 1 \in Lives /\ life + 1 > life
    BY <1>2, Counted, BoundsAssumption DEF StartServer, Lives
  <2>1. life + 1 \in Lives /\ lpc[life + 1] = "none"
    BY <2>0 DEF OwnGroups, Owned
  <2> QED
    BY <1>0, <1>1, <1>2, <2>1 DEF StartServer, Goto, clients, history, LeavesAnswers
<1>3. CASE StopServer
  BY <1>1, <1>3 DEF StopServer, loops, slots, clients, history, LeavesAnswers
<1>4. ASSUME NEW l \in Lives, LoopStep(l) PROVE AnswersOwn'
  <2> USE <1>0 DEF Goto, slots, clients, history
  <2>1. CASE Take(l)
    <3>1. /\ UNCHANGED <<answer, nans, clearLost, cpc, cget>>
          /\ taken' = taken \cup {answer[l]} /\ lpc' = [lpc EXCEPT ![l] = "clear"]
          /\ answer[l] # None
      BY <2>1 DEF Take, Answered
    <3> QED
      BY <3>1 DEF AnswersOwn
  <2>2. CASE Clear(l)
    <3>1. /\ UNCHANGED <<taken, nans, clearLost, cpc, cget>>
          /\ answer' = [answer EXCEPT ![l] = None]
          /\ \A k \in Lives \ {l} : lpc'[k] = lpc[k]
      BY <2>2 DEF Clear, PostSDPAnswers
    <3>2. None \notin taken
      BY DEF None, Answers
    <3> QED
      BY <3>1, <3>2 DEF AnswersOwn, None
  <2>3. CASE ClearLost(l)
    BY <2>3 DEF ClearLost, AnswersOwn
  <2>4. CASE Check(l) \/ WaitFails(l) \/ Repost(l) \/ RepostLost(l) \/ WaitConnected(l)
             \/ Create(l) \/ CreateFails(l) \/ PostOffers(l) \/ PostOffersFails(l)
    <3>1. LeavesAnswers
      BY <2>4 DEF Check, WaitFails, Repost, RepostLost, WaitConnected, Create, CreateFails,
                  PostOffers, PostOffersFails, LeavesAnswers
    <3> QED
      BY <1>1, <3>1
  <2>5. CASE Accept(l)
    BY <1>1, <2>5 DEF Accept, LeavesAnswers
  <2>6. CASE Swap(l)
    BY <1>1, <2>6 DEF Swap, Publish, LeavesAnswers
  <2>7. CASE SwapLook(l) \/ ReapBegin(l) \/ ReapLook(l) \/ ReapStop(l) \/ ReapEnd(l)
    BY <1>1, <2>7 DEF SwapLook, ReapBegin, ReapLook, ReapStop, ReapEnd, loops, LeavesAnswers
  <2> QED
    BY <1>4, <2>1, <2>2, <2>3, <2>4, <2>5, <2>6, <2>7 DEF LoopStep
<1>5. CASE Environment
  <2> USE <1>0 DEF loops, slots, clients, history
  <2>1. ASSUME NEW g \in Groups, \/ Connected(g) \/ Disconnected(g) \/ Failed(g)
                                 \/ StreamOpens(g) \/ StreamCloses(g)
        PROVE  AnswersOwn'
    <3>1. LeavesAnswers
      BY <2>1 DEF Connected, Disconnected, Failed, ICE, StreamOpens, StreamCloses, LeavesAnswers
    <3> QED
      BY <1>1, <3>1
  <2>2. ASSUME NEW c \in Clients, PostAnswer(c) PROVE AnswersOwn'
    <3>1. cget[c][1] \in Lives
      BY <2>2 DEF PostAnswer, AnswersOwn
    <3>2. /\ nans' = nans + 1 /\ answer' = [answer EXCEPT ![cget[c][1]] = nans + 1]
          /\ UNCHANGED <<taken, clearLost, lpc>>
      BY <2>2 DEF PostAnswer, PostSDPAnswers
    <3>3. cpc' = [cpc EXCEPT ![c] = "idle"] /\ cget' = [cget EXCEPT ![c] = <<None, None>>]
      BY <2>2 DEF PostAnswer
    <3>4. \A d \in Clients : cpc'[d] = "answer" => cget'[d][1] \in Lives
      BY <3>3 DEF AnswersOwn
    <3>5. \A k \in Lives : answer[k] \in Nat /\ answer[k] < nans + 1
      BY DEF AnswersOwn, Answers, None
    <3>6. \A a \in taken : a \in Nat /\ a < nans + 1
      BY DEF AnswersOwn, Answers
    <3>7. PICK j \in Lives : j = cget[c][1]
      BY <3>1
    <3>8. answer'[j] = nans + 1 /\ \A k \in Lives \ {j} : answer'[k] = answer[k]
      BY <3>2, <3>7
    <3>9. (\A k \in Lives : answer'[k] <= nans') /\ \A a \in taken' : a <= nans'
      BY <3>2, <3>5, <3>6, <3>8
    <3>10. \A k, l \in Lives : answer'[k] = answer'[l] /\ answer'[k] # None => k = l
      BY <3>5, <3>8 DEF AnswersOwn
    <3>11. ~clearLost' => \A l \in Lives : answer'[l] \in taken' => lpc'[l] = "clear"
      BY <3>2, <3>6, <3>8 DEF AnswersOwn
    <3> QED
      BY <3>4, <3>9, <3>10, <3>11 DEF AnswersOwn
  <2>3. ASSUME NEW c \in Clients, NEW l \in Lives, ReadOffer(c, l) PROVE AnswersOwn'
    <3>1. /\ UNCHANGED <<answer, taken, nans, clearLost, lpc>>
          /\ cget' = [cget EXCEPT ![c] = <<l, offer[l]>>] /\ cpc' = [cpc EXCEPT ![c] = "answer"]
      BY <2>3 DEF ReadOffer
    <3>2. \A d \in Clients : cpc'[d] = "answer" => cget'[d][1] \in Lives
      BY <3>1 DEF AnswersOwn
    <3> QED
      BY <3>1, <3>2 DEF AnswersOwn
  <2>4. ASSUME NEW l \in Lives, SlotsVanish(l) PROVE AnswersOwn'
    <3>1. /\ UNCHANGED <<taken, nans, clearLost, cpc, cget, lpc>>
          /\ answer' = [answer EXCEPT ![l] = None]
      BY <2>4 DEF SlotsVanish
    <3>2. None \notin taken
      BY DEF None, Answers
    <3> QED
      BY <3>1, <3>2 DEF AnswersOwn, None
  <2> QED
    BY <1>5, <2>1, <2>2, <2>3, <2>4 DEF Environment
<1>6. CASE UNCHANGED vars
  BY <1>1, <1>6 DEF vars, loops, slots, clients, history, LeavesAnswers
<1> QED
  BY <1>2, <1>3, <1>4, <1>5, <1>6 DEF Next

(* A running server has a life. *)
RunningLife == running => life \in Lives

(* The context of a life is done unless it is the running one.  Until a late *)
(* publication, the active group is the current one of the running loop.     *)
Current ==
    /\ \A l \in Lives : l <= life => (cancelled[l] <=> ~(running /\ l = life))
    /\ \A l \in Lives : l > life => ~cancelled[l]
    /\ ~late => active = IF running THEN lgrp[life] ELSE None

(* The inductive invariant. *)
AcceptInv ==
    /\ TypeOK /\ OwnGroups /\ Looked /\ RunningLife /\ Current
    /\ NoGroupLost /\ NoGroupOutlives /\ OffersOwn /\ AnswersOwn

(* serverRunning is set by StartServer alone. *)
LEMMA RunningLifeStep ==
    ASSUME TypeOK, RunningLife, [Next]_vars
    PROVE  RunningLife'
<1>1. StartServer => life' \in Lives
  BY Counted, BoundsAssumption DEF StartServer, Lives
<1>2. ~StartServer => (running' => running) /\ UNCHANGED life
  <2>1. StopServer => ~running' /\ UNCHANGED life
    BY DEF StopServer
  <2>2. ASSUME NEW l \in Lives, LoopStep(l) PROVE UNCHANGED <<running, life>>
    BY <2>2, QuietSteps DEF LoopStep, MovesOn, Accept, Create, PostOffersFails, Swap, Publish, ReapStop, globals
  <2>3. Environment => UNCHANGED <<running, life>>
    BY EnvironmentSpares DEF Spares
  <2> QED
    BY <2>1, <2>2, <2>3 DEF Next, vars, globals
<1> QED
  BY <1>1, <1>2 DEF RunningLife

(* A loop that is not cancelled is that of the running server. *)
LEMMA CurrentStep ==
    ASSUME TypeOK, OwnGroups, RunningLife, Current, [Next]_vars
    PROVE  Current'
<1>0. /\ life \in 0..MaxLives /\ cancelled \in [Lives -> BOOLEAN] /\ \A l \in Lives : l \in Nat
      /\ lgrp \in [Lives -> Groups \cup {None}] /\ running \in BOOLEAN
  BY BoundsAssumption DEF TypeOK, Lives
<1>1. CASE StartServer
  <2>1. /\ ~running /\ running' /\ life' = life + 1 /\ life' \in Lives
        /\ active' = NewGroup /\ lgrp'[life'] = NewGroup /\ UNCHANGED <<cancelled, late>>
    BY <1>0, <1>1, BoundsAssumption DEF StartServer, Lives, history
  <2> QED
    BY <1>0, <2>1 DEF Current
<1>2. CASE StopServer
  <2>1. life \in Lives
    BY <1>2 DEF StopServer, RunningLife
  <2>2. /\ running /\ ~running' /\ cancelled' = [cancelled EXCEPT ![life] = TRUE]
        /\ active' = None /\ UNCHANGED life
    BY <1>2 DEF StopServer
  <2> QED
    BY <1>0, <2>1, <2>2 DEF Current
<1>3. ASSUME NEW l \in Lives, LoopStep(l) PROVE Current'
  <2>1. CASE UNCHANGED <<running, life, active, cancelled, lgrp, late>>
    BY <2>1 DEF Current
  <2>2. CASE Swap(l)
    <3>1. /\ UNCHANGED <<running, life, cancelled>> /\ lgrp' = [lgrp EXCEPT ![l] = lnew[l]]
          /\ active' = lnew[l] /\ late' = (late \/ cancelled[l])
      BY <2>2 DEF Swap, Publish
    <3>2. l <= life
      BY <1>0, <2>2 DEF Swap, OwnGroups, Owned
    <3>3. ~late' => running /\ l = life
      BY <3>1, <3>2 DEF Current
    <3> QED
      BY <1>0, <3>1, <3>3 DEF Current
  <2>3. CASE Accept(l) \/ Create(l) \/ PostOffersFails(l) \/ ReapStop(l)
    BY <2>1, <2>3 DEF Accept, Create, PostOffersFails, ReapStop, globals, loops, history
  <2>4. CASE MovesOn(l)
    BY <2>1, <2>4 DEF MovesOn
  <2> QED
    BY <1>3, <2>2, <2>3, <2>4, QuietSteps DEF LoopStep
<1>4. CASE Environment
  <2>1. UNCHANGED <<running, life, active, cancelled, lgrp, late>>
    BY <1>4, EnvironmentSpares DEF Spares
  <2> QED
    BY <2>1 DEF Current
<1>5. CASE UNCHANGED vars
  BY <1>5 DEF vars, globals, loops, history, Current
<1> QED
  BY <1>1, <1>2, <1>3, <1>4, <1>5 DEF Next

(* The holders of a group that something will stop. *)
Held == {active} \cup draining \cup {lnew[l] : l \in Lives}

(* A group passes from the loop's new one to the active one to the draining  *)
(* ones, or is stopped.                                                      *)
LEMMA NoGroupOutlivesStep ==
    ASSUME TypeOK, OwnGroups, RunningLife, Current, NoGroupOutlives, [Next]_vars
    PROVE  NoGroupOutlives'
<1>0. /\ gst \in [Groups -> GroupStates] /\ lnew \in [Lives -> Groups \cup {None}]
      /\ lgrp \in [Lives -> Groups \cup {None}] /\ None \notin Groups
  BY DEF TypeOK, Groups
<1>1. SUFFICES ASSUME NEW g \in Groups, ~late', Live(g)' PROVE g \in Held'
  BY <1>0 DEF NoGroupOutlives, Held
<1>2. ~late /\ Live(g) => g \in Held
  BY DEF NoGroupOutlives, Held
<1>3. CASE StartServer
  <2>1. /\ active = None /\ active' = ngroups + 1 /\ UNCHANGED <<draining, lnew, late>>
        /\ gst' = [gst EXCEPT ![ngroups + 1] = "offered"]
    BY <1>1, <1>3 DEF StartServer, CreateGroup, NewGroup, history, Current
  <2>2. g # ngroups + 1 => Live(g)
    BY <1>0, <1>1, <2>1 DEF Live
  <2> QED
    BY <1>0, <1>1, <1>2, <2>1, <2>2 DEF Held
<1>4. CASE StopServer
  <2>1. /\ gst' = [h \in Groups |-> IF h \in {active} \cup draining THEN "stopped" ELSE gst[h]]
        /\ UNCHANGED <<lnew, late>>
    BY <1>4 DEF StopServer, StopGroups, loops, history
  <2>2. Live(g) /\ g \notin {active} \cup draining
    BY <1>0, <1>1, <2>1 DEF Live
  <2> QED
    BY <1>1, <1>2, <2>1, <2>2 DEF Held
<1>5. ASSUME NEW l \in Lives, LoopStep(l) PROVE g \in Held'
  <2>1. CASE UNCHANGED <<active, draining, lnew, late>> /\ (Live(g)' => Live(g))
    BY <1>1, <1>2, <2>1 DEF Held
  <2>2. CASE MovesOn(l)
    BY <2>1, <2>2 DEF MovesOn, Live
  <2>3. CASE Accept(l)
    <3>1. UNCHANGED <<active, draining, lnew, late>>
      BY <2>3 DEF Accept, globals, history
    <3>2. Live(g)' => Live(g)
      BY <1>0, <2>3 DEF Accept, SetAnswer, Live
    <3> QED
      BY <2>1, <3>1, <3>2
  <2>4. CASE Create(l)
    <3>1. /\ lnew' = [lnew EXCEPT ![l] = ngroups + 1] /\ UNCHANGED <<active, draining, late>>
          /\ gst' = [gst EXCEPT ![ngroups + 1] = "offered"]
      BY <2>4 DEF Create, CreateGroup, NewGroup, globals, history
    <3>2. lnew[l] = None
      BY <2>4 DEF Create, OwnGroups, Owned, Preparing
    <3>3. CASE g = ngroups + 1
      BY <1>0, <3>1, <3>3 DEF Held
    <3>4. CASE g # ngroups + 1
      <4>1. g \in Held
        BY <1>0, <1>1, <1>2, <3>1, <3>4 DEF Live
      <4> QED
        BY <1>0, <3>1, <3>2, <4>1 DEF Held
    <3> QED
      BY <3>3, <3>4
  <2>5. CASE PostOffersFails(l)
    <3>1. /\ lnew' = [lnew EXCEPT ![l] = None] /\ UNCHANGED <<active, draining, late>>
          /\ gst' = [h \in Groups |-> IF h \in {lnew[l]} THEN "stopped" ELSE gst[h]]
      BY <2>5 DEF PostOffersFails, StopGroups, globals
    <3>2. Live(g) /\ g # lnew[l]
      BY <1>0, <1>1, <3>1 DEF Live
    <3>3. g \in Held
      BY <1>1, <1>2, <3>1, <3>2
    <3> QED
      BY <1>0, <3>1, <3>2, <3>3 DEF Held
  <2>6. CASE Swap(l)
    <3>1. /\ lnew' = [lnew EXCEPT ![l] = None] /\ active' = lnew[l]
          /\ draining' = draining \cup ({lgrp[l]} \ dead)
          /\ late' = (late \/ cancelled[l])
          /\ gst' = [h \in Groups |-> IF h \in dead THEN "stopped" ELSE gst[h]]
      BY <2>6 DEF Swap, Publish, StopGroups
    <3>2. life \in Nat /\ l \in Nat /\ l <= life
      BY <2>6, Counted, BoundsAssumption DEF Swap, OwnGroups, Owned, Lives
    <3>3. active = lgrp[l]
      BY <1>1, <3>1, <3>2 DEF Current
    <3>4. Live(g) /\ g \notin dead
      BY <1>0, <1>1, <3>1 DEF Live
    <3>5. g \in Held
      BY <1>1, <1>2, <3>1, <3>4
    <3> QED
      BY <1>0, <3>1, <3>3, <3>4, <3>5 DEF Held
  <2>7. CASE ReapStop(l)
    <3>1. /\ UNCHANGED <<active, lnew, late>> /\ draining' = draining \ dead
          /\ gst' = [h \in Groups |-> IF h \in dead THEN "stopped" ELSE gst[h]]
      BY <2>7 DEF ReapStop, StopGroups, loops, history
    <3>2. Live(g) /\ g \notin dead
      BY <1>0, <1>1, <3>1 DEF Live
    <3> QED
      BY <1>1, <1>2, <3>1, <3>2 DEF Held
  <2> QED
    BY <1>5, <2>2, <2>3, <2>4, <2>5, <2>6, <2>7, QuietSteps DEF LoopStep
<1>6. CASE Environment
  <2>1. UNCHANGED <<active, draining, lnew, late>>
    BY <1>6, EnvironmentSpares DEF Spares
  <2>2. Live(g)
    BY <1>1, <1>6, EnvironmentSpares DEF Spares, Live
  <2> QED
    BY <1>1, <1>2, <2>1, <2>2 DEF Held
<1>7. CASE UNCHANGED vars
  BY <1>1, <1>2, <1>7 DEF vars, globals, groups, loops, history, Held, Live
<1> QED
  BY <1>3, <1>4, <1>5, <1>6, <1>7 DEF Next

(* It holds before the first StartServer. *)
LEMMA AcceptInit == Init => AcceptInv
<1> SUFFICES ASSUME Init PROVE AcceptInv
  OBVIOUS
<1> USE BoundsAssumption DEF Init, Lives, Groups, Answers
<1>1. TypeOK
  <2>1. cget \in [Clients -> (Lives \cup {None}) \X (Groups \cup {None})]
    OBVIOUS
  <2>2. gst \in [Groups -> GroupStates] /\ lpc \in [Lives -> LoopStates]
    BY DEF GroupStates, LoopStates
  <2>3. gans \in [Groups -> Answers \cup {None}] /\ gowner \in [Groups -> Lives \cup {None}]
    OBVIOUS
  <2>4. /\ lgrp \in [Lives -> Groups \cup {None}] /\ lnew \in [Lives -> Groups \cup {None}]
        /\ lans \in [Lives -> Answers \cup {None}]
        /\ cancelled \in [Lives -> BOOLEAN] /\ failed \in [Lives -> BOOLEAN]
    OBVIOUS
  <2>5. /\ offer \in [Lives -> Groups \cup {None}] /\ answer \in [Lives -> Answers \cup {None}]
        /\ afor \in [Answers -> Groups \cup {None}] /\ cpc \in [Clients -> {"idle", "answer"}]
    OBVIOUS
  <2>6. /\ life \in 0..MaxLives /\ ngroups \in 0..MaxGroups /\ nans \in 0..MaxAnswers
        /\ faults \in 0..MaxFaults
    OBVIOUS
  <2> QED
    BY <2>1, <2>2, <2>3, <2>4, <2>5, <2>6 DEF TypeOK
<1>2. OwnGroups
  BY DEF OwnGroups, FreshGroups, Owned, Preparing
<1>3. RunningLife /\ NoGroupLost /\ OffersOwn
  BY DEF RunningLife, NoGroupLost, OffersOwn
<1>5. Looked /\ Current /\ NoGroupOutlives
  BY DEF Looked, Current, NoGroupOutlives, Live
<1>4. AnswersOwn
  BY DEF AnswersOwn
<1> QED
  BY <1>1, <1>2, <1>3, <1>4, <1>5 DEF AcceptInv

(* It is kept by every step. *)
LEMMA AcceptInvariant == Spec => []AcceptInv
<1>1. AcceptInv /\ [Next]_vars => AcceptInv'
  BY TypeStep, OwnStep, LookedStep, RunningLifeStep, CurrentStep, NoGroupLostStep,
     NoGroupOutlivesStep, OffersOwnStep, AnswersOwnStep DEF AcceptInv, RunningLife
<1> QED
  BY AcceptInit, <1>1, PTL DEF Spec

(* While the server runs, every group that its accept loop created and that  *)
(* has not been stopped is the loop's current or new group, or drains:       *)
(* api.go's swap, its error path and cleanupDrainingServerGroups lose none.  *)
THEOREM GroupsKept == Spec => []NoGroupLost
BY AcceptInvariant, PTL DEF AcceptInv

(* While the loop waits for answers, clients read the offers of its current  *)
(* group, or none, or those of a group stopped after PostSDPOffers failed.   *)
THEOREM OffersAgree == Spec => []OfferAgrees
<1>1. AcceptInv => OfferAgrees
  BY DEF AcceptInv, OffersOwn, OfferAgrees
<1> QED
  BY AcceptInvariant, <1>1, PTL

(* Every group with open sockets will be stopped: it is active, drains, or   *)
(* is the new group of a loop, through any sequence of starts and stops,     *)
(* until a loop publishes its new group after StopServer ended its server.   *)
THEOREM GroupsEnd == Spec => []NoGroupOutlives
BY AcceptInvariant, PTL DEF AcceptInv

(* The loop takes an answer again only after a lost PostSDPAnswers(nil). *)
THEOREM AnswersTakenOnce == Spec => AnswerTakenOnce
<1>1. AcceptInv /\ [Next]_vars
        => [\A l \in Lives : lpc[l] = "wait" /\ lpc'[l] = "clear" /\ answer[l] \in taken => clearLost]_vars
  BY DEF AcceptInv, AnswersOwn
<1> QED
  BY AcceptInvariant, <1>1, PTL DEF Spec, AnswerTakenOnce

=============================================================================
