----------------------------- MODULE FriendProofs -----------------------------
(***************************************************************************)
(* Proofs about low power nodes and their friends.  Friendship: for any    *)
(* low power nodes, friend nodes, slots of a friend node and number of     *)
(* retries, no session of a low power node is served by two friends; a     *)
(* friend the node has left frees its slot, and a node that was dropped    *)
(* finds out.                                                              *)
(* FriendQueue: for any size of the mailbox and number of retries, only    *)
(* what was accepted is dropped in a first round, and in order; every item *)
(* leaves the mailbox, or the low power node its friend.                   *)
(***************************************************************************)
EXTENDS Friendship, FriendQueue, WellFoundedInduction, TLAPS

-----------------------------------------------------------------------------
(* Friendship: the inductive invariant *)

LpnStates == [st : {"request", "offer", "poll", "update", "friend"}, fn : Fn \cup {None},
              cnt : 0 .. MaxCounter, fri : Nat, pre : Fn \cup {None}, retry : 0 .. PollRetries]
SlotStates == [st : {"idle", "offer", "poll", "check"}, lpn : Lpn \cup {None}, link : BOOLEAN,
               cnt : 0 .. MaxCounter, pre : Fn \cup {None}, fri : Nat, offered : BOOLEAN,
               answer : BOOLEAN, clearDelay : BOOLEAN, clearPoll : BOOLEAN]

Polling(l) == lpn[l].st \in {"update", "friend"}

\* What is in the air.  A request is of the present session of the low power node, and so
\* is a poll, which goes to the friend that the node has chosen: a new request comes after
\* the messages of the session before are heard or lost.
AirOK ==
    \A m \in air :
        /\ m.op = "offer" => m.src \in Fn /\ m.par \in Nat
        /\ m.op = "request" => /\ m.lpn \in Lpn /\ m.par \in Fn \cup {None}
                               /\ m.cnt = lpn[m.lpn].cnt
        /\ m.op = "poll" => m.lpn \in Lpn /\ Polling(m.lpn) /\ m = PollOf(m.lpn)

\* A low power node that waits for the answer to a poll has chosen.
RetriesOK == \A l \in Lpn : lpn[l].retry > 0 => Polling(l)

\* What a slot keeps of a low power node: no counter that the node has not sent, and, when
\* the node has chosen, no offer of an earlier session.
SlotOK(s) ==
    /\ s.lpn \in Lpn => s.cnt <= lpn[s.lpn].cnt
    /\ s.st \in {"offer", "poll"} <=> s.offered
    /\ s.offered => /\ s.lpn \in Lpn
                    /\ lpn[s.lpn].st = "poll" \/ Polling(s.lpn) => s.cnt = lpn[s.lpn].cnt

\* Who serves the present session of a low power node is the friend it chose; before it
\* has chosen nobody does.
PresentIsChosen ==
    \A l \in Lpn, f \in Fn, i \in Slots :
        IsFriend(f, i, l) /\ slot[f][i].cnt = lpn[l].cnt =>
            /\ lpn[l].st \notin {"offer", "poll"}
            /\ Polling(l) => lpn[l].fn = f

FriendInv ==
    /\ TypeOK /\ AirOK /\ RetriesOK /\ PresentIsChosen /\ OneFriendPerSession
    /\ \A f \in Fn, i \in Slots : SlotOK(slot[f][i])

-----------------------------------------------------------------------------
(* Steps that change one slot, and the messages of friend nodes *)

\* TypeOK by the names above.
LEMMA Types ==
  TypeOK <=> /\ lpn \in [Lpn -> LpnStates] /\ \A l \in Lpn : Polling(l) => lpn[l].fn # None
             /\ slot \in [Fn -> [Slots -> SlotStates]] /\ friCnt \in [Fn -> [Slots -> Nat]]
BY DEF TypeOK, LpnStates, SlotStates, Polling

\* A slot that changes as allowed keeps the invariant: a link is one of before, or a new one
\* with the friend that the low power node has chosen for its present session.
LEMMA SlotChange ==
  ASSUME FriendInv, NEW f \in Fn, NEW i \in Slots, NEW s \in SlotStates, Put(f, i, s),
         UNCHANGED lpn, friCnt' \in [Fn -> [Slots -> Nat]], AirOK', SlotOK(s),
         s.link /\ s.lpn \in Lpn =>
            \/ IsFriend(f, i, s.lpn) /\ s.cnt = slot[f][i].cnt
            \/ s.cnt = lpn[s.lpn].cnt /\ Polling(s.lpn) /\ lpn[s.lpn].fn = f
  PROVE  FriendInv'
<1>1. /\ lpn \in [Lpn -> LpnStates] /\ \A l \in Lpn : Polling(l) => lpn[l].fn # None
      /\ slot \in [Fn -> [Slots -> SlotStates]]
  BY Types DEF FriendInv
<1>2. slot' \in [Fn -> [Slots -> SlotStates]]
  BY <1>1 DEF Put
<1>3. \A g \in Fn, j \in Slots : slot'[g][j] = IF g = f /\ j = i THEN s ELSE slot[g][j]
  BY <1>1 DEF Put
<1>4. TypeOK'
  <2>1. /\ lpn' \in [Lpn -> LpnStates] /\ \A l \in Lpn : Polling(l)' => lpn'[l].fn # None
    BY <1>1 DEF Polling
  <2> QED
    BY <1>2, <2>1 DEF TypeOK, LpnStates, SlotStates, Polling
<1>5. \A g \in Fn, j \in Slots : SlotOK(slot[g][j])'
  BY <1>3 DEF FriendInv, SlotOK, Polling
<1>6. \A l \in Lpn, g \in Fn, j \in Slots :
         IsFriend(g, j, l)' /\ slot'[g][j].cnt = lpn[l].cnt =>
            lpn[l].st \notin {"offer", "poll"} /\ (Polling(l) => lpn[l].fn = g)
  BY <1>3 DEF FriendInv, PresentIsChosen, IsFriend, Polling
<1>7. PresentIsChosen'
  BY <1>6 DEF PresentIsChosen, Polling
<1>8. OneFriendPerSession'
  <2> SUFFICES ASSUME NEW l \in Lpn, NEW g \in Fn, NEW h \in Fn, NEW j \in Slots, NEW k \in Slots,
                      IsFriend(g, j, l)', IsFriend(h, k, l)', slot'[g][j].cnt = slot'[h][k].cnt
               PROVE  g = h
    BY DEF OneFriendPerSession
  <2>1. \A e \in Fn, n \in Slots : IsFriend(e, n, l)' =>
           \/ IsFriend(e, n, l) /\ slot'[e][n].cnt = slot[e][n].cnt
           \/ slot'[e][n].cnt = lpn[l].cnt /\ Polling(l) /\ lpn[l].fn = e
    BY <1>3 DEF IsFriend
  <2>2. CASE IsFriend(g, j, l) /\ slot'[g][j].cnt = slot[g][j].cnt /\
             IsFriend(h, k, l) /\ slot'[h][k].cnt = slot[h][k].cnt
    BY <2>2 DEF FriendInv, OneFriendPerSession
  <2>3. CASE slot'[g][j].cnt = lpn[l].cnt /\ Polling(l)
    BY <2>3, <1>6
  <2>4. CASE slot'[h][k].cnt = lpn[l].cnt /\ Polling(l)
    BY <2>4, <1>6
  <2> QED
    BY <2>1, <2>2, <2>3, <2>4
<1> QED
  BY <1>4, <1>5, <1>7, <1>8 DEF FriendInv, RetriesOK, Polling

\* Messages that only friend nodes send, or fewer messages, do not disturb what is in the air.
LEMMA AirChange ==
  ASSUME AirOK, UNCHANGED lpn,
         \A m \in air' : m \in air \/ m.op \in {"update", "clear", "conf"}
  PROVE  AirOK'
BY DEF AirOK, PollOf, Polling

\* Nothing but the air changes.
LEMMA Same ==
  ASSUME FriendInv, UNCHANGED <<lpn, slot, friCnt>>, AirOK'
  PROVE  FriendInv'
BY DEF FriendInv, TypeOK, RetriesOK, PresentIsChosen, OneFriendPerSession, SlotOK, IsFriend, Polling

\* The first slot of a set.
LEMMA MinFirst ==
  ASSUME NEW S \in SUBSET Slots, S # {}
  PROVE  MinOf(S) \in S /\ \A j \in S : MinOf(S) <= j
<1>1. S \subseteq Nat
  BY FriendshipAssumption DEF Slots
<1>2. PICK n \in S : \A m \in S : <<m, n>> \notin OpToRel(<, Nat)
  BY <1>1, NatLessThanWellFounded, WFMin
<1>3. ASSUME NEW m \in S PROVE n <= m
  <2>1. n \in Nat /\ m \in Nat
    BY <1>1, <1>2, <1>3
  <2>2. ~(m < n)
    BY <1>2, <1>3, <2>1 DEF OpToRel
  <2> QED
    BY <2>1, <2>2
<1> QED
  BY <1>3 DEF MinOf

LEMMA MinIn ==
  ASSUME NEW S \in SUBSET Slots, S # {}
  PROVE  MinOf(S) \in S
BY MinFirst

\* The states of slots that the handlers build.
LEMMA SlotTypes ==
  /\ FreeSlot \in SlotStates
  /\ \A s \in SlotStates : ProcInit(s) \in SlotStates /\ StopClear(s) \in SlotStates
  /\ \A f, s : s \in SlotStates => Polled(f, s) \in SlotStates
<1>1. 0 \in 0 .. MaxCounter
  BY FriendshipAssumption
<1>2. FreeSlot \in SlotStates
  BY <1>1 DEF FreeSlot, SlotStates
<1>3. ASSUME NEW s \in SlotStates PROVE ProcInit(s) \in SlotStates /\ StopClear(s) \in SlotStates
  BY DEF ProcInit, StopClear, SlotStates
<1>4. ASSUME NEW f, NEW s \in SlotStates PROVE Polled(f, s) \in SlotStates
  <2> DEFINE q == ProcInit(s)
             t == IF s.offered
                  THEN [q EXCEPT !.link = TRUE, !.clearDelay = s.pre \notin {None, f}] ELSE s
  <2>1. q \in SlotStates
    BY <1>3
  <2> HIDE DEF q
  <2>2. t \in SlotStates /\ Polled(f, s) = [t EXCEPT !.answer = TRUE, !.st = "check"]
    BY <2>1 DEF Polled, SlotStates, q
  <2> HIDE DEF t
  <2> QED
    BY <2>2 DEF SlotStates
<1> QED
  BY <1>2, <1>3, <1>4

\* The states of low power nodes that the handlers build.
LEMMA LpnTypes ==
  ASSUME NEW p \in LpnStates
  PROVE  /\ p.cnt \in Nat /\ p.retry \in Nat /\ p.retry <= PollRetries
         /\ p.fn \in Fn \cup {None} /\ p.pre \in Fn \cup {None}
         /\ Requesting(p) \in LpnStates /\ Requesting(p).st = "request"
         /\ Requesting(p).cnt = p.cnt /\ Requesting(p).retry = 0
<1>1. 0 \in 0 .. PollRetries /\ MaxCounter \in Nat /\ PollRetries \in Nat
  BY FriendshipAssumption
<1>2. p.cnt \in Nat /\ p.retry \in Nat /\ p.retry <= PollRetries
  BY <1>1 DEF LpnStates
<1>3. Requesting(p) \in LpnStates
  BY <1>1 DEF LpnStates, Requesting
<1> QED
  BY <1>2, <1>3 DEF LpnStates, Requesting

\* A slot that is freed, or stops clearing, keeps the invariant.
LEMMA FreeSlotOK == SlotOK(FreeSlot) /\ ~FreeSlot.link
BY FriendshipAssumption DEF SlotOK, FreeSlot

\* A friend that stops sending Friend Clear.
LEMMA StopClearInv ==
  ASSUME FriendInv, NEW f \in Fn, NEW i \in Slots, Put(f, i, StopClear(slot[f][i])),
         UNCHANGED <<lpn, friCnt>>, AirOK'
  PROVE  FriendInv'
<1> DEFINE s == slot[f][i]
           t == StopClear(s)
<1>1. s \in SlotStates /\ SlotOK(s) /\ t \in SlotStates /\ friCnt \in [Fn -> [Slots -> Nat]]
  BY Types, SlotTypes DEF FriendInv
<1>2. t.st = s.st /\ t.link = s.link /\ t.lpn = s.lpn /\ t.cnt = s.cnt /\ t.offered = s.offered
  BY <1>1 DEF SlotStates, StopClear
<1>3. SlotOK(t)
  BY <1>1, <1>2 DEF SlotOK
<1> QED
  BY <1>1, <1>2, <1>3, SlotChange DEF IsFriend

-----------------------------------------------------------------------------
(* The steps of a friend node *)

\* Requests, and what a slot does by itself.
LEMMA RequestInv ==
  ASSUME FriendInv, NEW f \in Fn, NEW m \in air, RxRequest(f, m)
  PROVE  FriendInv'
<1>1. /\ lpn \in [Lpn -> LpnStates] /\ slot \in [Fn -> [Slots -> SlotStates]]
      /\ friCnt \in [Fn -> [Slots -> Nat]]
  BY Types DEF FriendInv
<1>2. AirOK' /\ UNCHANGED <<lpn, friCnt>>
  BY AirChange DEF FriendInv, RxRequest
<1>3. m.lpn \in Lpn /\ m.par \in Fn \cup {None} /\ m.cnt = lpn[m.lpn].cnt
  BY DEF RxRequest, FriendInv, AirOK
<1>4. CASE Takers(f, m.lpn) # {}
  <2> DEFINE i == MinOf(Takers(f, m.lpn))
             s == [FreeSlot EXCEPT !.st = "offer", !.lpn = m.lpn, !.cnt = m.cnt,
                                   !.pre = m.par, !.offered = TRUE]
  <2>1. i \in Slots /\ Put(f, i, s)
    <3>1. Takers(f, m.lpn) \subseteq Slots
      BY DEF Takers
    <3>2. \A S \in SUBSET Slots : S # {} => MinOf(S) \in S
      BY MinIn
    <3> QED
      BY <1>4, <3>1, <3>2 DEF RxRequest
  <2>2. s \in SlotStates
    BY <1>1, <1>3, SlotTypes DEF FreeSlot, SlotStates, LpnStates
  <2>3. SlotOK(s) /\ ~s.link
    BY <1>1, <1>3 DEF SlotOK, FreeSlot, LpnStates
  <2> QED
    BY <1>1, <1>2, <2>1, <2>2, <2>3, SlotChange
<1>5. CASE Takers(f, m.lpn) = {}
  BY <1>2, <1>5, Same DEF RxRequest
<1> QED
  BY <1>4, <1>5

\* The timers of a slot.
LEMMA SlotStepInv ==
  ASSUME FriendInv, NEW f \in Fn, NEW i \in Slots, SlotStep(f, i)
  PROVE  FriendInv'
<1> DEFINE s == slot[f][i]
<1>1. /\ friCnt \in [Fn -> [Slots -> Nat]] /\ s \in SlotStates /\ SlotOK(s)
  BY Types DEF FriendInv
<1>2. CASE SendOffer(f, i)
  <2> DEFINE fri == friCnt[f][i] + 1
             t == [s EXCEPT !.st = "poll", !.fri = fri]
  <2>1. /\ s.st = "offer" /\ friCnt' = [friCnt EXCEPT ![f][i] = fri] /\ Put(f, i, t)
        /\ air' = air \cup {Offer(f, s.lpn, fri)} /\ UNCHANGED lpn
    BY <1>2 DEF SendOffer
  <2>2. friCnt[f][i] \in Nat /\ fri \in Nat
    BY <1>1
  <2>3. friCnt' \in [Fn -> [Slots -> Nat]]
    BY <1>1, <2>1, <2>2
  <2>4. t \in SlotStates
    BY <1>1, <2>2 DEF SlotStates
  <2>5. /\ t.st = "poll" /\ t.link = s.link /\ t.lpn = s.lpn /\ t.cnt = s.cnt
        /\ t.offered = s.offered
    BY <1>1 DEF SlotStates
  <2>6. SlotOK(t)
    BY <1>1, <2>1, <2>5 DEF SlotOK
  <2>7. AirOK'
    BY <2>1, <2>2 DEF FriendInv, AirOK, Offer, Msg, PollOf, Polling
  <2> QED
    BY <2>1, <2>3, <2>4, <2>5, <2>6, <2>7, SlotChange DEF IsFriend
<1>3. CASE OfferTimeout(f, i)
  <2> DEFINE t == ProcInit(s)
  <2>1. Put(f, i, t) /\ UNCHANGED <<lpn, friCnt, air>>
    BY <1>3 DEF OfferTimeout
  <2>2. t \in SlotStates
    BY <1>1, SlotTypes
  <2>3. t.st = "idle" /\ t.link = s.link /\ t.lpn = s.lpn /\ t.cnt = s.cnt /\ t.offered = FALSE
    BY <1>1 DEF SlotStates, ProcInit
  <2>4. SlotOK(t)
    BY <1>1, <2>3 DEF SlotOK
  <2>5. AirOK'
    BY <2>1, AirChange DEF FriendInv
  <2> QED
    BY <1>1, <2>1, <2>2, <2>3, <2>4, <2>5, SlotChange DEF IsFriend
<1>4. CASE Respond(f, i)
  <2> DEFINE t == [s EXCEPT !.answer = FALSE, !.clearDelay = FALSE,
                            !.clearPoll = @ \/ s.clearDelay]
  <2>1. Put(f, i, t) /\ UNCHANGED <<lpn, friCnt>>
    BY <1>4 DEF Respond
  <2>2. t \in SlotStates
    BY <1>1 DEF SlotStates
  <2>3. t.st = s.st /\ t.link = s.link /\ t.lpn = s.lpn /\ t.cnt = s.cnt /\ t.offered = s.offered
    BY <1>1 DEF SlotStates
  <2>4. SlotOK(t)
    BY <1>1, <2>3 DEF SlotOK
  <2>5. AirOK'
    BY <1>4, <2>1, AirChange DEF FriendInv, Respond, Update, ClearOf, Clear, Msg
  <2> QED
    BY <1>1, <2>1, <2>2, <2>3, <2>4, <2>5, SlotChange DEF IsFriend
<1>5. CASE PollTimeout(f, i)
  <2>1. Put(f, i, FreeSlot) /\ UNCHANGED <<lpn, friCnt, air>>
    BY <1>5 DEF PollTimeout
  <2>2. AirOK'
    BY <2>1, AirChange DEF FriendInv
  <2> QED
    BY <1>1, <2>1, <2>2, FreeSlotOK, SlotTypes, SlotChange
<1>6. CASE ClearAgain(f, i)
  <2>1. AirOK'
    BY <1>6, AirChange DEF FriendInv, ClearAgain, ClearOf, Clear, Msg
  <2> QED
    BY <1>6, <2>1, Same DEF ClearAgain
<1>7. CASE ClearTimeout(f, i)
  <2>1. Put(f, i, StopClear(s)) /\ UNCHANGED <<lpn, friCnt, air>>
    BY <1>7 DEF ClearTimeout
  <2>2. AirOK'
    BY <2>1, AirChange DEF FriendInv
  <2> QED
    BY <1>1, <2>1, <2>2, StopClearInv
<1> QED
  BY <1>2, <1>3, <1>4, <1>5, <1>6, <1>7 DEF SlotStep

\* A poll: the slot it is handled at may be another one than the one that decodes it, but
\* a new link is of the present session and with the friend that was chosen.
LEMMA PollInv ==
  ASSUME FriendInv, NEW f \in Fn, NEW m \in air, RxPoll(f, m)
  PROVE  FriendInv'
<1>1. /\ slot \in [Fn -> [Slots -> SlotStates]] /\ friCnt \in [Fn -> [Slots -> Nat]]
  BY Types DEF FriendInv
<1>2. AirOK' /\ UNCHANGED <<lpn, friCnt>>
  BY AirChange DEF FriendInv, RxPoll
<1>3. m.lpn \in Lpn /\ Polling(m.lpn) /\ lpn[m.lpn].fn = f
  BY DEF RxPoll, FriendInv, AirOK, PollOf, Poll, Msg
<1>4. CASE Decodes(f, m) /\ OfLpn(f, m.lpn) # {}
  <2> DEFINE i == MinOf(OfLpn(f, m.lpn))
             s == slot[f][i]
             t == Polled(f, s)
  <2>1. i \in Slots /\ Put(f, i, t) /\ s.lpn = m.lpn
    <3>1. OfLpn(f, m.lpn) \in SUBSET Slots
      BY DEF OfLpn
    <3>2. i \in OfLpn(f, m.lpn)
      BY <1>4, <3>1, MinIn
    <3> QED
      BY <1>4, <3>2 DEF RxPoll, OfLpn
  <2>2. s \in SlotStates /\ t \in SlotStates /\ SlotOK(s)
    BY <1>1, <2>1, SlotTypes DEF FriendInv
  <2>3. t.st = "check" /\ t.offered = (IF s.offered THEN FALSE ELSE s.offered)
        /\ t.lpn = s.lpn /\ t.cnt = s.cnt /\ t.link = (s.offered \/ s.link)
    BY <2>2 DEF Polled, ProcInit, SlotStates
  <2>4. SlotOK(t)
    BY <2>2, <2>3 DEF SlotOK, SlotStates
  <2>5. s.offered => s.cnt = lpn[s.lpn].cnt
    BY <1>3, <2>1, <2>2 DEF SlotOK
  <2> QED
    BY <1>1, <1>2, <1>3, <2>1, <2>2, <2>3, <2>4, <2>5, SlotChange DEF IsFriend
<1>5. CASE ~(Decodes(f, m) /\ OfLpn(f, m.lpn) # {})
  BY <1>2, <1>5, Same DEF RxPoll
<1> QED
  BY <1>4, <1>5

\* Clears and their confirms.
LEMMA ClearInv ==
  ASSUME FriendInv, NEW f \in Fn, NEW m \in air, RxClear(f, m) \/ RxClearConf(f, m)
  PROVE  FriendInv'
<1>1. /\ slot \in [Fn -> [Slots -> SlotStates]] /\ friCnt \in [Fn -> [Slots -> Nat]]
  BY Types DEF FriendInv
<1>2. AirOK' /\ UNCHANGED <<lpn, friCnt>>
  BY AirChange DEF FriendInv, RxClear, RxClearConf, ClearConf, Msg
<1>3. CASE RxClear(f, m)
  <2> DEFINE hit == {i \in Slots : ClearHits(slot[f][i], m)}
  <2>1. CASE hit # {}
    <3>1. MinOf(hit) \in Slots
      BY <2>1, MinIn
    <3>2. Put(f, MinOf(hit), FreeSlot)
      BY <1>3, <2>1 DEF RxClear
    <3> QED
      BY <1>1, <1>2, <3>1, <3>2, FreeSlotOK, SlotTypes, SlotChange
  <2>2. CASE hit = {}
    BY <1>2, <1>3, <2>2, Same DEF RxClear
  <2> QED
    BY <2>1, <2>2
<1>4. CASE RxClearConf(f, m)
  <2> DEFINE on == {i \in Slots : slot[f][i].clearPoll /\ slot[f][i].lpn = m.lpn}
  <2>1. CASE on # {}
    <3>1. MinOf(on) \in Slots
      BY <2>1, MinIn
    <3>2. Put(f, MinOf(on), StopClear(slot[f][MinOf(on)]))
      BY <1>4, <2>1 DEF RxClearConf
    <3> QED
      BY <1>1, <1>2, <3>1, <3>2, StopClearInv
  <2>2. CASE on = {}
    BY <1>2, <1>4, <2>2, Same DEF RxClearConf
  <2> QED
    BY <2>1, <2>2
<1> QED
  BY <1>3, <1>4

-----------------------------------------------------------------------------
(* The steps of a low power node *)

\* How a low power node may change: only a new request takes a node that has a friend back
\* to choosing one, and only a node that chooses changes its choice; when it has chosen, all
\* offers are of its present session.
LpnMay(l, p) ==
    /\ p.st \in {"update", "friend"} => p.fn # None
    /\ p.retry > 0 => p.st \in {"update", "friend"}
    /\ lpn[l].cnt <= p.cnt
    /\ p.cnt = lpn[l].cnt =>
          /\ p.st \in {"offer", "poll"} => lpn[l].st \in {"offer", "poll"}
          /\ p.st \in {"update", "friend"} =>
                lpn[l].st = "poll" \/ (Polling(l) /\ p.fn = lpn[l].fn)
    /\ p.st \in {"poll", "update", "friend"} =>
          \A f \in Fn, i \in Slots :
             slot[f][i].offered /\ slot[f][i].lpn = l => slot[f][i].cnt = p.cnt

\* A low power node that changes, with the messages in the air.
LEMMA LpnChange ==
  ASSUME FriendInv, NEW l \in Lpn, NEW p \in LpnStates, lpn' = [lpn EXCEPT ![l] = p],
         UNCHANGED <<slot, friCnt>>, AirOK', LpnMay(l, p)
  PROVE  FriendInv'
<1>0. LpnMay(l, p) /\ lpn' = [lpn EXCEPT ![l] = p]
  OBVIOUS
<1>1. /\ lpn \in [Lpn -> LpnStates] /\ \A k \in Lpn : Polling(k) => lpn[k].fn # None
      /\ slot \in [Fn -> [Slots -> SlotStates]] /\ friCnt \in [Fn -> [Slots -> Nat]]
  BY Types DEF FriendInv
<1>2. lpn' \in [Lpn -> LpnStates] /\ \A k \in Lpn : lpn'[k] = IF k = l THEN p ELSE lpn[k]
  BY <1>1
<1>3. TypeOK'
  BY <1>0, <1>1, <1>2 DEF TypeOK, LpnStates, SlotStates, Polling, LpnMay
<1>4. ASSUME NEW f \in Fn, NEW i \in Slots PROVE SlotOK(slot[f][i])'
  <2>1. SlotOK(slot[f][i]) /\ slot[f][i] \in SlotStates
    BY <1>1 DEF FriendInv
  <2>2. slot[f][i].lpn = l => slot[f][i].cnt <= p.cnt
    BY <1>0, <1>1, <2>1 DEF SlotOK, LpnStates, SlotStates, LpnMay
  <2> QED
    BY <1>0, <1>2, <2>1, <2>2 DEF SlotOK, Polling, LpnMay
<1>5. PresentIsChosen'
  <2> SUFFICES ASSUME NEW k \in Lpn, NEW f \in Fn, NEW i \in Slots, IsFriend(f, i, k),
                      slot[f][i].cnt = lpn'[k].cnt
               PROVE  /\ lpn'[k].st \notin {"offer", "poll"}
                      /\ lpn'[k].st \in {"update", "friend"} => lpn'[k].fn = f
    BY DEF PresentIsChosen, IsFriend, Polling
  <2>1. CASE k # l
    BY <1>2, <2>1 DEF FriendInv, PresentIsChosen, Polling
  <2>2. CASE k = l
    <3>1. slot[f][i].cnt <= lpn[l].cnt
      BY <2>2 DEF FriendInv, SlotOK, IsFriend
    <3>2. slot[f][i].cnt = p.cnt /\ lpn[l].cnt \in Nat /\ p.cnt \in Nat
      BY <1>1, <1>2, <2>2, FriendshipAssumption DEF LpnStates
    <3>3. p.cnt = lpn[l].cnt
      BY <1>0, <3>1, <3>2 DEF LpnMay
    <3> QED
      BY <1>0, <1>2, <2>2, <3>3 DEF FriendInv, PresentIsChosen, Polling, LpnMay
  <2> QED
    BY <2>1, <2>2
<1>6. RetriesOK'
  BY <1>0, <1>2 DEF FriendInv, RetriesOK, Polling, LpnMay
<1> QED
  BY <1>3, <1>4, <1>5, <1>6 DEF FriendInv, OneFriendPerSession, IsFriend

\* A low power node begins a session.
LEMMA SendRequestInv ==
  ASSUME FriendInv, NEW l \in Lpn, SendRequest(l)
  PROVE  FriendInv'
<1> DEFINE q == Requesting(lpn[l])
           p == [q EXCEPT !.st = "offer", !.cnt = lpn[l].cnt + 1]
<1>1. lpn \in [Lpn -> LpnStates] /\ lpn[l] \in LpnStates
  BY Types DEF FriendInv
<1>2. /\ lpn[l].cnt < MaxCounter /\ lpn' = [lpn EXCEPT ![l] = p]
      /\ UNCHANGED <<slot, friCnt>>
  BY DEF SendRequest
<1>3. /\ p \in LpnStates /\ p.st = "offer" /\ p.cnt = lpn[l].cnt + 1 /\ lpn[l].cnt \in Nat
      /\ p.retry = 0 /\ lpn[l].pre \in Fn \cup {None}
  <2>1. /\ q \in LpnStates /\ q.retry = 0 /\ lpn[l].cnt \in Nat
        /\ lpn[l].pre \in Fn \cup {None}
    BY <1>1, LpnTypes
  <2> HIDE DEF q
  <2>2. lpn[l].cnt + 1 \in 0 .. MaxCounter
    BY <1>2, <2>1, FriendshipAssumption
  <2> QED
    BY <2>1, <2>2 DEF LpnStates
<1> HIDE DEF p, q
<1>4. ASSUME NEW m \in air'
      PROVE  \/ m \in air /\ ~(OneHop(m) /\ m.lpn = l)
             \/ m.op = "request" /\ m.lpn = l /\ m.cnt = p.cnt /\ m.par \in Fn \cup {None}
  BY <1>3 DEF SendRequest, RequestMsgs, Msg
<1>5. AirOK'
  <2>1. \A k \in Lpn : lpn'[k] = IF k = l THEN p ELSE lpn[k]
    BY <1>1, <1>2
  <2>2. ASSUME NEW m \in air', m \in air, ~(OneHop(m) /\ m.lpn = l)
        PROVE  /\ m.op = "offer" => m.src \in Fn /\ m.par \in Nat
               /\ m.op = "request" => /\ m.lpn \in Lpn /\ m.par \in Fn \cup {None}
                                      /\ m.cnt = lpn'[m.lpn].cnt
               /\ m.op = "poll" => m.lpn \in Lpn /\ Polling(m.lpn)' /\ m = PollOf(m.lpn)'
    BY <2>1, <2>2 DEF FriendInv, AirOK, OneHop, PollOf, Polling
  <2> QED
    BY <1>3, <1>4, <2>1, <2>2 DEF AirOK
<1>6. LpnMay(l, p)
  BY <1>3 DEF LpnMay
<1> QED
  BY <1>2, <1>3, <1>5, <1>6, LpnChange

\* No poll of a low power node is in the air when it is not polling.
LEMMA NotPolling ==
  ASSUME FriendInv, NEW l \in Lpn, NEW p \in LpnStates, lpn' = [lpn EXCEPT ![l] = p],
         air' \subseteq air, p.cnt = lpn[l].cnt,
         ~Polling(l) \/ \A m \in air : ~(m.op = "poll" /\ m.lpn = l)
  PROVE  AirOK'
<1>1. \A k \in Lpn : lpn'[k] = IF k = l THEN p ELSE lpn[k]
  BY Types DEF FriendInv
<1>2. \A m \in air : ~(m.op = "poll" /\ m.lpn = l)
  BY DEF FriendInv, AirOK
<1> QED
  BY <1>1, <1>2 DEF FriendInv, AirOK, PollOf, Polling

\* Offers come in, and one is chosen or none.
LEMMA OffersInv ==
  ASSUME FriendInv, NEW l \in Lpn, EndOffers(l) \/ \E m \in air : RxOffer(l, m)
  PROVE  FriendInv'
<1>1. /\ lpn \in [Lpn -> LpnStates] /\ lpn[l] \in LpnStates
      /\ lpn[l].cnt \in Nat /\ lpn[l].retry \in Nat
  BY Types, LpnTypes DEF FriendInv
<1>2. CASE EndOffers(l)
  <2> DEFINE p == [lpn[l] EXCEPT !.st = "poll"]
  <2>1. /\ lpn[l].st = "offer" /\ lpn' = [lpn EXCEPT ![l] = p] /\ UNCHANGED <<slot, friCnt, air>>
        /\ \A f \in Fn, i \in Slots :
              slot[f][i].offered /\ slot[f][i].lpn = l => slot[f][i].cnt = lpn[l].cnt
    BY <1>1, <1>2 DEF EndOffers
  <2>2. p \in LpnStates /\ p.st = "poll" /\ p.cnt = lpn[l].cnt /\ p.retry = lpn[l].retry
    BY <1>1 DEF LpnStates
  <2>3. ~Polling(l) /\ ~(p.retry > 0)
    BY <2>1, <2>2 DEF FriendInv, RetriesOK, Polling
  <2> HIDE DEF p
  <2>4. AirOK'
    BY <2>1, <2>2, <2>3, NotPolling
  <2>5. LpnMay(l, p)
    BY <1>1, <2>1, <2>2, <2>3 DEF LpnMay
  <2> QED
    BY <2>1, <2>2, <2>4, <2>5, LpnChange
<1>3. ASSUME NEW m \in air, RxOffer(l, m) PROVE FriendInv'
  <2>1. air' \subseteq air /\ UNCHANGED <<slot, friCnt>> /\ m.src \in Fn /\ m.par \in Nat
    BY <1>3 DEF RxOffer, FriendInv, AirOK
  <2>2. CASE lpn[l].st = "offer" /\ lpn' = [lpn EXCEPT ![l].fn = m.src, ![l].fri = m.par]
    <3> DEFINE p == [lpn[l] EXCEPT !.fn = m.src, !.fri = m.par]
    <3>1. lpn' = [lpn EXCEPT ![l] = p]
      BY <1>1, <2>2
    <3>2. p \in LpnStates /\ p.st = "offer" /\ p.cnt = lpn[l].cnt /\ p.retry = lpn[l].retry
      BY <1>1, <2>1, <2>2 DEF LpnStates
    <3>3. ~Polling(l) /\ ~(p.retry > 0)
      BY <2>2, <3>2 DEF FriendInv, RetriesOK, Polling
    <3> HIDE DEF p
    <3>4. AirOK'
      BY <2>1, <3>1, <3>2, <3>3, NotPolling
    <3>5. LpnMay(l, p)
      BY <1>1, <2>2, <3>2, <3>3 DEF LpnMay
    <3> QED
      BY <2>1, <3>1, <3>2, <3>4, <3>5, LpnChange
  <2>3. CASE UNCHANGED lpn
    <3>1. AirOK'
      BY <2>1, <2>3, AirChange DEF FriendInv
    <3> QED
      BY <2>1, <2>3, <3>1, Same
  <2> QED
    BY <1>3, <2>2, <2>3 DEF RxOffer
<1> QED
  BY <1>2, <1>3

\* A poll of the present session goes into the air, from a node that polls.
LEMMA PollSent ==
  ASSUME FriendInv, NEW l \in Lpn, NEW p \in LpnStates, lpn' = [lpn EXCEPT ![l] = p],
         air' = air \cup {PollOf(l)}, p.st \in {"update", "friend"},
         lpn[l].st = "poll" \/ Polling(l), p.fn = lpn[l].fn, p.cnt = lpn[l].cnt,
         p.fri = lpn[l].fri
  PROVE  AirOK'
<1>1. lpn \in [Lpn -> LpnStates]
  BY Types DEF FriendInv
<1>2. \A k \in Lpn : lpn'[k] = IF k = l THEN p ELSE lpn[k]
  BY <1>1
<1>3. \A m \in air' : \/ m \in air
                      \/ m.op = "poll" /\ m.lpn = l /\ m = PollOf(l)
  BY DEF PollOf, Poll, Msg
<1>4. \A k \in Lpn : PollOf(k)' = PollOf(k)
  BY <1>2 DEF PollOf
<1> QED
  BY <1>2, <1>3, <1>4 DEF FriendInv, AirOK, Polling

\* The first poll, the next ones and their repetitions.
LEMMA PollingInv ==
  ASSUME FriendInv, NEW l \in Lpn, FirstPoll(l) \/ StartPoll(l) \/ RetryPoll(l)
  PROVE  FriendInv'
<1>1. /\ lpn \in [Lpn -> LpnStates] /\ \A k \in Lpn : Polling(k) => lpn[k].fn # None
  BY Types DEF FriendInv
<1>2. UNCHANGED <<slot, friCnt>> /\ lpn[l].cnt \in Nat /\ lpn[l] \in LpnStates
  BY <1>1, LpnTypes DEF FirstPoll, StartPoll, RetryPoll
<1>3. lpn[l].st = "poll" \/ Polling(l) =>
        \A f \in Fn, i \in Slots : slot[f][i].offered /\ slot[f][i].lpn = l => slot[f][i].cnt = lpn[l].cnt
  BY DEF FriendInv, SlotOK
<1>4. ASSUME NEW p \in LpnStates, lpn' = [lpn EXCEPT ![l] = p], air' = air \cup {PollOf(l)},
             p.st \in {"update", "friend"}, (lpn[l].st = "poll" /\ lpn[l].fn # None) \/ Polling(l),
             p.fn = lpn[l].fn, p.cnt = lpn[l].cnt, p.fri = lpn[l].fri
      PROVE  FriendInv'
  <2>1. AirOK'
    BY <1>4, PollSent
  <2>2. LpnMay(l, p)
    BY <1>1, <1>2, <1>3, <1>4 DEF LpnMay
  <2> QED
    BY <1>2, <1>4, <2>1, <2>2, LpnChange
<1>5. ASSUME lpn' = [lpn EXCEPT ![l] = Requesting(lpn[l])], UNCHANGED air,
             \A m \in air : ~(m.op = "poll" /\ m.lpn = l)
      PROVE  FriendInv'
  <2> DEFINE p == Requesting(lpn[l])
  <2>1. /\ p \in LpnStates /\ p.st = "request" /\ p.cnt = lpn[l].cnt /\ p.retry = 0
        /\ lpn' = [lpn EXCEPT ![l] = p]
    BY <1>2, <1>5, LpnTypes
  <2> HIDE DEF p
  <2>2. AirOK'
    BY <1>5, <2>1, NotPolling
  <2>3. LpnMay(l, p)
    BY <1>2, <2>1 DEF LpnMay
  <2> QED
    BY <1>2, <2>1, <2>2, <2>3, LpnChange
<1>6. CASE FirstPoll(l)
  <2>1. lpn[l].st = "poll" /\ \A m \in air : ~(m.op = "poll" /\ m.lpn = l)
    BY <1>6 DEF FirstPoll, FriendInv, AirOK, Polling
  <2>2. CASE /\ lpn[l].fn # None /\ air' = air \cup {PollOf(l)}
             /\ lpn' = [lpn EXCEPT ![l].st = "update", ![l].retry = PollRetries]
    <3> DEFINE p == [lpn[l] EXCEPT !.st = "update", !.retry = PollRetries]
    <3>1. lpn' = [lpn EXCEPT ![l] = p]
      BY <1>1, <2>2
    <3>2. PollRetries \in 0 .. PollRetries
      BY FriendshipAssumption
    <3>3. p \in LpnStates /\ p.st = "update" /\ p.fn = lpn[l].fn /\ p.cnt = lpn[l].cnt /\ p.fri = lpn[l].fri
      BY <1>2, <3>2 DEF LpnStates
    <3> HIDE DEF p
    <3> QED
      BY <1>4, <2>1, <2>2, <3>1, <3>3
  <2>3. CASE lpn' = [lpn EXCEPT ![l] = Requesting(@)] /\ UNCHANGED air
    BY <1>5, <2>1, <2>3
  <2> QED
    BY <1>6, <2>2, <2>3 DEF FirstPoll
<1>7. CASE StartPoll(l)
  <2> DEFINE p == [lpn[l] EXCEPT !.retry = PollRetries]
  <2>1. lpn[l].st = "friend" /\ lpn' = [lpn EXCEPT ![l] = p] /\ air' = air \cup {PollOf(l)}
    BY <1>1, <1>7 DEF StartPoll
  <2>2. PollRetries \in 0 .. PollRetries
    BY FriendshipAssumption
  <2>3. p \in LpnStates /\ p.st = "friend" /\ p.fn = lpn[l].fn /\ p.cnt = lpn[l].cnt /\ p.fri = lpn[l].fri
    BY <1>2, <2>1, <2>2 DEF LpnStates
  <2> HIDE DEF p
  <2> QED
    BY <1>4, <2>1, <2>3 DEF Polling
<1>8. CASE RetryPoll(l)
  <2>1. PollOf(l) \notin air
    BY <1>8 DEF RetryPoll
  <2>2. CASE /\ lpn[l].retry > 1 /\ air' = air \cup {PollOf(l)}
             /\ lpn' = [lpn EXCEPT ![l].retry = @ - 1]
    <3> DEFINE p == [lpn[l] EXCEPT !.retry = @ - 1]
    <3>1. lpn' = [lpn EXCEPT ![l] = p]
      BY <1>1, <2>2
    <3>2. lpn[l].retry - 1 \in 0 .. PollRetries
      BY <1>2, <2>2, LpnTypes, FriendshipAssumption
    <3>3. p \in LpnStates /\ p.st = lpn[l].st /\ p.fn = lpn[l].fn /\ p.cnt = lpn[l].cnt /\ p.fri = lpn[l].fri
      BY <1>2, <3>2 DEF LpnStates
    <3>4. Polling(l)
      BY <1>2, <2>2, LpnTypes DEF FriendInv, RetriesOK
    <3> HIDE DEF p
    <3> QED
      BY <1>4, <2>2, <3>1, <3>3, <3>4 DEF FriendInv, RetriesOK, Polling
  <2>3. CASE lpn' = [lpn EXCEPT ![l] = Requesting(@)] /\ UNCHANGED air
    <3>1. \A m \in air : ~(m.op = "poll" /\ m.lpn = l)
      BY <2>1 DEF FriendInv, AirOK
    <3> QED
      BY <1>5, <2>3, <3>1
  <2> QED
    BY <1>8, <2>2, <2>3 DEF RetryPoll
<1> QED
  BY <1>6, <1>7, <1>8

\* An update makes the friendship.
LEMMA UpdateInv ==
  ASSUME FriendInv, NEW l \in Lpn, NEW m \in air, RxUpdate(l, m)
  PROVE  FriendInv'
<1>1. /\ lpn \in [Lpn -> LpnStates] /\ lpn[l] \in LpnStates /\ lpn[l].cnt \in Nat
      /\ lpn[l].fn \in Fn \cup {None}
  BY Types, LpnTypes DEF FriendInv
<1>2. air' \subseteq air /\ UNCHANGED <<slot, friCnt>>
  BY DEF RxUpdate
<1>3. CASE /\ lpn[l].retry > 0
           /\ lpn' = [lpn EXCEPT ![l].st = "friend", ![l].pre = lpn[l].fn, ![l].retry = 0]
  <2> DEFINE p == [lpn[l] EXCEPT !.st = "friend", !.pre = lpn[l].fn, !.retry = 0]
  <2>1. lpn' = [lpn EXCEPT ![l] = p]
    BY <1>1, <1>3
  <2>2. /\ p \in LpnStates /\ p.st = "friend" /\ p.cnt = lpn[l].cnt
        /\ p.fn = lpn[l].fn /\ p.fri = lpn[l].fri /\ p.retry = 0
    <3>1. 0 \in 0 .. PollRetries
      BY FriendshipAssumption
    <3> QED
      BY <1>1, <3>1 DEF LpnStates
  <2> HIDE DEF p
  <2>3. Polling(l) /\ p.fn # None
    BY <1>3, <2>2, Types DEF FriendInv, RetriesOK
  <2>4. \A k \in Lpn : lpn'[k] = IF k = l THEN p ELSE lpn[k]
    BY <1>1, <2>1
  <2>5. \A k \in Lpn : PollOf(k)' = PollOf(k) /\ (Polling(k) => Polling(k)')
    BY <2>2, <2>4 DEF PollOf, Polling
  <2>6. AirOK'
    BY <1>2, <2>2, <2>4, <2>5 DEF FriendInv, AirOK
  <2>7. \A f \in Fn, i \in Slots : slot[f][i].offered /\ slot[f][i].lpn = l => slot[f][i].cnt = p.cnt
    BY <2>2, <2>3 DEF FriendInv, SlotOK
  <2>8. LpnMay(l, p)
    BY <1>1, <2>2, <2>3, <2>7 DEF LpnMay
  <2> QED
    BY <1>2, <2>1, <2>2, <2>6, <2>8, LpnChange
<1>4. CASE UNCHANGED lpn
  <2>1. AirOK'
    BY <1>2, <1>4, AirChange DEF FriendInv
  <2> QED
    BY <1>2, <1>4, <2>1, Same
<1> QED
  BY <1>3, <1>4 DEF RxUpdate

-----------------------------------------------------------------------------
(* Theorems *)

\* FriendInv at the start.
LEMMA FriendInit == Init => FriendInv
<1> SUFFICES ASSUME Init PROVE FriendInv
  OBVIOUS
<1>1. FreeSlot \in SlotStates /\ 0 \in 0 .. MaxCounter /\ 0 \in 0 .. PollRetries
  BY SlotTypes, FriendshipAssumption
<1>2. /\ slot \in [Fn -> [Slots -> SlotStates]] /\ friCnt \in [Fn -> [Slots -> Nat]]
      /\ lpn \in [Lpn -> LpnStates] /\ \A l \in Lpn : lpn[l].st = "request" /\ lpn[l].retry = 0
  BY <1>1 DEF Init, LpnStates
<1>3. TypeOK
  BY <1>2, Types DEF Polling
<1>4. \A f \in Fn, i \in Slots : slot[f][i] = FreeSlot
  BY DEF Init
<1>5. AirOK /\ RetriesOK
  BY <1>2 DEF Init, AirOK, RetriesOK
<1>6. PresentIsChosen /\ OneFriendPerSession
  BY <1>4, FreeSlotOK DEF PresentIsChosen, OneFriendPerSession, IsFriend
<1> QED
  BY <1>3, <1>4, <1>5, <1>6, FreeSlotOK DEF FriendInv

\* FriendInv after every step.
LEMMA FriendNext == FriendInv /\ [Next]_vars => FriendInv'
<1> SUFFICES ASSUME FriendInv, [Next]_vars PROVE FriendInv'
  OBVIOUS
<1>1. ASSUME NEW l \in Lpn, LpnStep(l) PROVE FriendInv'
  BY <1>1, SendRequestInv, OffersInv, PollingInv, UpdateInv DEF LpnStep
<1>2. ASSUME NEW f \in Fn, FnRx(f) PROVE FriendInv'
  BY <1>2, RequestInv, PollInv, ClearInv DEF FnRx
<1>3. ASSUME NEW m \in air, Lose(m) PROVE FriendInv'
  BY <1>3, AirChange, Same DEF Lose, FriendInv
<1>4. CASE UNCHANGED vars
  BY <1>4, AirChange, Same DEF vars, FriendInv
<1> QED
  BY <1>1, <1>2, <1>3, <1>4, SlotStepInv DEF Next

\* No session of a low power node is served by two friends (link_ok in two friend nodes),
\* whatever offers it heard and whichever polls, clears and confirms were lost or came late.
THEOREM NeverTwoFriends == Spec => []OneFriendPerSession
<1>1. FriendInv => OneFriendPerSession
  BY DEF FriendInv
<1> QED
  BY <1>1, FriendInit, FriendNext, PTL DEF Spec

\* The types of the parameters of both sides; a low power node that polls has chosen.
THEOREM TypeCorrect == Spec => []TypeOK
<1>1. FriendInv => TypeOK
  BY DEF FriendInv
<1> QED
  BY <1>1, FriendInit, FriendNext, PTL DEF Spec

-----------------------------------------------------------------------------
(* Friendship: liveness.  The provers reason about WF, not about the ENABLED in it. *)

\* A slot with a friend waits for a poll or answers it, and no other one does.
Waits(s) == (s.link => s.st = "check") /\ (s.st = "check" => s.link) /\ (s.answer => s.link)
LinkedWaits == \A f \in Fn, i \in Slots : Waits(slot[f][i])

\* What a friend node's step may make of a slot: a friendship is one of before, or of the
\* low power node's present session.
SlotMay(f, i, s) ==
    /\ Waits(s)
    /\ s.link /\ s.lpn \in Lpn => \/ IsFriend(f, i, s.lpn) /\ s.cnt = slot[f][i].cnt
                                  \/ s.cnt = lpn[s.lpn].cnt

\* A slot may always become free.
LEMMA FreeSlotMay == \A f, i : SlotMay(f, i, FreeSlot)
BY DEF FreeSlot, SlotMay, Waits

\* A slot that waits may stop sending Friend Clear.
LEMMA StopClearMay ==
  ASSUME NEW f \in Fn, NEW i \in Slots, slot[f][i] \in SlotStates, Waits(slot[f][i])
  PROVE  SlotMay(f, i, StopClear(slot[f][i]))
<1> DEFINE s == slot[f][i]
           t == StopClear(s)
<1>1. t.st = s.st /\ t.link = s.link /\ t.lpn = s.lpn /\ t.cnt = s.cnt /\ t.answer = s.answer
  BY DEF StopClear, SlotStates
<1> HIDE DEF t
<1> QED
  BY <1>1 DEF SlotMay, Waits, IsFriend, t

\* What the timers of a slot do to it is allowed.
LEMMA SlotPuts ==
  ASSUME FriendInv, LinkedWaits, NEW f \in Fn, NEW i \in Slots, SlotStep(f, i)
  PROVE  UNCHANGED slot \/ \E s \in SlotStates : Put(f, i, s) /\ SlotMay(f, i, s)
<1> DEFINE s == slot[f][i]
<1>1. s \in SlotStates /\ SlotOK(s) /\ friCnt[f][i] \in Nat
  BY Types DEF FriendInv
<1>2. Waits(s) /\ (s.link /\ s.lpn \in Lpn => IsFriend(f, i, s.lpn))
  BY DEF LinkedWaits, IsFriend
<1>3. CASE SendOffer(f, i)
  <2> DEFINE t == [s EXCEPT !.st = "poll", !.fri = friCnt[f][i] + 1]
  <2>0. friCnt[f][i] + 1 \in Nat
    BY <1>1
  <2>1. Put(f, i, t) /\ s.st = "offer"
    BY <1>3 DEF SendOffer
  <2>2. t \in SlotStates
    BY <1>1, <2>0 DEF SlotStates
  <2>3. t.st = "poll" /\ t.link = s.link /\ t.answer = s.answer
    BY <1>1 DEF SlotStates
  <2> HIDE DEF t
  <2> QED
    BY <1>2, <2>1, <2>2, <2>3 DEF SlotMay, Waits
<1>4. CASE OfferTimeout(f, i)
  <2>1. Put(f, i, ProcInit(s)) /\ s.st = "poll" /\ ProcInit(s) \in SlotStates
    BY <1>1, <1>4, SlotTypes DEF OfferTimeout
  <2>2. ProcInit(s).st = "idle" /\ ProcInit(s).link = s.link /\ ProcInit(s).answer = s.answer
    BY <1>1 DEF ProcInit, SlotStates
  <2> QED
    BY <1>2, <2>1, <2>2 DEF SlotMay, Waits
<1>5. CASE Respond(f, i)
  <2> DEFINE t == [s EXCEPT !.answer = FALSE, !.clearDelay = FALSE,
                            !.clearPoll = @ \/ s.clearDelay]
  <2>1. Put(f, i, t)
    BY <1>5 DEF Respond
  <2>2. /\ t \in SlotStates /\ t.link = s.link /\ t.st = s.st /\ t.lpn = s.lpn /\ t.cnt = s.cnt
        /\ t.answer = FALSE
    BY <1>1 DEF SlotStates
  <2> HIDE DEF t
  <2> QED
    BY <1>2, <2>1, <2>2 DEF SlotMay, Waits
<1>6. CASE PollTimeout(f, i)
  BY <1>6, SlotTypes, FreeSlotMay DEF PollTimeout
<1>7. CASE ClearAgain(f, i)
  BY <1>7 DEF ClearAgain
<1>8. CASE ClearTimeout(f, i)
  <2>1. Put(f, i, StopClear(s)) /\ StopClear(s) \in SlotStates
    BY <1>1, <1>8, SlotTypes DEF ClearTimeout
  <2> QED
    BY <1>1, <2>1, StopClearMay DEF LinkedWaits
<1> QED
  BY <1>3, <1>4, <1>5, <1>6, <1>7, <1>8 DEF SlotStep

\* What a received message does to a slot is allowed.
LEMMA HeardPuts ==
  ASSUME FriendInv, LinkedWaits, NEW f \in Fn, FnRx(f)
  PROVE  \/ UNCHANGED slot
         \/ \E i \in Slots, s \in SlotStates : Put(f, i, s) /\ SlotMay(f, i, s)
<1>1. \A i \in Slots : slot[f][i] \in SlotStates /\ SlotOK(slot[f][i])
  BY Types DEF FriendInv
<1>2. lpn \in [Lpn -> LpnStates] /\ \A S \in SUBSET Slots : S # {} => MinOf(S) \in S
  BY Types, MinIn DEF FriendInv
<1>3. ASSUME NEW m \in air, RxRequest(f, m), Takers(f, m.lpn) # {}
      PROVE  \E i \in Slots, s \in SlotStates : Put(f, i, s) /\ SlotMay(f, i, s)
  <2> DEFINE i == MinOf(Takers(f, m.lpn))
             s == [FreeSlot EXCEPT !.st = "offer", !.lpn = m.lpn, !.cnt = m.cnt,
                                   !.pre = m.par, !.offered = TRUE]
  <2>1. i \in Slots /\ Put(f, i, s)
    BY <1>2, <1>3 DEF RxRequest, Takers
  <2>2. m.lpn \in Lpn /\ m.par \in Fn \cup {None} /\ m.cnt = lpn[m.lpn].cnt
    BY <1>3 DEF RxRequest, FriendInv, AirOK
  <2>3. s \in SlotStates /\ ~s.link /\ ~s.answer /\ s.st = "offer"
    BY <1>2, <2>2, SlotTypes DEF FreeSlot, SlotStates, LpnStates
  <2> HIDE DEF s
  <2> QED
    BY <2>1, <2>3 DEF SlotMay, Waits
<1>4. ASSUME NEW m \in air, RxPoll(f, m), Decodes(f, m) /\ OfLpn(f, m.lpn) # {}
      PROVE  \E i \in Slots, s \in SlotStates : Put(f, i, s) /\ SlotMay(f, i, s)
  <2> DEFINE i == MinOf(OfLpn(f, m.lpn))
             s == slot[f][i]
             t == Polled(f, s)
  <2>1. i \in Slots /\ Put(f, i, t) /\ s.lpn = m.lpn /\ s.st # "idle"
    BY <1>2, <1>4 DEF RxPoll, OfLpn
  <2>2. m.lpn \in Lpn /\ Polling(m.lpn)
    BY <1>4 DEF RxPoll, FriendInv, AirOK
  <2>3. s \in SlotStates /\ t \in SlotStates /\ SlotOK(s)
    BY <1>1, <2>1, SlotTypes
  <2>4. t.st = "check" /\ t.lpn = s.lpn /\ t.cnt = s.cnt /\ t.link = (s.offered \/ s.link)
    BY <2>3 DEF Polled, ProcInit, SlotStates
  <2>5. s.offered => s.cnt = lpn[s.lpn].cnt
    BY <2>1, <2>2, <2>3 DEF SlotOK
  <2>6. s.offered \/ s.link
    <3>1. s.st \in {"offer", "poll"} \/ s.st = "check"
      BY <2>1, <2>3 DEF SlotStates
    <3> QED
      BY <2>1, <2>3, <3>1 DEF SlotOK, LinkedWaits, Waits
  <2>7. t.link
    BY <2>4, <2>6
  <2>8. Waits(t)
    BY <2>4, <2>7 DEF Waits
  <2> QED
    BY <2>1, <2>3, <2>4, <2>5, <2>6, <2>8 DEF SlotMay, IsFriend
<1>5. ASSUME NEW m \in air, RxClear(f, m)
      PROVE  \/ UNCHANGED slot
             \/ \E i \in Slots, s \in SlotStates : Put(f, i, s) /\ SlotMay(f, i, s)
  <2> DEFINE hit == {i \in Slots : ClearHits(slot[f][i], m)}
  <2>1. UNCHANGED slot \/ (hit # {} /\ Put(f, MinOf(hit), FreeSlot))
    BY <1>5 DEF RxClear
  <2>2. hit # {} => MinOf(hit) \in Slots
    BY <1>2
  <2> QED
    BY <2>1, <2>2, SlotTypes, FreeSlotMay
<1>6. ASSUME NEW m \in air, RxClearConf(f, m)
      PROVE  \/ UNCHANGED slot
             \/ \E i \in Slots, s \in SlotStates : Put(f, i, s) /\ SlotMay(f, i, s)
  <2> DEFINE on == {i \in Slots : slot[f][i].clearPoll /\ slot[f][i].lpn = m.lpn}
             s == slot[f][MinOf(on)]
  <2>1. UNCHANGED slot \/ (on # {} /\ Put(f, MinOf(on), StopClear(s)))
    BY <1>6 DEF RxClearConf
  <2>2. CASE on # {}
    <3>1. MinOf(on) \in Slots /\ s \in SlotStates /\ StopClear(s) \in SlotStates
      BY <1>1, <1>2, <2>2, SlotTypes
    <3> QED
      BY <2>1, <2>2, <3>1, StopClearMay DEF LinkedWaits
  <2> QED
    BY <2>1, <2>2
<1> QED
  BY <1>3, <1>4, <1>5, <1>6 DEF FnRx, RxRequest, RxPoll

\* Only SendOffer adds an offer: to the low power node of a slot that has none as a friend.
LEMMA OffersSent ==
  ASSUME NEW f \in Fn, FnRx(f) \/ \E i \in Slots : SlotStep(f, i)
  PROVE  /\ UNCHANGED lpn
         /\ \A m \in air' : m.op = "offer" => 
               \/ m \in air
               \/ /\ m.src = f /\ m.lpn = m.dst
                  /\ \E i \in Slots : slot[f][i].st = "offer" /\ m.dst = slot[f][i].lpn
<1>1. ASSUME NEW i \in Slots, SlotStep(f, i)
      PROVE  /\ UNCHANGED lpn
             /\ \A m \in air' : m.op = "offer" => 
                   \/ m \in air
                   \/ /\ m.src = f /\ m.lpn = m.dst
                      /\ slot[f][i].st = "offer" /\ m.dst = slot[f][i].lpn
  <2>1. CASE SendOffer(f, i)
    BY <2>1 DEF SendOffer, Offer, Msg
  <2>2. CASE Respond(f, i)
    BY <2>2 DEF Respond, Update, ClearOf, Clear, Msg
  <2>3. CASE ClearAgain(f, i)
    BY <2>3 DEF ClearAgain, ClearOf, Clear, Msg
  <2>4. CASE OfferTimeout(f, i) \/ PollTimeout(f, i) \/ ClearTimeout(f, i)
    BY <2>4 DEF OfferTimeout, PollTimeout, ClearTimeout
  <2> QED
    BY <1>1, <2>1, <2>2, <2>3, <2>4 DEF SlotStep
<1>2. ASSUME FnRx(f)
      PROVE  UNCHANGED lpn /\ \A m \in air' : m.op = "offer" => m \in air
  <2>1. PICK m \in air : RxRequest(f, m) \/ RxPoll(f, m) \/ RxClear(f, m) \/ RxClearConf(f, m)
    BY <1>2 DEF FnRx
  <2>2. CASE RxClear(f, m)
    BY <2>2 DEF RxClear, ClearConf, Msg
  <2>3. CASE RxRequest(f, m) \/ RxPoll(f, m) \/ RxClearConf(f, m)
    BY <2>3 DEF RxRequest, RxPoll, RxClearConf
  <2> QED
    BY <2>1, <2>2, <2>3
<1> QED
  BY <1>1, <1>2

-----------------------------------------------------------------------------
(* Friendship: a low power node notices that its friend dropped it.            *)

\* Induction over the natural numbers, for what is the case of those where a function is 1.
LEMMA Induction ==
  ASSUME NEW F, F[0] = 1, \A n \in Nat : F[n] = 1 => F[n + 1] = 1
  PROVE  \A n \in Nat : F[n] = 1
<1> SUFFICES ASSUME NEW k \in Nat, F[k] # 1 PROVE FALSE
  OBVIOUS
<1> DEFINE S == {n \in Nat : F[n] # 1}
<1>1. PICK m \in S : \A j \in S : <<j, m>> \notin OpToRel(<, Nat)
  BY NatLessThanWellFounded, WFMin
<1>2. m \in Nat /\ m # 0
  BY <1>1
<1> HIDE DEF S
<1>3. m - 1 \in Nat /\ m - 1 < m /\ (m - 1) + 1 = m
  BY <1>2
<1>4. m - 1 \notin S
  BY <1>1, <1>2, <1>3 DEF OpToRel
<1> QED
  BY <1>1, <1>3, <1>4 DEF S

\* Says nothing of f, and lets a proof name it.
Named(f) == TRUE

\* An update that its low power node can decode.
UpdatesOK == \A m \in air : m.op = "update" => m = Update(m.src, m.dst, m.cnt, m.par)
NoticeInv == FriendInv /\ LinkedWaits /\ UpdatesOK

\* The answer that a low power node waits for, and how far it is from giving up: an answer
\* on its way is worth all its polls.
AnswerTo(l) == Update(lpn[l].fn, l, lpn[l].cnt, lpn[l].fri)
PollsLeft(l) == IF lpn[l].retry = 0 THEN PollRetries + 1 ELSE lpn[l].retry
Patience(l) == PollsLeft(l) + IF AnswerTo(l) \in air THEN PollRetries + 1 ELSE 0

\* Only a friend answers.
LEMMA UpdatesSent ==
  ASSUME LinkedWaits, NEW f \in Fn, FnRx(f) \/ \E i \in Slots : SlotStep(f, i), NEW m \in air',
         m.op = "update", m \notin air
  PROVE  \E i \in Slots : slot[f][i].link /\ m = Update(f, slot[f][i].lpn, slot[f][i].cnt, slot[f][i].fri)
<1>1. ASSUME NEW i \in Slots, SlotStep(f, i)
      PROVE  slot[f][i].link /\ m = Update(f, slot[f][i].lpn, slot[f][i].cnt, slot[f][i].fri)
  <2>1. CASE SendOffer(f, i)
    BY <2>1 DEF SendOffer, Offer, Msg
  <2>2. CASE Respond(f, i)
    BY <2>2 DEF Respond, ClearOf, Clear, Msg, LinkedWaits, Waits
  <2>3. CASE ClearAgain(f, i)
    BY <2>3 DEF ClearAgain, ClearOf, Clear, Msg
  <2>4. CASE OfferTimeout(f, i) \/ PollTimeout(f, i) \/ ClearTimeout(f, i)
    BY <2>4 DEF OfferTimeout, PollTimeout, ClearTimeout
  <2> QED
    BY <1>1, <2>1, <2>2, <2>3, <2>4 DEF SlotStep
<1>2. ~FnRx(f)
  <2> SUFFICES ASSUME NEW k \in air,
                      RxRequest(f, k) \/ RxPoll(f, k) \/ RxClear(f, k) \/ RxClearConf(f, k)
               PROVE  FALSE
    BY DEF FnRx
  <2>1. CASE RxClear(f, k)
    BY <2>1 DEF RxClear, ClearConf, Msg
  <2>2. CASE RxRequest(f, k) \/ RxPoll(f, k) \/ RxClearConf(f, k)
    BY <2>2 DEF RxRequest, RxPoll, RxClearConf
  <2> QED
    BY <2>1, <2>2
<1> QED
  BY <1>1, <1>2

\* Friend nodes send no requests and no polls.
LEMMA FnSends ==
  ASSUME NEW f \in Fn, FnRx(f) \/ \E i \in Slots : SlotStep(f, i), NEW m \in air', m.op \in {"request", "poll"}
  PROVE  m \in air
<1>1. ASSUME NEW i \in Slots, SlotStep(f, i) PROVE m \in air
  <2>1. CASE SendOffer(f, i)
    BY <2>1 DEF SendOffer, Offer, Msg
  <2>2. CASE Respond(f, i)
    BY <2>2 DEF Respond, Update, ClearOf, Clear, Msg
  <2>3. CASE ClearAgain(f, i)
    BY <2>3 DEF ClearAgain, ClearOf, Clear, Msg
  <2>4. CASE OfferTimeout(f, i) \/ PollTimeout(f, i) \/ ClearTimeout(f, i)
    BY <2>4 DEF OfferTimeout, PollTimeout, ClearTimeout
  <2> QED
    BY <1>1, <2>1, <2>2, <2>3, <2>4 DEF SlotStep
<1>2. ASSUME FnRx(f) PROVE m \in air
  <2>1. PICK k \in air : RxRequest(f, k) \/ RxPoll(f, k) \/ RxClear(f, k) \/ RxClearConf(f, k)
    BY <1>2 DEF FnRx
  <2>2. CASE RxClear(f, k)
    BY <2>2 DEF RxClear, ClearConf, Msg
  <2>3. CASE RxRequest(f, k) \/ RxPoll(f, k) \/ RxClearConf(f, k)
    BY <2>3 DEF RxRequest, RxPoll, RxClearConf
  <2> QED
    BY <2>1, <2>2, <2>3
<1> QED
  BY <1>1, <1>2

\* What a low power node puts in the air.
LEMMA LpnSends ==
  ASSUME NEW l \in Lpn, LpnStep(l), NEW m \in air', m \notin air
  PROVE  m.op \in {"request", "poll"} /\ m.lpn = l
<1>1. CASE SendRequest(l)
  BY <1>1 DEF SendRequest, RequestMsgs, Msg
<1>2. CASE FirstPoll(l) \/ StartPoll(l) \/ RetryPoll(l)
  BY <1>2 DEF FirstPoll, StartPoll, RetryPoll, PollOf, Poll, Msg
<1>3. CASE EndOffers(l) \/ \E n \in air : RxOffer(l, n) \/ RxUpdate(l, n)
  BY <1>3 DEF EndOffers, RxOffer, RxUpdate
<1> QED
  BY <1>1, <1>2, <1>3 DEF LpnStep

\* NoticeInv at the start.
LEMMA NoticeInit == Init => NoticeInv
BY FriendInit DEF Init, FreeSlot, NoticeInv, LinkedWaits, Waits, UpdatesOK

\* NoticeInv after every step.
LEMMA NoticeNext == NoticeInv /\ [Next]_vars => NoticeInv'
<1> SUFFICES ASSUME NoticeInv, [Next]_vars PROVE NoticeInv'
  OBVIOUS
<1>1. FriendInv'
  BY FriendNext DEF NoticeInv
<1>2. CASE UNCHANGED vars \/ \E m \in air : Lose(m)
  <2>1. slot' = slot /\ air' \subseteq air
    BY <1>2 DEF vars, Lose
  <2> QED
    BY <1>1, <2>1 DEF NoticeInv, LinkedWaits, Waits, UpdatesOK
<1>3. ASSUME NEW l \in Lpn, LpnStep(l) PROVE NoticeInv'
  <2>1. slot' = slot
    BY <1>3 DEF LpnStep, SendRequest, EndOffers, FirstPoll, StartPoll, RetryPoll, RxOffer, RxUpdate
  <2>2. UpdatesOK'
    BY <1>3, LpnSends DEF NoticeInv, UpdatesOK
  <2> QED
    BY <1>1, <2>1, <2>2 DEF NoticeInv, LinkedWaits, Waits
<1>4. ASSUME NEW f \in Fn, FnRx(f) \/ \E i \in Slots : SlotStep(f, i) PROVE NoticeInv'
  <2>1. slot \in [Fn -> [Slots -> SlotStates]]
    BY Types DEF NoticeInv, FriendInv
  <2>2. UNCHANGED slot \/ \E i \in Slots, s \in SlotStates : Put(f, i, s) /\ SlotMay(f, i, s)
    BY <1>4, SlotPuts, HeardPuts DEF NoticeInv
  <2>3. LinkedWaits'
    BY <2>1, <2>2 DEF Put, SlotMay, NoticeInv, LinkedWaits, Waits
  <2>4. UpdatesOK'
    BY <1>4, UpdatesSent DEF NoticeInv, UpdatesOK, Update, Msg
  <2> QED
    BY <1>1, <2>3, <2>4 DEF NoticeInv
<1> QED
  BY <1>2, <1>3, <1>4 DEF Next

\* No step puts an abandoned node further from giving up; one that changes the node brings it
\* nearer, and no other one sends its poll.
LEMMA PatienceFalls ==
  ASSUME NoticeInv, NEW l \in Lpn, Abandoned(l), [Next]_vars, Abandoned(l)'
  PROVE  \/ Patience(l)' < Patience(l)
         \/ /\ lpn'[l] = lpn[l] /\ Patience(l)' <= Patience(l)
            /\ PollOf(l) \in air' => PollOf(l) \in air
<1>1. /\ lpn \in [Lpn -> LpnStates] /\ lpn[l].retry \in 0 .. PollRetries
      /\ PollRetries \in Nat \ {0} /\ lpn[l].st = "friend"
  BY Types, FriendshipAssumption DEF NoticeInv, FriendInv, LpnStates, Abandoned
<1>2. ASSUME lpn'[l] = lpn[l], AnswerTo(l) \in air' => AnswerTo(l) \in air,
             PollOf(l) \in air' => PollOf(l) \in air
      PROVE  /\ lpn'[l] = lpn[l] /\ Patience(l)' <= Patience(l)
             /\ PollOf(l) \in air' => PollOf(l) \in air
  <2>1. AnswerTo(l)' = AnswerTo(l) /\ PollsLeft(l)' = PollsLeft(l)
    BY <1>2 DEF AnswerTo, PollsLeft, Update, Msg
  <2>2. PollsLeft(l) \in Nat
    BY <1>1 DEF PollsLeft
  <2> QED
    BY <1>1, <1>2, <2>1, <2>2 DEF Patience
<1>3. CASE UNCHANGED vars \/ \E m \in air : Lose(m)
  BY <1>2, <1>3 DEF vars, Lose
<1>4. ASSUME NEW k \in Lpn, k # l, LpnStep(k)
      PROVE  /\ lpn'[l] = lpn[l] /\ Patience(l)' <= Patience(l)
             /\ PollOf(l) \in air' => PollOf(l) \in air
  <2>1. lpn'[l] = lpn[l]
    BY <1>1, <1>4 DEF LpnStep, SendRequest, EndOffers, FirstPoll, StartPoll, RetryPoll, RxOffer, RxUpdate
  <2>2. AnswerTo(l).op = "update" /\ PollOf(l).lpn = l
    BY DEF AnswerTo, Update, PollOf, Poll, Msg
  <2> QED
    BY <1>2, <1>4, <2>1, <2>2, LpnSends
<1>5. ASSUME NEW f \in Fn, FnRx(f) \/ \E i \in Slots : SlotStep(f, i)
      PROVE  /\ lpn'[l] = lpn[l] /\ Patience(l)' <= Patience(l)
             /\ PollOf(l) \in air' => PollOf(l) \in air
  <2>1. lpn' = lpn
    BY <1>5, OffersSent
  <2>2. AnswerTo(l) \in air' => AnswerTo(l) \in air
    <3> SUFFICES ASSUME AnswerTo(l) \in air', AnswerTo(l) \notin air PROVE FALSE
      OBVIOUS
    <3>1. AnswerTo(l).op = "update"
      BY DEF AnswerTo, Update, Msg
    <3>2. PICK i \in Slots : /\ slot[f][i].link
                             /\ AnswerTo(l) = Update(f, slot[f][i].lpn, slot[f][i].cnt, slot[f][i].fri)
      BY <1>5, <3>1, UpdatesSent DEF NoticeInv
    <3>3. lpn[l].fn = f /\ slot[f][i].lpn = l /\ slot[f][i].cnt = lpn[l].cnt
      BY <3>2 DEF AnswerTo, Update, Msg
    <3> QED
      BY <3>2, <3>3 DEF Abandoned, Serves, IsFriend
  <2>3. PollOf(l) \in air' => PollOf(l) \in air
    <3>1. PollOf(l).op = "poll"
      BY DEF PollOf, Poll, Msg
    <3> QED
      BY <1>5, <3>1, FnSends
  <2> QED
    BY <1>2, <2>1, <2>2, <2>3
<1>6. CASE LpnStep(l)
  <2>1. CASE SendRequest(l) \/ EndOffers(l) \/ FirstPoll(l)
    BY <1>1, <2>1 DEF SendRequest, EndOffers, FirstPoll
  <2>2. CASE StartPoll(l) \/ RetryPoll(l)
    <3>1. /\ lpn'[l].fn = lpn[l].fn /\ lpn'[l].cnt = lpn[l].cnt /\ lpn'[l].fri = lpn[l].fri
          /\ PollsLeft(l)' < PollsLeft(l) /\ PollsLeft(l)' \in Nat /\ PollsLeft(l) \in Nat
      <4>1. CASE StartPoll(l)
        BY <1>1, <4>1 DEF StartPoll, PollsLeft, LpnStates
      <4>2. CASE RetryPoll(l)
        <5>1. lpn[l].retry > 1 /\ lpn' = [lpn EXCEPT ![l].retry = @ - 1]
          <6>1. Requesting(lpn[l]).st = "request"
            BY <1>1, LpnTypes
          <6>2. lpn'[l] # Requesting(lpn[l])
            BY <6>1 DEF Abandoned
          <6> QED
            BY <1>1, <4>2, <6>2 DEF RetryPoll
        <5> QED
          BY <1>1, <5>1 DEF PollsLeft, LpnStates
      <4> QED
        BY <2>2, <4>1, <4>2
    <3>2. AnswerTo(l)' = AnswerTo(l)
      BY <3>1 DEF AnswerTo, Update, Msg
    <3>3. AnswerTo(l) \in air' => AnswerTo(l) \in air
      BY <1>6, LpnSends DEF AnswerTo, Update, Msg
    <3> QED
      BY <1>1, <3>1, <3>2, <3>3 DEF Patience
  <2>3. ASSUME NEW m \in air, RxOffer(l, m)
        PROVE  /\ lpn'[l] = lpn[l] /\ Patience(l)' <= Patience(l)
               /\ PollOf(l) \in air' => PollOf(l) \in air
    BY <1>1, <1>2, <2>3 DEF RxOffer
  <2>4. ASSUME NEW m \in air, RxUpdate(l, m), lpn' = lpn
        PROVE  /\ lpn'[l] = lpn[l] /\ Patience(l)' <= Patience(l)
               /\ PollOf(l) \in air' => PollOf(l) \in air
    BY <1>2, <2>4 DEF RxUpdate
  <2>5. ASSUME NEW m \in air, RxUpdate(l, m), lpn' # lpn
        PROVE  Patience(l)' < Patience(l)
    <3>1. /\ m.op = "update" /\ m.dst = l /\ m.src = lpn[l].fn /\ m.cnt = lpn[l].cnt
          /\ m.par = lpn[l].fri /\ air' = air \ {m} /\ lpn[l].retry > 0
          /\ lpn' = [lpn EXCEPT ![l].st = "friend", ![l].pre = lpn[l].fn, ![l].retry = 0]
      BY <2>5 DEF RxUpdate
    <3>2. m = AnswerTo(l)
      BY <3>1 DEF NoticeInv, UpdatesOK, AnswerTo
    <3>3. /\ lpn'[l].fn = lpn[l].fn /\ lpn'[l].cnt = lpn[l].cnt /\ lpn'[l].fri = lpn[l].fri
          /\ lpn'[l].retry = 0
      BY <1>1, <3>1 DEF LpnStates
    <3>4. AnswerTo(l)' = AnswerTo(l)
      BY <3>3 DEF AnswerTo, Update, Msg
    <3>5. Patience(l)' = PollRetries + 1 + 0
      BY <3>1, <3>2, <3>3, <3>4 DEF Patience, PollsLeft
    <3>6. Patience(l) = lpn[l].retry + (PollRetries + 1)
      BY <3>1, <3>2 DEF Patience, PollsLeft
    <3> QED
      BY <1>1, <3>1, <3>5, <3>6
  <2> QED
    BY <1>6, <2>1, <2>2, <2>3, <2>4, <2>5 DEF LpnStep
<1> QED
  BY <1>3, <1>4, <1>5, <1>6 DEF Next

\* The steps that bring an abandoned node nearer to giving up.
LEMMA PatienceSteps ==
  ASSUME NoticeInv, NEW l \in Lpn, Abandoned(l)
  PROVE  /\ Patience(l) \in 1 .. 2 * PollRetries + 2
         /\ StartPoll(l) \/ RetryPoll(l) => lpn'[l] # lpn[l]
         /\ Ends(l, "poll") => PollOf(l) \notin air'
<1>1. /\ lpn \in [Lpn -> LpnStates] /\ lpn[l].retry \in 0 .. PollRetries
      /\ PollRetries \in Nat \ {0} /\ lpn[l].st = "friend"
  BY Types, FriendshipAssumption DEF NoticeInv, FriendInv, LpnStates, Abandoned
<1>2. PollsLeft(l) \in 1 .. PollRetries + 1
  BY <1>1 DEF PollsLeft
<1>3. Patience(l) \in 1 .. 2 * PollRetries + 2
  BY <1>1, <1>2 DEF Patience
<1>4. StartPoll(l) \/ RetryPoll(l) => lpn'[l].retry # lpn[l].retry
  <2>1. StartPoll(l) => lpn'[l].retry # lpn[l].retry
    BY <1>1 DEF StartPoll, LpnStates
  <2>2. RetryPoll(l) => lpn'[l].retry # lpn[l].retry
    <3>1. Requesting(lpn[l]).retry = 0
      BY <1>1, LpnTypes
    <3> QED
      BY <1>1, <3>1 DEF RetryPoll, LpnStates
  <2> QED
    BY <2>1, <2>2
<1>5. Ends(l, "poll") => PollOf(l) \notin air'
  BY DEF Ends, Lose, NoticeInv, FriendInv, AirOK
<1> QED
  BY <1>3, <1>4, <1>5

\* One poll less, or an answer less.
LEMMA PatienceEnds ==
  ASSUME NEW l \in Lpn, NEW n \in Nat
  PROVE  FairSpec /\ []GuardsSuffice
            => ((Abandoned(l) /\ Patience(l) = n + 1) ~> (~Abandoned(l) \/ Patience(l) <= n))
<1> DEFINE A == Abandoned(l)
           P == Patience(l) = n + 1
           L == Patience(l) <= n
           Started == lpn[l].retry > 0
           Sent == PollOf(l) \in air
<1>0. StartPoll(l) \/ RetryPoll(l) \/ Ends(l, "poll") => Next
  BY DEF Next, LpnStep, Ends
<1>8. NoticeInv /\ A => Patience(l) \in Nat
  BY PatienceSteps, FriendshipAssumption
<1>9. (NoticeInv /\ A => Patience(l) \in Nat)'
  BY <1>8, PTL
<1>1. ASSUME NoticeInv, A, P, [Next]_vars, A'
      PROVE  L' \/ (P' /\ lpn'[l] = lpn[l] /\ (~Sent => ~Sent'))
  <2>1. Patience(l)' \in Nat
    BY <1>1, <1>9, NoticeNext
  <2>2. CASE Patience(l)' < Patience(l)
    BY <1>1, <2>1, <2>2
  <2>3. CASE /\ lpn'[l] = lpn[l] /\ Patience(l)' <= Patience(l)
             /\ PollOf(l) \in air' => PollOf(l) \in air
    <3>1. PollOf(l)' = PollOf(l)
      BY <2>3 DEF PollOf, Poll, Msg
    <3> QED
      BY <1>1, <2>1, <2>3, <3>1
  <2> QED
    BY <1>1, <2>2, <2>3, PatienceFalls
<1>2. NoticeInv /\ A /\ P /\ [Next]_vars
        => ~A' \/ L' \/ (P' /\ (Started => Started') /\ (~Sent => ~Sent'))
  BY <1>1
<1>3. NoticeInv /\ A /\ P /\ <<StartPoll(l)>>_vars => ~A' \/ L'
  BY <1>0, <1>1, PatienceSteps
<1>4. NoticeInv /\ A /\ P /\ <<RetryPoll(l)>>_vars => ~A' \/ L'
  BY <1>0, <1>1, PatienceSteps
<1>5. NoticeInv /\ A /\ P /\ <<Ends(l, "poll")>>_vars => ~A' \/ ~Sent'
  <2>1. Ends(l, "poll") => PollOf(l)' = PollOf(l)
    BY DEF Ends, Lose, PollOf, Poll, Msg
  <2> QED
    BY <2>1, PatienceSteps
<1>6. NoticeInv /\ GuardsSuffice /\ A => /\ ~Started => ENABLED <<StartPoll(l)>>_vars
                                         /\ Started /\ ~Sent => ENABLED <<RetryPoll(l)>>_vars
                                         /\ Sent => ENABLED <<Ends(l, "poll")>>_vars
  <2>1. NoticeInv /\ A => lpn[l].st = "friend" /\ lpn[l].retry \in Nat
    BY Types, LpnTypes DEF NoticeInv, FriendInv, Abandoned
  <2> QED
    BY <2>1 DEF GuardsSuffice
<1>7. FairSpec => Spec /\ LpnRuns(l) /\ MessagesEnd(l, "poll")
  BY DEF FairSpec
<1> HIDE DEF A, P, L, Started, Sent
<1> QED
  BY <1>2, <1>3, <1>4, <1>5, <1>6, <1>7, NoticeInit, NoticeNext, PTL
     DEF Spec, LpnRuns, MessagesEnd, A, P, L

Leaves(l, n) == (Abandoned(l) /\ Patience(l) <= n) ~> ~Abandoned(l)

\* LpnNotices: whatever it hears, whenever the polls are lost and however late an answer of
\* before comes, a low power node leaves a friend that no longer serves it.
THEOREM DroppedIsNoticed == FairSpec /\ []GuardsSuffice => LpnNotices
<1> SUFFICES ASSUME NEW l \in Lpn
             PROVE  FairSpec /\ []GuardsSuffice => (Abandoned(l) ~> ~Abandoned(l))
  BY DEF LpnNotices
<1> DEFINE Most == 2 * PollRetries + 2
<1>1. NoticeInv /\ Abandoned(l) => ~(Patience(l) <= 0) /\ Patience(l) <= Most
  BY PatienceSteps, FriendshipAssumption
<1>2. FairSpec => []NoticeInv
  BY NoticeInit, NoticeNext, PTL DEF FairSpec, Spec
<1>3. FairSpec => Leaves(l, 0)
  BY <1>1, <1>2, PTL DEF Leaves
<1>4. ASSUME NEW n \in Nat
      PROVE  FairSpec /\ []GuardsSuffice /\ Leaves(l, n) => Leaves(l, n + 1)
  <2>1. FairSpec /\ []GuardsSuffice
          => ((Abandoned(l) /\ Patience(l) = n + 1) ~> (~Abandoned(l) \/ Patience(l) <= n))
    BY PatienceEnds
  <2>2. NoticeInv /\ Abandoned(l) /\ Patience(l) <= n + 1 => Patience(l) = n + 1 \/ Patience(l) <= n
    BY PatienceSteps, FriendshipAssumption
  <2> QED
    BY <1>2, <2>1, <2>2, PTL DEF Leaves
<1>5. FairSpec /\ []GuardsSuffice => Leaves(l, Most)
  <2> SUFFICES ASSUME FairSpec /\ []GuardsSuffice PROVE Leaves(l, Most)
    OBVIOUS
  <2>1. PICK F : Named(F) /\ \A n \in Nat : F[n] = 1 <=> Leaves(l, n)
    <3>1. Named([n \in Nat |-> IF Leaves(l, n) THEN 1 ELSE 0])
      BY DEF Named
    <3> QED
      BY <3>1
  <2>2. F[0] = 1
    BY <1>3, <2>1
  <2>3. \A n \in Nat : F[n] = 1 => F[n + 1] = 1
    BY <1>4, <2>1
  <2>4. \A n \in Nat : F[n] = 1
    BY <2>2, <2>3, Induction
  <2>5. Most \in Nat
    BY FriendshipAssumption
  <2> QED
    BY <2>1, <2>4, <2>5
<1> QED
  BY <1>1, <1>2, <1>5, PTL DEF Leaves

-----------------------------------------------------------------------------
(* Friendship: an old friend lets go                                           *)

\* What slot k of friend f keeps of the present session of a low power node, whose request
\* may still be on its way to f, or whose polls f has answered.
Keeps(f, k, l) == slot[f][k].lpn = l /\ slot[f][k].cnt = lpn[l].cnt
Asked(f, l) == \E m \in air : m.op = "request" /\ m.lpn = l /\ m.dst = f
Answered(f, l) ==
    \/ lpn[l].st = "friend" /\ lpn[l].fn = f
    \/ \E m \in air : m.op = "update" /\ m.src = f /\ m.dst = l /\ m.cnt = lpn[l].cnt

\* A friend node hears at most one request of a session.
OneRequest ==
    \A m, n \in air : m.op = "request" /\ n.op = "request" /\ m.lpn = n.lpn /\ m.dst = n.dst => m = n

\* What it keeps of the session is then in one slot, and in one before the slot in which it
\* still serves a session before.  A friend that has answered the session serves it.
PresentSlot(f, l) ==
    /\ Asked(f, l) => ~Answered(f, l) /\ \A k \in Slots : ~Keeps(f, k, l)
    /\ \A j, k \in Slots : Keeps(f, j, l) /\ Keeps(f, k, l) => j = k
    /\ \A k \in Slots : Answered(f, l) /\ Keeps(f, k, l) => slot[f][k].link
    /\ \A k, i \in Slots : Keeps(f, k, l) /\ IsFriend(f, i, l) /\ ~Keeps(f, i, l) => k < i

SlotsInv == NoticeInv /\ OneRequest /\ \A f \in Fn, l \in Lpn : PresentSlot(f, l)

\* A friend node with nothing new about a low power node.
LEMMA NothingNew ==
  ASSUME NEW f \in Fn, NEW l \in Lpn, PresentSlot(f, l),
         Asked(f, l)' => Asked(f, l), Answered(f, l)' => Answered(f, l),
         \A k \in Slots : /\ Keeps(f, k, l)' => Keeps(f, k, l)
                          /\ Keeps(f, k, l)' /\ slot[f][k].link => slot'[f][k].link
                          /\ IsFriend(f, k, l)' /\ ~Keeps(f, k, l)' =>
                                IsFriend(f, k, l) /\ ~Keeps(f, k, l)
  PROVE  PresentSlot(f, l)'
<1>1. \A k \in Slots : Keeps(f, k, l)' => Keeps(f, k, l)
  OBVIOUS
<1>2. \A k, i \in Slots :
         Keeps(f, k, l)' /\ IsFriend(f, i, l)' /\ ~Keeps(f, i, l)' => k < i
  BY DEF PresentSlot
<1>3. \A k \in Slots : Answered(f, l)' /\ Keeps(f, k, l)' => slot'[f][k].link
  BY DEF PresentSlot
<1> QED
  BY <1>1, <1>2, <1>3 DEF PresentSlot

\* A slot that becomes free, or keeps its session and its friendship; a new friendship is of
\* the present session.
Follows(f, k) ==
    \/ slot'[f][k] = FreeSlot
    \/ /\ slot'[f][k].lpn = slot[f][k].lpn /\ slot'[f][k].cnt = slot[f][k].cnt
       /\ slot[f][k].link => slot'[f][k].link
       /\ slot'[f][k].link => slot[f][k].link \/ Keeps(f, k, slot[f][k].lpn)

\* Slots of which each follows, with no request and no answer that is new.
LEMMA FollowsKeeps ==
  ASSUME NEW f \in Fn, NEW l \in Lpn, PresentSlot(f, l), lpn' = lpn,
         Asked(f, l)' => Asked(f, l), Answered(f, l)' => Answered(f, l),
         \A k \in Slots : Follows(f, k)
  PROVE  PresentSlot(f, l)'
<1>1. l # None /\ FreeSlot.lpn = None /\ ~FreeSlot.link
  BY FriendshipAssumption DEF FreeSlot
<1>2. \A k \in Slots : /\ Keeps(f, k, l)' => Keeps(f, k, l)
                       /\ Keeps(f, k, l)' /\ slot[f][k].link => slot'[f][k].link
                       /\ IsFriend(f, k, l)' /\ ~Keeps(f, k, l)' =>
                             IsFriend(f, k, l) /\ ~Keeps(f, k, l)
  BY <1>1 DEF Follows, Keeps, IsFriend
<1> QED
  BY <1>2, NothingNew

\* What the timers of a friend node do to its slots.
LEMMA TimersFollow ==
  ASSUME NoticeInv, NEW f \in Fn, NEW i \in Slots, SlotStep(f, i), NEW g \in Fn, NEW k \in Slots
  PROVE  Follows(g, k)
<1> DEFINE s == slot[f][i]
<1>1. slot \in [Fn -> [Slots -> SlotStates]] /\ s \in SlotStates /\ friCnt[f][i] \in Nat
  BY Types DEF NoticeInv, FriendInv
<1>2. ASSUME NEW t, Put(f, i, t), t = FreeSlot \/ (t.lpn = s.lpn /\ t.cnt = s.cnt /\ t.link = s.link)
      PROVE  Follows(g, k)
  BY <1>1, <1>2 DEF Put, Follows
<1>3. CASE SendOffer(f, i)
  <2> DEFINE t == [s EXCEPT !.st = "poll", !.fri = friCnt[f][i] + 1]
  <2>1. Put(f, i, t)
    BY <1>3 DEF SendOffer
  <2>2. t.lpn = s.lpn /\ t.cnt = s.cnt /\ t.link = s.link
    BY <1>1 DEF SlotStates
  <2> HIDE DEF t
  <2> QED
    BY <1>2, <2>1, <2>2
<1>4. CASE OfferTimeout(f, i)
  <2>1. ProcInit(s).lpn = s.lpn /\ ProcInit(s).cnt = s.cnt /\ ProcInit(s).link = s.link
    BY <1>1 DEF ProcInit, SlotStates
  <2> QED
    BY <1>2, <1>4, <2>1 DEF OfferTimeout
<1>5. CASE Respond(f, i)
  <2> DEFINE t == [s EXCEPT !.answer = FALSE, !.clearDelay = FALSE,
                            !.clearPoll = @ \/ s.clearDelay]
  <2>1. Put(f, i, t)
    BY <1>5 DEF Respond
  <2>2. t.lpn = s.lpn /\ t.cnt = s.cnt /\ t.link = s.link
    BY <1>1 DEF SlotStates
  <2> HIDE DEF t
  <2> QED
    BY <1>2, <2>1, <2>2
<1>6. CASE PollTimeout(f, i)
  BY <1>2, <1>6 DEF PollTimeout
<1>7. CASE ClearAgain(f, i)
  BY <1>7 DEF ClearAgain, Follows
<1>8. CASE ClearTimeout(f, i)
  <2>1. StopClear(s).lpn = s.lpn /\ StopClear(s).cnt = s.cnt /\ StopClear(s).link = s.link
    BY <1>1 DEF StopClear, SlotStates
  <2> QED
    BY <1>2, <1>8, <2>1 DEF ClearTimeout
<1> QED
  BY <1>3, <1>4, <1>5, <1>6, <1>7, <1>8 DEF SlotStep

\* What a poll, a clear or a confirm does to the slots of a friend node.
LEMMA HeardFollow ==
  ASSUME NoticeInv, NEW f \in Fn, NEW m \in air, RxPoll(f, m) \/ RxClear(f, m) \/ RxClearConf(f, m),
         NEW g \in Fn, NEW k \in Slots
  PROVE  Follows(g, k)
<1>1. slot \in [Fn -> [Slots -> SlotStates]]
  BY Types DEF NoticeInv, FriendInv
<1>2. \A S \in SUBSET Slots : S # {} => MinOf(S) \in S
  BY MinIn
<1>3. slot' = slot => Follows(g, k)
  BY DEF Follows
<1>4. CASE RxPoll(f, m) /\ Decodes(f, m) /\ OfLpn(f, m.lpn) # {}
  <2> DEFINE i == MinOf(OfLpn(f, m.lpn))
             s == slot[f][i]
             t == Polled(f, s)
  <2>1. i \in Slots /\ Put(f, i, t) /\ s.lpn = m.lpn
    BY <1>2, <1>4 DEF RxPoll, OfLpn
  <2>2. m.lpn \in Lpn /\ Polling(m.lpn)
    BY <1>4 DEF RxPoll, NoticeInv, FriendInv, AirOK
  <2>3. s \in SlotStates /\ SlotOK(s)
    BY <1>1, <2>1 DEF NoticeInv, FriendInv
  <2>4. t.lpn = s.lpn /\ t.cnt = s.cnt /\ t.link = (s.offered \/ s.link)
    BY <2>3 DEF Polled, ProcInit, SlotStates
  <2>5. s.offered => Keeps(f, i, s.lpn)
    BY <2>1, <2>2, <2>3 DEF SlotOK, Keeps
  <2> HIDE DEF i, t
  <2> QED
    BY <1>1, <2>1, <2>4, <2>5 DEF Follows, Put
<1>5. CASE RxPoll(f, m) /\ ~(Decodes(f, m) /\ OfLpn(f, m.lpn) # {})
  BY <1>3, <1>5 DEF RxPoll
<1>6. CASE RxClear(f, m)
  <2> DEFINE hit == {i \in Slots : ClearHits(slot[f][i], m)}
  <2>1. slot' = slot \/ (hit # {} /\ Put(f, MinOf(hit), FreeSlot))
    BY <1>6 DEF RxClear
  <2>2. hit # {} => MinOf(hit) \in Slots
    BY <1>2
  <2> QED
    BY <1>1, <1>3, <2>1, <2>2 DEF Put, Follows
<1>7. CASE RxClearConf(f, m)
  <2> DEFINE on == {i \in Slots : slot[f][i].clearPoll /\ slot[f][i].lpn = m.lpn}
             i == MinOf(on)
             s == slot[f][i]
  <2>1. slot' = slot \/ (on # {} /\ Put(f, i, StopClear(s)))
    BY <1>7 DEF RxClearConf
  <2>2. on # {} => i \in Slots
    BY <1>2
  <2> HIDE DEF on, i
  <2>3. i \in Slots => /\ StopClear(s).lpn = s.lpn /\ StopClear(s).cnt = s.cnt
                       /\ StopClear(s).link = s.link
    BY <1>1 DEF StopClear, SlotStates
  <2> QED
    BY <1>1, <1>3, <2>1, <2>2, <2>3 DEF Put, Follows
<1> QED
  BY <1>4, <1>5, <1>6, <1>7

\* A request takes the first slot that is free or had the low power node, and no other of
\* its messages is then on its way.
LEMMA RequestPresent ==
  ASSUME SlotsInv, NEW f \in Fn, NEW m \in air, RxRequest(f, m), NEW g \in Fn, NEW l \in Lpn
  PROVE  PresentSlot(g, l)'
<1>1. /\ slot \in [Fn -> [Slots -> SlotStates]] /\ lpn' = lpn /\ air' = air \ {m}
      /\ PresentSlot(g, l) /\ m.op = "request" /\ m.dst = f
  BY Types DEF SlotsInv, NoticeInv, FriendInv, RxRequest
<1>2. (Asked(g, l)' => Asked(g, l)) /\ (Answered(g, l)' => Answered(g, l))
  BY <1>1 DEF Asked, Answered
<1>3. m.lpn \in Lpn /\ m.cnt = lpn[m.lpn].cnt
  BY <1>1 DEF SlotsInv, NoticeInv, FriendInv, AirOK
<1> DEFINE T == Takers(f, m.lpn)
           i == MinOf(T)
           s == [FreeSlot EXCEPT !.st = "offer", !.lpn = m.lpn, !.cnt = m.cnt,
                                 !.pre = m.par, !.offered = TRUE]
<1>4. CASE T = {}
  <2>1. \A k \in Slots : Follows(g, k)
    BY <1>4 DEF RxRequest, Follows
  <2> QED
    BY <1>1, <1>2, <2>1, FollowsKeeps
<1>5. CASE T # {}
  <2>1. T \subseteq Slots
    BY DEF Takers
  <2>2. i \in T /\ i \in Slots /\ Put(f, i, s)
    BY <1>5, <2>1, MinIn DEF RxRequest
  <2>3. \A j \in T : i <= j
    BY <2>1, <1>5, MinFirst
  <2>4. ~s.link /\ s.lpn = m.lpn /\ s.cnt = m.cnt
    BY DEF FreeSlot
  <2>5. \A h \in Fn, k \in Slots : slot'[h][k] = IF h = f /\ k = i THEN s ELSE slot[h][k]
    BY <1>1, <2>2 DEF Put
  <2> HIDE DEF s, i, T
  <2>6. CASE g # f \/ l # m.lpn
    <3>1. \A k \in Slots : /\ Keeps(g, k, l)' => Keeps(g, k, l)
                           /\ Keeps(g, k, l)' /\ slot[g][k].link => slot'[g][k].link
                           /\ IsFriend(g, k, l)' /\ ~Keeps(g, k, l)' =>
                                 IsFriend(g, k, l) /\ ~Keeps(g, k, l)
      BY <1>1, <2>4, <2>5, <2>6 DEF Keeps, IsFriend
    <3> QED
      BY <1>1, <1>2, <3>1, NothingNew
  <2>7. CASE g = f /\ l = m.lpn
    <3>1. Asked(f, l)
      BY <1>1, <2>7 DEF Asked
    <3>2. ~Answered(f, l)' /\ \A k \in Slots : ~Keeps(f, k, l)
      BY <1>1, <1>2, <2>7, <3>1 DEF PresentSlot
    <3>3. ~Asked(f, l)'
      BY <1>1, <2>7 DEF Asked, SlotsInv, OneRequest
    <3>4. \A k \in Slots : Keeps(f, k, l)' => k = i
      BY <1>1, <2>5, <3>2 DEF Keeps
    <3>5. ASSUME NEW k \in Slots, NEW j \in Slots, Keeps(f, k, l)', IsFriend(f, j, l)', ~Keeps(f, j, l)'
          PROVE  k < j
      <4>1. j # i /\ k = i
        BY <1>3, <2>2, <2>4, <2>5, <2>7, <3>4, <3>5 DEF IsFriend
      <4>2. j \in T
        BY <2>5, <2>7, <3>5, <4>1 DEF IsFriend, Takers, T
      <4>3. i <= j /\ i \in Int /\ j \in Int
        BY <2>2, <2>3, <4>2 DEF Slots
      <4> QED
        BY <4>1, <4>3
    <3> QED
      BY <2>7, <3>2, <3>3, <3>4, <3>5 DEF PresentSlot
  <2> QED
    BY <2>6, <2>7
<1> QED
  BY <1>4, <1>5

\* The steps of a friend node.
LEMMA FnPresent ==
  ASSUME SlotsInv, NEW f \in Fn, FnRx(f) \/ \E i \in Slots : SlotStep(f, i),
         NEW g \in Fn, NEW l \in Lpn
  PROVE  PresentSlot(g, l)'
<1>1. /\ NoticeInv /\ LinkedWaits /\ PresentSlot(g, l) /\ lpn' = lpn
      /\ slot \in [Fn -> [Slots -> SlotStates]]
  BY OffersSent, Types DEF SlotsInv, NoticeInv, FriendInv
<1>2. Asked(g, l)' => Asked(g, l)
  BY FnSends DEF Asked
<1>3. CASE \E m \in air : RxRequest(f, m)
  BY <1>3, RequestPresent
<1>4. CASE ~\E m \in air : RxRequest(f, m)
  <2>1. \A k \in Slots : Follows(g, k)
    BY <1>1, <1>4, TimersFollow, HeardFollow DEF FnRx
  <2>2. CASE Answered(g, l)' => Answered(g, l)
    BY <1>1, <1>2, <2>1, <2>2, FollowsKeeps
  <2>3. CASE Answered(g, l)' /\ ~Answered(g, l)
    <3>1. PICK m \in air' : m \notin air /\ m.op = "update" /\ m.src = g /\ m.dst = l /\ m.cnt = lpn[l].cnt
      BY <1>1, <2>3 DEF Answered
    <3>2. PICK i \in Slots : /\ slot[f][i].link
                             /\ m = Update(f, slot[f][i].lpn, slot[f][i].cnt, slot[f][i].fri)
      BY <1>1, <3>1, UpdatesSent
    <3>3. f = g /\ Keeps(g, i, l) /\ slot[g][i].link
      BY <3>1, <3>2 DEF Keeps, Update, Msg
    <3>4. ~Asked(g, l)'
      BY <1>1, <1>2, <3>3 DEF PresentSlot
    <3>5. l # None /\ FreeSlot.lpn = None /\ ~FreeSlot.link
      BY FriendshipAssumption DEF FreeSlot
    <3>6. \A k \in Slots : /\ Keeps(g, k, l)' => Keeps(g, k, l)
                           /\ Keeps(g, k, l)' /\ slot[g][k].link => slot'[g][k].link
                           /\ IsFriend(g, k, l)' /\ ~Keeps(g, k, l)' =>
                                 IsFriend(g, k, l) /\ ~Keeps(g, k, l)
      BY <1>1, <2>1, <3>5 DEF Follows, Keeps, IsFriend
    <3>7. \A k \in Slots : Keeps(g, k, l)' => slot'[g][k].link
      BY <1>1, <3>3, <3>6 DEF PresentSlot
    <3>8. \A j, k \in Slots : Keeps(g, j, l)' /\ Keeps(g, k, l)' => j = k
      BY <1>1, <3>6 DEF PresentSlot
    <3>9. \A k, j \in Slots : Keeps(g, k, l)' /\ IsFriend(g, j, l)' /\ ~Keeps(g, j, l)' => k < j
      BY <1>1, <3>6 DEF PresentSlot
    <3> QED
      BY <3>4, <3>7, <3>8, <3>9 DEF PresentSlot
  <2> QED
    BY <2>2, <2>3
<1> QED
  BY <1>3, <1>4

\* What the steps of a low power node but a new request change.
LEMMA SameSession ==
  ASSUME NoticeInv, NEW l \in Lpn, LpnStep(l), ~SendRequest(l)
  PROVE  /\ lpn'[l].cnt = lpn[l].cnt
         /\ \A m \in air' : m \in air \/ m.op = "poll"
         /\ lpn'[l].st = "friend" =>
              \/ lpn[l].st = "friend" /\ lpn'[l].fn = lpn[l].fn
              \/ \E m \in air : /\ m.op = "update" /\ m.src = lpn'[l].fn /\ m.dst = l
                                /\ m.cnt = lpn[l].cnt
<1>1. lpn \in [Lpn -> LpnStates] /\ lpn[l] \in LpnStates
  BY Types DEF NoticeInv, FriendInv
<1>2. Requesting(lpn[l]).cnt = lpn[l].cnt /\ Requesting(lpn[l]).st = "request"
  BY <1>1, LpnTypes
<1>3. CASE FirstPoll(l) \/ StartPoll(l) \/ RetryPoll(l)
  <2>1. /\ lpn'[l].cnt = lpn[l].cnt
        /\ lpn'[l].st = "friend" => lpn[l].st = "friend" /\ lpn'[l].fn = lpn[l].fn
    BY <1>1, <1>2, <1>3 DEF FirstPoll, StartPoll, RetryPoll, LpnStates
  <2>2. \A m \in air' : m \in air \/ m.op = "poll"
    BY <1>3 DEF FirstPoll, StartPoll, RetryPoll, PollOf, Poll, Msg
  <2> QED
    BY <2>1, <2>2
<1>4. CASE EndOffers(l)
  BY <1>1, <1>4 DEF EndOffers, LpnStates
<1>5. ASSUME NEW m \in air, RxOffer(l, m)
      PROVE  /\ lpn'[l].cnt = lpn[l].cnt /\ air' \subseteq air
             /\ lpn'[l].st = "friend" => lpn[l].st = "friend" /\ lpn'[l].fn = lpn[l].fn
  BY <1>1, <1>5 DEF RxOffer, LpnStates
<1>6. ASSUME NEW m \in air, RxUpdate(l, m)
      PROVE  /\ lpn'[l].cnt = lpn[l].cnt /\ air' \subseteq air
             /\ lpn'[l].fn = lpn[l].fn
             /\ lpn'[l] # lpn[l] => m.op = "update" /\ m.src = lpn[l].fn /\ m.dst = l /\ m.cnt = lpn[l].cnt
  BY <1>1, <1>6 DEF RxUpdate, LpnStates
<1>7. CASE \E m \in air : RxUpdate(l, m)
  BY <1>6, <1>7
<1> QED
  BY <1>3, <1>4, <1>5, <1>7 DEF LpnStep

\* The steps of a low power node.
LEMMA LpnPresent ==
  ASSUME SlotsInv, NEW k \in Lpn, LpnStep(k), NEW f \in Fn, NEW l \in Lpn
  PROVE  PresentSlot(f, l)'
<1>1. /\ NoticeInv /\ PresentSlot(f, l) /\ lpn \in [Lpn -> LpnStates]
      /\ slot \in [Fn -> [Slots -> SlotStates]] /\ MaxCounter \in Nat
  BY Types, FriendshipAssumption DEF SlotsInv, NoticeInv, FriendInv
<1>2. slot' = slot
  BY DEF LpnStep, SendRequest, EndOffers, FirstPoll, StartPoll, RetryPoll, RxOffer, RxUpdate
<1>3. k # l => lpn'[l] = lpn[l]
  BY <1>1 DEF LpnStep, SendRequest, EndOffers, FirstPoll, StartPoll, RetryPoll, RxOffer, RxUpdate
<1>4. ASSUME lpn'[l].cnt = lpn[l].cnt, Asked(f, l)' => Asked(f, l), Answered(f, l)' => Answered(f, l)
      PROVE  PresentSlot(f, l)'
  <2>1. \A j \in Slots : /\ Keeps(f, j, l)' <=> Keeps(f, j, l)
                         /\ IsFriend(f, j, l)' <=> IsFriend(f, j, l)
    BY <1>2, <1>4 DEF Keeps, IsFriend
  <2> QED
    BY <1>1, <1>2, <1>4, <2>1, NothingNew
<1>5. CASE k # l
  <2>1. \A m \in air' : (m.op = "request" /\ m.lpn = l) \/ m.op = "update" => m \in air
    BY <1>5, LpnSends
  <2>2. (Asked(f, l)' => Asked(f, l)) /\ (Answered(f, l)' => Answered(f, l))
    BY <1>3, <1>5, <2>1 DEF Asked, Answered
  <2> QED
    BY <1>3, <1>4, <1>5, <2>2
<1>6. CASE k = l /\ ~SendRequest(l)
  <2>1. /\ lpn'[l].cnt = lpn[l].cnt
        /\ \A m \in air' : m \in air \/ m.op = "poll"
        /\ lpn'[l].st = "friend" =>
             \/ lpn[l].st = "friend" /\ lpn'[l].fn = lpn[l].fn
             \/ \E m \in air : /\ m.op = "update" /\ m.src = lpn'[l].fn /\ m.dst = l
                               /\ m.cnt = lpn[l].cnt
    BY <1>1, <1>6, SameSession
  <2>2. Asked(f, l)' => Asked(f, l)
    BY <2>1 DEF Asked
  <2>3. Answered(f, l)' => Answered(f, l)
    BY <2>1 DEF Answered
  <2> QED
    BY <1>4, <2>1, <2>2, <2>3
<1>7. CASE SendRequest(l)
  <2>1. lpn'[l].cnt = lpn[l].cnt + 1 /\ lpn'[l].st = "offer" /\ lpn[l].cnt \in Nat
    <3>1. Requesting(lpn[l]) \in LpnStates /\ lpn[l].cnt \in Nat
      BY <1>1, LpnTypes
    <3> QED
      BY <1>1, <1>7, <3>1 DEF SendRequest, LpnStates
  <2>2. \A j \in Slots : ~Keeps(f, j, l)'
    <3>1. \A j \in Slots : slot[f][j].lpn = l => slot[f][j].cnt <= lpn[l].cnt
      BY <1>1 DEF NoticeInv, FriendInv, SlotOK
    <3>2. \A j \in Slots : slot[f][j].cnt \in Int
      BY <1>1 DEF SlotStates
    <3>3. \A a \in Int, b \in Nat : a <= b => a # b + 1
      OBVIOUS
    <3> QED
      BY <1>2, <2>1, <3>1, <3>2, <3>3 DEF Keeps
  <2>3. ~Answered(f, l)'
    <3>1. ASSUME NEW m \in air', m.op = "update", m.dst = l PROVE FALSE
      <4>1. m \in air /\ ~(OneHop(m) /\ m.lpn = l)
        BY <1>7, <3>1 DEF SendRequest, RequestMsgs, Msg
      <4>2. m.lpn = m.dst
        BY <1>1, <3>1, <4>1 DEF NoticeInv, UpdatesOK, Update, Msg
      <4> QED
        BY <3>1, <4>1, <4>2 DEF OneHop
    <3> QED
      BY <2>1, <3>1 DEF Answered
  <2> QED
    BY <2>2, <2>3 DEF PresentSlot
<1> QED
  BY <1>5, <1>6, <1>7

\* A low power node asks each friend node once in a session.
LEMMA RequestsOnce ==
  ASSUME SlotsInv, NEW l \in Lpn, LpnStep(l)
  PROVE  OneRequest'
<1>1. CASE SendRequest(l)
  <2>1. \A m \in air' : \/ m \in air /\ ~(OneHop(m) /\ m.lpn = l)
                        \/ /\ m.lpn = l
                           /\ m = Msg("request", l, m.dst, l, lpn[l].cnt + 1, lpn[l].pre)
    BY <1>1 DEF SendRequest, RequestMsgs, Msg
  <2> QED
    BY <2>1 DEF SlotsInv, OneRequest, OneHop
<1>2. CASE ~SendRequest(l)
  <2>1. \A m \in air' : m.op = "request" => m \in air
    BY <1>2, SameSession DEF SlotsInv
  <2> QED
    BY <2>1 DEF SlotsInv, OneRequest
<1> QED
  BY <1>1, <1>2

\* SlotsInv at the start.
LEMMA SlotsInit == Init => SlotsInv
<1> SUFFICES ASSUME Init PROVE SlotsInv
  OBVIOUS
<1>1. NoticeInv /\ OneRequest
  BY NoticeInit DEF Init, OneRequest
<1>2. ASSUME NEW f \in Fn, NEW l \in Lpn PROVE PresentSlot(f, l)
  <2>1. \A k \in Slots : slot[f][k] = FreeSlot
    BY DEF Init
  <2>2. \A k \in Slots : slot[f][k].lpn # l
    BY <2>1, FriendshipAssumption DEF FreeSlot
  <2>3. ~Answered(f, l)
    BY DEF Init, Answered
  <2> QED
    BY <2>2, <2>3 DEF PresentSlot, Keeps
<1> QED
  BY <1>1, <1>2 DEF SlotsInv

\* SlotsInv after every step.
LEMMA SlotsNext == SlotsInv /\ [Next]_vars => SlotsInv'
<1> SUFFICES ASSUME SlotsInv, [Next]_vars PROVE SlotsInv'
  OBVIOUS
<1>1. NoticeInv'
  BY NoticeNext DEF SlotsInv
<1>2. CASE UNCHANGED vars \/ \E m \in air : Lose(m)
  <2>1. lpn' = lpn /\ slot' = slot /\ air' \subseteq air
    BY <1>2 DEF vars, Lose
  <2>2. OneRequest'
    BY <2>1 DEF SlotsInv, OneRequest
  <2>3. ASSUME NEW f \in Fn, NEW l \in Lpn PROVE PresentSlot(f, l)'
    <3>1. (Asked(f, l)' => Asked(f, l)) /\ (Answered(f, l)' => Answered(f, l))
      BY <2>1 DEF Asked, Answered
    <3>2. PresentSlot(f, l) /\ \A k \in Slots : Follows(f, k)
      BY <2>1 DEF SlotsInv, Follows
    <3> QED
      BY <2>1, <3>1, <3>2, FollowsKeeps
  <2> QED
    BY <1>1, <2>2, <2>3 DEF SlotsInv
<1>3. ASSUME NEW l \in Lpn, LpnStep(l) PROVE SlotsInv'
  BY <1>1, <1>3, LpnPresent, RequestsOnce DEF SlotsInv
<1>4. ASSUME NEW f \in Fn, FnRx(f) \/ \E i \in Slots : SlotStep(f, i) PROVE SlotsInv'
  <2>1. OneRequest'
    BY <1>4, FnSends DEF SlotsInv, OneRequest
  <2> QED
    BY <1>1, <1>4, <2>1, FnPresent DEF SlotsInv
<1> QED
  BY <1>2, <1>3, <1>4 DEF Next

\* An old friend hears the polls only of a low power node that waits for its first update:
\* the slot with the credentials of the session is before, and free again.
LEMMA StaleHears ==
  ASSUME SlotsInv, NEW l \in Lpn, NEW f \in Fn, NEW i \in Slots, Stale(l, f, i)
  PROVE  /\ slot[f][i].st = "check"
         /\ \A m \in air : Hears(f, i, m) => lpn[l].st = "update" /\ PollOf(l) \in air
<1>1. /\ slot \in [Fn -> [Slots -> SlotStates]] /\ IsFriend(f, i, l)
      /\ slot[f][i].st = "check" /\ l # None
  BY Types, FriendshipAssumption
     DEF Stale, SlotsInv, NoticeInv, FriendInv, LinkedWaits, Waits, IsFriend
<1>2. ASSUME NEW m \in air, Hears(f, i, m)
      PROVE  lpn[l].st = "update" /\ PollOf(l) \in air
  <2>1. m.op = "poll" /\ m.dst = f /\ m.lpn = l /\ i = MinOf(OfLpn(f, l)) /\ i \in OfLpn(f, l)
    BY <1>1, <1>2 DEF Hears, OfLpn, IsFriend
  <2>2. Polling(l) /\ m = PollOf(l)
    BY <2>1 DEF SlotsInv, NoticeInv, FriendInv, AirOK
  <2>3. lpn[l].fn = f /\ m.cnt = lpn[l].cnt
    BY <2>1, <2>2 DEF PollOf, Poll, Msg
  <2>4. ~Keeps(f, i, l)
    BY <2>3 DEF Stale, Keeps
  <2>5. PICK k \in Slots : Keeps(f, k, l)
    BY <1>2, <2>1, <2>3 DEF Hears, Decodes, Keeps
  <2>6. k < i
    BY <1>1, <2>4, <2>5 DEF SlotsInv, PresentSlot
  <2>7. k \notin OfLpn(f, l)
    <3>1. ASSUME k \in OfLpn(f, l) PROVE FALSE
      <4>1. OfLpn(f, l) \in SUBSET Slots
        BY DEF OfLpn
      <4>2. i <= k
        BY <2>1, <3>1, <4>1, MinFirst
      <4> QED
        BY <2>6, <4>2 DEF Slots
    <3> QED
      BY <3>1
  <2>8. ~slot[f][k].link
    <3>1. slot[f][k].st = "idle"
      BY <2>5, <2>7 DEF OfLpn, Keeps
    <3> QED
      BY <3>1 DEF SlotsInv, NoticeInv, LinkedWaits, Waits
  <2>9. lpn[l].st # "friend"
    BY <2>3, <2>5, <2>8 DEF SlotsInv, PresentSlot, Answered
  <2> QED
    BY <1>2, <2>2, <2>9 DEF Polling
<1> QED
  BY <1>1, <1>2

\* How far a low power node is from its last poll as a node without a friend: the requests
\* that it may still send, and the polls in each session.
Phase(l) ==
    CASE lpn[l].st = "offer"  -> PollRetries + 2
      [] lpn[l].st = "poll"   -> PollRetries + 1
      [] lpn[l].st = "update" -> lpn[l].retry
      [] OTHER                -> 0
Ahead(l) == (MaxCounter - lpn[l].cnt) * (PollRetries + 3) + Phase(l)
Waiting(l) == lpn[l].st = "update" /\ PollOf(l) \in air

\* Its range.
LEMMA AheadRange ==
  ASSUME NoticeInv, NEW l \in Lpn
  PROVE  Ahead(l) \in 0 .. MaxCounter * (PollRetries + 3) + PollRetries + 2
<1>1. /\ lpn[l].cnt \in 0 .. MaxCounter /\ lpn[l].retry \in 0 .. PollRetries
      /\ PollRetries \in Nat /\ MaxCounter \in Nat
  BY Types, FriendshipAssumption DEF NoticeInv, FriendInv, LpnStates
<1>2. Phase(l) \in 0 .. PollRetries + 2
  BY <1>1 DEF Phase
<1>3. \A a, b, k \in Nat : a <= b => a * k <= b * k /\ a * k \in Nat
  OBVIOUS
<1> DEFINE a == MaxCounter - lpn[l].cnt
           k == PollRetries + 3
<1>4. a \in Nat /\ a <= MaxCounter /\ k \in Nat
  BY <1>1
<1>5. a * k <= MaxCounter * k /\ a * k \in Nat /\ MaxCounter * k \in Nat
  BY <1>1, <1>3, <1>4
<1>6. Ahead(l) = a * k + Phase(l)
  BY DEF Ahead
<1> HIDE DEF a, k
<1>7. a * k + Phase(l) \in 0 .. MaxCounter * k + PollRetries + 2
  BY <1>1, <1>2, <1>5
<1> QED
  BY <1>6, <1>7 DEF k

\* A session less outweighs the phases of the next.
LEMMA SessionLess ==
  ASSUME NoticeInv, NEW l \in Lpn, SendRequest(l)
  PROVE  Ahead(l)' < Ahead(l) /\ ~Waiting(l)'
<1>1. /\ lpn \in [Lpn -> LpnStates] /\ lpn[l].cnt \in Nat /\ Requesting(lpn[l]) \in LpnStates
      /\ PollRetries \in Nat /\ MaxCounter \in Nat /\ lpn[l].st = "request"
  BY Types, LpnTypes, FriendshipAssumption DEF NoticeInv, FriendInv, SendRequest
<1>2. lpn'[l].st = "offer" /\ lpn'[l].cnt = lpn[l].cnt + 1
  BY <1>1 DEF SendRequest, LpnStates
<1>3. Phase(l)' = PollRetries + 2 /\ Phase(l) = 0
  BY <1>1, <1>2 DEF Phase
<1>4. \A a, k \in Int : a * k = (a - 1) * k + k
  OBVIOUS
<1> DEFINE a == MaxCounter - lpn[l].cnt
           k == PollRetries + 3
<1>5. a \in Int /\ k \in Int /\ MaxCounter - lpn'[l].cnt = a - 1
  BY <1>1, <1>2
<1>6. Ahead(l) = a * k /\ Ahead(l)' = (a - 1) * k + (PollRetries + 2)
  <2>1. a * k \in Int
    BY <1>5
  <2> QED
    BY <1>3, <1>5, <2>1 DEF Ahead
<1>7. a * k = (a - 1) * k + k /\ (a - 1) * k \in Int
  BY <1>4, <1>5
<1>8. Ahead(l)' < Ahead(l)
  <2>1. \A y, z, r \in Int : y = z + (r + 3) => z + (r + 2) < y
    OBVIOUS
  <2> QED
    BY <1>1, <1>5, <1>6, <1>7, <2>1
<1> QED
  BY <1>2, <1>8 DEF Waiting

\* In one session it is the phase that counts.
LEMMA PhaseCounts ==
  ASSUME NoticeInv, NEW l \in Lpn, lpn'[l].cnt = lpn[l].cnt, Phase(l)' \in Int
  PROVE  /\ Phase(l)' < Phase(l) => Ahead(l)' < Ahead(l)
         /\ Phase(l)' = Phase(l) => Ahead(l)' = Ahead(l)
<1>1. /\ lpn[l].cnt \in 0 .. MaxCounter /\ lpn[l].retry \in 0 .. PollRetries
      /\ PollRetries \in Nat /\ MaxCounter \in Nat
  BY Types, FriendshipAssumption DEF NoticeInv, FriendInv, LpnStates
<1>2. Phase(l) \in Int
  BY <1>1 DEF Phase
<1> DEFINE c == (MaxCounter - lpn[l].cnt) * (PollRetries + 3)
<1>3. c \in Int
  BY <1>1
<1>4. Ahead(l) = c + Phase(l) /\ Ahead(l)' = c + Phase(l)'
  BY DEF Ahead
<1> HIDE DEF c
<1> QED
  BY <1>2, <1>3, <1>4

\* No step takes a low power node further from its last poll; one that makes it wait for a
\* first update brings it nearer.
LEMMA AheadFalls ==
  ASSUME NoticeInv, NEW l \in Lpn, [Next]_vars
  PROVE  \/ Ahead(l)' < Ahead(l)
         \/ Ahead(l)' = Ahead(l) /\ (Waiting(l)' => Waiting(l))
<1>1. /\ lpn \in [Lpn -> LpnStates] /\ lpn[l] \in LpnStates /\ lpn[l].retry \in 0 .. PollRetries
      /\ PollRetries \in Nat \ {0}
  BY Types, FriendshipAssumption DEF NoticeInv, FriendInv, LpnStates
<1>2. ASSUME lpn'[l] = lpn[l], PollOf(l) \in air' => PollOf(l) \in air
      PROVE  Ahead(l)' = Ahead(l) /\ (Waiting(l)' => Waiting(l))
  BY <1>2 DEF Ahead, Phase, Waiting, PollOf, Poll, Msg
<1>3. PollOf(l).op = "poll" /\ PollOf(l).lpn = l
  BY DEF PollOf, Poll, Msg
<1>4. CASE UNCHANGED vars \/ \E m \in air : Lose(m)
  BY <1>2, <1>4 DEF vars, Lose
<1>5. ASSUME NEW k \in Lpn, k # l, LpnStep(k)
      PROVE  Ahead(l)' = Ahead(l) /\ (Waiting(l)' => Waiting(l))
  <2>1. lpn'[l] = lpn[l]
    BY <1>1, <1>5 DEF LpnStep, SendRequest, EndOffers, FirstPoll, StartPoll, RetryPoll, RxOffer, RxUpdate
  <2> QED
    BY <1>2, <1>3, <1>5, <2>1, LpnSends
<1>6. ASSUME NEW f \in Fn, FnRx(f) \/ \E i \in Slots : SlotStep(f, i)
      PROVE  Ahead(l)' = Ahead(l) /\ (Waiting(l)' => Waiting(l))
  BY <1>2, <1>3, <1>6, OffersSent, FnSends
<1>7. CASE LpnStep(l)
  <2>1. CASE SendRequest(l)
    BY <2>1, SessionLess
  <2>2. CASE EndOffers(l)
    <3>1. lpn[l].st = "offer" /\ lpn'[l].st = "poll" /\ lpn'[l].cnt = lpn[l].cnt
      BY <1>1, <2>2 DEF EndOffers, LpnStates
    <3>2. Phase(l) = PollRetries + 2 /\ Phase(l)' = PollRetries + 1
      BY <3>1 DEF Phase
    <3> QED
      BY <1>1, <3>1, <3>2, PhaseCounts
  <2>3. CASE FirstPoll(l)
    <3>1. CASE lpn' = [lpn EXCEPT ![l].st = "update", ![l].retry = PollRetries]
      <4>1. /\ lpn[l].st = "poll" /\ lpn'[l].st = "update" /\ lpn'[l].cnt = lpn[l].cnt
            /\ lpn'[l].retry = PollRetries
        BY <1>1, <2>3, <3>1 DEF FirstPoll, LpnStates
      <4>2. Phase(l) = PollRetries + 1 /\ Phase(l)' = PollRetries
        BY <4>1 DEF Phase
      <4> QED
        BY <1>1, <4>1, <4>2, PhaseCounts
    <3>2. CASE lpn' = [lpn EXCEPT ![l] = Requesting(@)]
      <4>1. lpn[l].st = "poll" /\ lpn'[l].st = "request" /\ lpn'[l].cnt = lpn[l].cnt
        BY <1>1, <2>3, <3>2, LpnTypes DEF FirstPoll
      <4>2. Phase(l) = PollRetries + 1 /\ Phase(l)' = 0
        BY <4>1 DEF Phase
      <4> QED
        BY <1>1, <4>1, <4>2, PhaseCounts
    <3> QED
      BY <2>3, <3>1, <3>2 DEF FirstPoll
  <2>4. CASE StartPoll(l)
    <3>1. lpn[l].st = "friend" /\ lpn'[l].st = "friend" /\ lpn'[l].cnt = lpn[l].cnt
      BY <1>1, <2>4 DEF StartPoll, LpnStates
    <3>2. Phase(l) = 0 /\ Phase(l)' = 0
      BY <3>1 DEF Phase
    <3> QED
      BY <3>1, <3>2, PhaseCounts DEF Waiting
  <2>5. CASE RetryPoll(l)
    <3>1. Polling(l) /\ lpn[l].retry \in Nat /\ lpn[l].retry > 0
      BY <1>1, <2>5 DEF RetryPoll, NoticeInv, FriendInv, RetriesOK
    <3>2. CASE lpn' = [lpn EXCEPT ![l].retry = @ - 1]
      <4>1. /\ lpn'[l].st = lpn[l].st /\ lpn'[l].cnt = lpn[l].cnt
            /\ lpn'[l].retry = lpn[l].retry - 1
        BY <1>1, <3>2 DEF LpnStates
      <4>2. CASE lpn[l].st = "update"
        <5>1. Phase(l) = lpn[l].retry /\ Phase(l)' = lpn[l].retry - 1
          BY <4>1, <4>2 DEF Phase
        <5> QED
          BY <3>1, <4>1, <5>1, PhaseCounts
      <4>3. CASE lpn[l].st = "friend"
        <5>1. Phase(l) = 0 /\ Phase(l)' = 0
          BY <4>1, <4>3 DEF Phase
        <5> QED
          BY <4>1, <4>3, <5>1, PhaseCounts DEF Waiting
      <4> QED
        BY <3>1, <4>2, <4>3 DEF Polling
    <3>3. CASE lpn' = [lpn EXCEPT ![l] = Requesting(@)]
      <4>1. lpn'[l].st = "request" /\ lpn'[l].cnt = lpn[l].cnt
        BY <1>1, <3>3, LpnTypes
      <4>2. Phase(l)' = 0 /\ (Phase(l) = 0 \/ Phase(l) > 0)
        BY <1>1, <3>1, <4>1 DEF Phase, Polling
      <4> QED
        BY <4>1, <4>2, PhaseCounts DEF Waiting
    <3> QED
      BY <2>5, <3>2, <3>3 DEF RetryPoll
  <2>6. ASSUME NEW m \in air, RxOffer(l, m)
        PROVE  Ahead(l)' = Ahead(l) /\ (Waiting(l)' => Waiting(l))
    <3>1. CASE lpn' = lpn
      BY <1>2, <2>6, <3>1 DEF RxOffer
    <3>2. CASE lpn' # lpn
      <4>1. lpn[l].st = "offer" /\ lpn'[l].st = "offer" /\ lpn'[l].cnt = lpn[l].cnt
        BY <1>1, <2>6, <3>2 DEF RxOffer, LpnStates
      <4>2. Phase(l) = PollRetries + 2 /\ Phase(l)' = PollRetries + 2
        BY <4>1 DEF Phase
      <4> QED
        BY <1>1, <4>1, <4>2, PhaseCounts DEF Waiting
    <3> QED
      BY <3>1, <3>2
  <2>7. ASSUME NEW m \in air, RxUpdate(l, m)
        PROVE  \/ Ahead(l)' < Ahead(l)
               \/ Ahead(l)' = Ahead(l) /\ (Waiting(l)' => Waiting(l))
    <3>1. CASE lpn' = lpn
      BY <1>2, <2>7, <3>1 DEF RxUpdate
    <3>2. CASE lpn' # lpn
      <4>1. lpn[l].retry > 0 /\ lpn'[l].st = "friend" /\ lpn'[l].cnt = lpn[l].cnt
        BY <1>1, <2>7, <3>2 DEF RxUpdate, LpnStates
      <4>2. Polling(l)
        BY <4>1 DEF NoticeInv, FriendInv, RetriesOK
      <4>3. Phase(l)' = 0 /\ (Phase(l) = 0 \/ Phase(l) > 0)
        BY <4>1, <4>2 DEF Phase, Polling
      <4> QED
        BY <4>1, <4>3, PhaseCounts DEF Waiting
    <3> QED
      BY <3>1, <3>2
  <2> QED
    BY <1>7, <2>1, <2>2, <2>3, <2>4, <2>5, <2>6, <2>7 DEF LpnStep
<1> QED
  BY <1>4, <1>5, <1>6, <1>7 DEF Next

\* While an old friend stays, the low power node comes nearer to its last poll.
LEMMA OldFriendWaits ==
  ASSUME NEW l \in Lpn, NEW f \in Fn, NEW i \in Slots, NEW n \in Nat
  PROVE  FairSpec /\ []GuardsSuffice
            => ((Stale(l, f, i) /\ Ahead(l) = n) ~> (~Stale(l, f, i) \/ Ahead(l) < n))
<1> DEFINE S == Stale(l, f, i)
           P == Ahead(l) = n
           L == Ahead(l) < n
           W == Waiting(l)
<1>1. SlotsInv /\ P /\ [Next]_vars => L' \/ (P' /\ (~W => ~W'))
  <2> SUFFICES ASSUME SlotsInv, P, [Next]_vars PROVE L' \/ (P' /\ (~W => ~W'))
    OBVIOUS
  <2> QED
    BY AheadFalls DEF SlotsInv
<1>2. SlotsInv /\ <<Ends(l, "poll")>>_vars => ~W'
  <2> SUFFICES ASSUME SlotsInv, Ends(l, "poll") PROVE ~W'
    OBVIOUS
  <2>1. PollOf(l)' = PollOf(l) /\ PollOf(l) \notin air'
    BY DEF Ends, Lose, PollOf, Poll, Msg, SlotsInv, NoticeInv, FriendInv, AirOK
  <2> QED
    BY <2>1 DEF Waiting
<1>3. GuardsSuffice /\ W => ENABLED <<Ends(l, "poll")>>_vars
  BY DEF GuardsSuffice, Waiting
<1>4. SlotsInv /\ GuardsSuffice /\ S /\ ~W => ENABLED <<PollTimeout(f, i)>>_vars
  <2> SUFFICES ASSUME SlotsInv, GuardsSuffice, S, ~W PROVE ENABLED <<PollTimeout(f, i)>>_vars
    OBVIOUS
  <2>1. slot[f][i].st = "check" /\ \A m \in air : ~Hears(f, i, m)
    BY StaleHears DEF Waiting
  <2> QED
    BY <2>1 DEF GuardsSuffice
<1>5. SlotsInv /\ <<PollTimeout(f, i)>>_vars => ~S'
  <2> SUFFICES ASSUME SlotsInv, PollTimeout(f, i) PROVE ~slot'[f][i].link
    BY DEF Stale, IsFriend
  <2>1. slot \in [Fn -> [Slots -> SlotStates]]
    BY Types DEF SlotsInv, NoticeInv, FriendInv
  <2> QED
    BY <2>1, FreeSlotOK DEF PollTimeout, Put
<1>6. FairSpec => Spec /\ SlotRuns(f, i) /\ MessagesEnd(l, "poll")
  BY DEF FairSpec
<1> HIDE DEF S, P, L, W
<1> QED
  BY <1>1, <1>2, <1>3, <1>4, <1>5, <1>6, SlotsInit, SlotsNext, PTL
     DEF Spec, SlotRuns, MessagesEnd, S, P, L

LetsGoBefore(l, f, i, n) == (Stale(l, f, i) /\ Ahead(l) < n) ~> ~Stale(l, f, i)

\* OldFriendLetsGo, for any slots of a friend node.  An old friend may take the polls to the
\* slot of the new session, when that is free again, for its own and its time starts anew;
\* but the low power node has no friend then, and ends its polls and its sessions.
THEOREM OldFriendsLetGo == FairSpec /\ []GuardsSuffice => OldFriendLetsGo
<1> SUFFICES ASSUME NEW l \in Lpn, NEW f \in Fn, NEW i \in Slots
             PROVE  FairSpec /\ []GuardsSuffice => LetsGo(l, f, i)
  BY DEF OldFriendLetsGo
<1> DEFINE Most == MaxCounter * (PollRetries + 3) + PollRetries + 3
<1>0. Most \in Nat
  <2>1. \A a, b \in Nat : a * b \in Nat
    OBVIOUS
  <2> QED
    BY <2>1, FriendshipAssumption
<1>1. SlotsInv => ~(Ahead(l) < 0) /\ Ahead(l) < Most /\ Ahead(l) \in Int
  <2> SUFFICES ASSUME SlotsInv PROVE ~(Ahead(l) < 0) /\ Ahead(l) < Most /\ Ahead(l) \in Int
    OBVIOUS
  <2> DEFINE p == MaxCounter * (PollRetries + 3)
  <2>1. Ahead(l) \in 0 .. p + PollRetries + 2
    BY AheadRange DEF SlotsInv
  <2>2. p \in Int /\ PollRetries \in Int
    BY FriendshipAssumption
  <2> HIDE DEF p
  <2>3. ~(Ahead(l) < 0) /\ Ahead(l) < p + PollRetries + 3 /\ Ahead(l) \in Int
    BY <2>1, <2>2
  <2> QED
    BY <2>3 DEF p
<1>2. FairSpec => []SlotsInv
  BY SlotsInit, SlotsNext, PTL DEF FairSpec, Spec
<1>3. FairSpec => LetsGoBefore(l, f, i, 0)
  BY <1>1, <1>2, PTL DEF LetsGoBefore
<1>4. ASSUME NEW n \in Nat
      PROVE  FairSpec /\ []GuardsSuffice /\ LetsGoBefore(l, f, i, n) => LetsGoBefore(l, f, i, n + 1)
  <2>1. FairSpec /\ []GuardsSuffice
          => ((Stale(l, f, i) /\ Ahead(l) = n) ~> (~Stale(l, f, i) \/ Ahead(l) < n))
    BY OldFriendWaits
  <2>2. SlotsInv /\ Ahead(l) < n + 1 => Ahead(l) = n \/ Ahead(l) < n
    BY <1>1
  <2> QED
    BY <1>2, <2>1, <2>2, PTL DEF LetsGoBefore
<1>5. FairSpec /\ []GuardsSuffice => LetsGoBefore(l, f, i, Most)
  <2> SUFFICES ASSUME FairSpec /\ []GuardsSuffice PROVE LetsGoBefore(l, f, i, Most)
    OBVIOUS
  <2>1. PICK F : Named(F) /\ \A n \in Nat : F[n] = 1 <=> LetsGoBefore(l, f, i, n)
    <3>1. Named([n \in Nat |-> IF LetsGoBefore(l, f, i, n) THEN 1 ELSE 0])
      BY DEF Named
    <3> QED
      BY <3>1
  <2>2. F[0] = 1
    BY <1>3, <2>1
  <2>3. \A n \in Nat : F[n] = 1 => F[n + 1] = 1
    BY <1>4, <2>1
  <2>4. \A n \in Nat : F[n] = 1
    BY <2>2, <2>3, Induction
  <2> QED
    BY <1>0, <2>1, <2>4
<1> QED
  BY <1>1, <1>2, <1>5, PTL DEF LetsGo, LetsGoBefore

-----------------------------------------------------------------------------
(* FriendQueue: the inductive invariant *)

Rings == [ring : [0 .. MailSlots - 1 -> Item], w : Nat, r : Nat]
RingOK(c) == c \in Rings /\ Count(c) \in 0 .. MailSlots
InRing(c) == c.r .. c.w - 1
At(c, k) == c.ring[Slot(k)]
ForPeer(x) == x.kind # "upd"

\* The messages in the mailbox are in the order of their numbers, the last of which is m.
Ordered(c, m) ==
    /\ \A k, l \in InRing(c) : k < l /\ ForPeer(At(c, k)) /\ ForPeer(At(c, l)) =>
          At(c, k).sno < At(c, l).sno
    /\ \A k \in InRing(c) : ForPeer(At(c, k)) => At(c, k).sno \in 1 .. m

\* The messages that were never answered with, which are those behind the head and, after
\* an overwrite (o), the head, are newer than number n.
Newer(c, o, n) ==
    \A k \in InRing(c) : (k > c.r \/ o) /\ ForPeer(At(c, k)) => At(c, k).sno > n

\* The answer under way is the head, unless the head was overwritten.  So is the one in the
\* air, and then none is under way.
AnswersOK ==
    /\ rsp # NoAnswer /\ ~over => rsp = Slot(cache.r)
    /\ \A x \in answers :
          /\ ~over => x = First(cache)
          /\ ForPeer(x) => x.sno <= nMsg /\ Newer(cache, over, x.sno)
          /\ \A y \in answers : y = x
          /\ rsp = NoAnswer

\* A poll in the air carries the present FSN, and says which round it is of.
PollOK ==
    poll # NoPoll =>
        up /\ poll.fsn = fsn /\ retry > 0 /\ (poll.again <=> retry <= RetryMax)

\* Before the second round an FSN that differs from the friend's says that the low power
\* node has accepted the head, and then no answer is under way.
FirstRound == up /\ (retry = 0 \/ retry > RetryMax)
HeadOK ==
    FirstRound /\ fsn # fnFsn =>
        /\ rsp = NoAnswer
        /\ ~over /\ Count(cache) > 0 /\ ForPeer(First(cache)) => First(cache).sno \in got

MailInv ==
    /\ MailTypeOK /\ Ordered(cache, nMsg)
    /\ Newer(cache, over, seen["peer"]) /\ seen["peer"] <= nMsg
    /\ AnswersOK /\ PollOK /\ HeadOK
    /\ LinkOk \/ rsp # NoAnswer \/ answers # {} => Count(cache) > 0

-----------------------------------------------------------------------------
(* FriendQueue: the ring *)

\* A slot is one of the ring.
LEMMA SlotIn ==
  ASSUME NEW n \in Nat
  PROVE  Slot(n) \in 0 .. MailSlots - 1
BY FriendQueueAssumption DEF Slot

\* Less than a whole turn apart, indexes have slots of their own.
LEMMA SlotsApart ==
  ASSUME NEW i \in Nat, NEW j \in Nat, i < j, j < i + MailSlots
  PROVE  Slot(i) # Slot(j)
<1> SUFFICES ASSUME i % MailSlots = j % MailSlots PROVE FALSE
  BY DEF Slot
<1>1. MailSlots \in Nat /\ MailSlots > 0
  BY FriendQueueAssumption
<1>2. /\ i = MailSlots * (i \div MailSlots) + (i % MailSlots)
      /\ j = MailSlots * (j \div MailSlots) + (j % MailSlots)
  BY <1>1
<1>3. i \div MailSlots \in Nat /\ j \div MailSlots \in Nat
  BY <1>1
<1> DEFINE p == i \div MailSlots
           q == j \div MailSlots
<1>4. j - i = MailSlots * q - MailSlots * p
  BY <1>1, <1>2, <1>3
<1>5. p < q
  <2>1. ASSUME p >= q PROVE MailSlots * p >= MailSlots * q
    BY <1>1, <1>3, <2>1
  <2> QED
    BY <1>1, <1>3, <1>4, <2>1
<1>6. MailSlots * q >= MailSlots * (p + 1) /\ MailSlots * (p + 1) = MailSlots * p + MailSlots
  BY <1>1, <1>3, <1>5
<1> QED
  BY <1>1, <1>3, <1>4, <1>6

\* What the ring holds is of the type of the items.
LEMMA AtItem ==
  ASSUME NEW c \in Rings, NEW k \in Nat
  PROVE  At(c, k) \in Item
BY SlotIn DEF At, Rings

\* Pop takes the head, and nothing else.
LEMMA PopStep ==
  ASSUME NEW c, RingOK(c), Count(c) > 0
  PROVE  /\ RingOK(Pop(c)) /\ Count(Pop(c)) = Count(c) - 1
         /\ Pop(c).ring = c.ring /\ Pop(c).w = c.w /\ Pop(c).r = c.r + 1
<1>1. c.ring \in [0 .. MailSlots - 1 -> Item] /\ c.w \in Nat /\ c.r \in Nat
  BY DEF RingOK, Rings
<1>2. Pop(c) = [ring |-> c.ring, w |-> c.w, r |-> c.r + 1]
  BY <1>1 DEF RingOK, Rings, Pop
<1>3. Pop(c).ring = c.ring /\ Pop(c).w = c.w /\ Pop(c).r = c.r + 1
  BY <1>2
<1>4. Pop(c) \in Rings
  BY <1>1, <1>2 DEF Rings
<1>5. Count(Pop(c)) = Count(c) - 1
  BY <1>1, <1>3 DEF Count
<1> QED
  BY <1>3, <1>4, <1>5, FriendQueueAssumption DEF RingOK

Placed(c, it) == [c EXCEPT !.ring[Slot(c.w)] = it, !.w = @ + 1]

\* An item that finds a free slot gets it, and the others keep theirs.
LEMMA PushFree ==
  ASSUME NEW c, RingOK(c), Count(c) < MailSlots, NEW it \in Item,
         NEW d, d = Placed(c, it)
  PROVE  /\ RingOK(d) /\ Count(d) = Count(c) + 1 /\ d.w = c.w + 1 /\ d.r = c.r
         /\ At(d, c.w) = it
         /\ \A k \in InRing(c) : At(d, k) = At(c, k)
<1>1. c.ring \in [0 .. MailSlots - 1 -> Item] /\ c.w \in Nat /\ c.r \in Nat
  BY DEF RingOK, Rings
<1>2. Slot(c.w) \in 0 .. MailSlots - 1
  BY <1>1, SlotIn
<1>3. d = [ring |-> [c.ring EXCEPT ![Slot(c.w)] = it], w |-> c.w + 1, r |-> c.r]
  BY <1>1 DEF RingOK, Rings, Placed
<1>4. d.ring = [c.ring EXCEPT ![Slot(c.w)] = it] /\ d.w = c.w + 1 /\ d.r = c.r
  BY <1>3
<1>5. RingOK(d) /\ Count(d) = Count(c) + 1
  <2>1. d.ring \in [0 .. MailSlots - 1 -> Item] /\ d.w \in Nat /\ d.r \in Nat
    <3>1. [c.ring EXCEPT ![Slot(c.w)] = it] \in [0 .. MailSlots - 1 -> Item]
      BY <1>1, <1>2
    <3> QED
      BY <1>1, <1>4, <3>1
  <2>2. d \in Rings
    BY <1>3, <1>4, <2>1 DEF Rings
  <2>3. Count(d) = Count(c) + 1
    BY <1>1, <1>4 DEF Count
  <2> QED
    BY <2>2, <2>3, FriendQueueAssumption DEF RingOK
<1>6. At(d, c.w) = it
  BY <1>1, <1>2, <1>4 DEF At
<1>7. ASSUME NEW k \in InRing(c) PROVE At(d, k) = At(c, k)
  <2>1. k \in Nat /\ k < c.w /\ c.w < k + MailSlots
    BY <1>1, <1>7, FriendQueueAssumption DEF InRing, Count, RingOK
  <2>2. Slot(k) # Slot(c.w) /\ Slot(k) \in 0 .. MailSlots - 1
    BY <1>1, <2>1, SlotsApart, SlotIn
  <2> QED
    BY <1>1, <1>4, <2>2 DEF At
<1> QED
  BY <1>4, <1>5, <1>6, <1>7

\* my_fifo_push_adv: in a full ring the head is lost, and nothing else.
LEMMA PushStep ==
  ASSUME NEW c, RingOK(c), NEW it \in Item, NEW d, d = Push(c, it)
  PROVE  /\ RingOK(d) /\ Count(d) > 0 /\ d.w = c.w + 1
         /\ d.r = IF Count(c) = MailSlots THEN c.r + 1 ELSE c.r
         /\ At(d, c.w) = it
         /\ \A k \in d.r .. c.w - 1 : At(d, k) = At(c, k)
<1>1. c.w \in Nat /\ c.r \in Nat /\ Count(c) \in 0 .. MailSlots /\ MailSlots \in Nat \ {0}
  BY FriendQueueAssumption DEF RingOK, Rings
<1>2. Free(c) = 0 <=> Count(c) = MailSlots
  BY <1>1 DEF Free
<1>3. CASE Count(c) = MailSlots
  <2> DEFINE p == Pop(c)
  <2>1. /\ RingOK(p) /\ Count(p) = Count(c) - 1 /\ p.ring = c.ring /\ p.w = c.w
        /\ p.r = c.r + 1
    BY <1>1, <1>3, PopStep
  <2>2. d = Placed(p, it)
    BY <1>2, <1>3 DEF Push, Placed
  <2>3. Count(p) < MailSlots
    BY <1>1, <1>3, <2>1
  <2> HIDE DEF p
  <2>4. /\ RingOK(d) /\ Count(d) = Count(p) + 1 /\ d.w = p.w + 1 /\ d.r = p.r
        /\ At(d, p.w) = it
        /\ \A k \in InRing(p) : At(d, k) = At(p, k)
    BY <2>1, <2>2, <2>3, PushFree
  <2>5. \A k \in d.r .. c.w - 1 : At(d, k) = At(c, k)
    BY <2>1, <2>4 DEF InRing, At
  <2> QED
    BY <1>1, <1>3, <2>1, <2>4, <2>5
<1>4. CASE Count(c) # MailSlots
  <2>1. d = Placed(c, it)
    BY <1>2, <1>4 DEF Push, Placed
  <2>2. Count(c) < MailSlots
    BY <1>1, <1>4
  <2>3. /\ RingOK(d) /\ Count(d) = Count(c) + 1 /\ d.w = c.w + 1 /\ d.r = c.r
        /\ At(d, c.w) = it
        /\ \A k \in InRing(c) : At(d, k) = At(c, k)
    BY <2>1, <2>2, PushFree
  <2> QED
    BY <1>1, <1>4, <2>3 DEF InRing
<1> QED
  BY <1>3, <1>4

\* AfterAgain takes no message.
LEMMA AgainStep ==
  ASSUME NEW c, RingOK(c), NEW d, d = AfterAgain(c)
  PROVE  /\ RingOK(d) /\ d.ring = c.ring /\ d.w = c.w
         /\ d.r = c.r \/ (d.r = c.r + 1 /\ ~ForPeer(First(c)))
         /\ Count(c) > 0 => Count(d) > 0
<1>1. Count(c) \in Nat
  BY FriendQueueAssumption DEF RingOK
<1>2. CASE Count(c) > 1 /\ IsUpdate(c)
  BY <1>1, <1>2, PopStep DEF AfterAgain, IsUpdate, ForPeer
<1>3. CASE ~(Count(c) > 1 /\ IsUpdate(c))
  BY <1>3 DEF AfterAgain
<1> QED
  BY <1>2, <1>3

\* The head gives its place to an item at the end.
LEMMA PopPush ==
  ASSUME NEW c, RingOK(c), Count(c) > 0, NEW it \in Item, NEW d, d = Push(Pop(c), it)
  PROVE  /\ RingOK(d) /\ Count(d) > 0 /\ d.w = c.w + 1 /\ d.r = c.r + 1
         /\ At(d, c.w) = it
         /\ \A k \in d.r .. c.w - 1 : At(d, k) = At(c, k)
<1> DEFINE p == Pop(c)
<1>1. /\ RingOK(p) /\ Count(p) = Count(c) - 1 /\ p.ring = c.ring /\ p.w = c.w
      /\ p.r = c.r + 1
  BY PopStep
<1>2. Count(c) \in 0 .. MailSlots /\ MailSlots \in Nat \ {0}
  BY FriendQueueAssumption DEF RingOK
<1>3. d = Push(p, it)
  OBVIOUS
<1> HIDE DEF p
<1>4. /\ RingOK(d) /\ Count(d) > 0 /\ d.w = p.w + 1
      /\ d.r = IF Count(p) = MailSlots THEN p.r + 1 ELSE p.r
      /\ At(d, p.w) = it
      /\ \A k \in d.r .. p.w - 1 : At(d, k) = At(p, k)
  BY <1>1, <1>3, PushStep
<1>5. Count(p) # MailSlots
  BY <1>1, <1>2
<1>6. d.r = c.r + 1 /\ d.w = c.w + 1 /\ At(d, c.w) = it
  BY <1>1, <1>4, <1>5
<1>7. \A k \in d.r .. c.w - 1 : At(d, k) = At(c, k)
  BY <1>1, <1>4 DEF At
<1> QED
  BY <1>4, <1>6, <1>7

\* The first of a set of offsets.
LEMMA FirstIn ==
  ASSUME NEW S \in SUBSET Nat, S # {}
  PROVE  FirstOf(S) \in S
<1>1. PICK n \in S : \A m \in S : <<m, n>> \notin OpToRel(<, Nat)
  BY NatLessThanWellFounded, WFMin
<1>2. ASSUME NEW m \in S PROVE n <= m
  <2>1. n \in Nat /\ m \in Nat
    BY <1>1, <1>2
  <2>2. ~(m < n)
    BY <1>1, <1>2, <2>1 DEF OpToRel
  <2> QED
    BY <2>1, <2>2
<1> QED
  BY <1>2 DEF FirstOf

Alike(x, y) == x.kind = y.kind /\ x.sno = y.sno

\* How an item may change the mailbox: it comes at the end, the others stay as they are, and
\* the head may be lost, which is told.
CachedFrom(c, it, d, lost) ==
    /\ RingOK(d) /\ Count(d) > 0 /\ d.r >= c.r
    /\ \A k \in InRing(d) :
          \/ k = c.w /\ At(d, k) = it
          \/ k \in InRing(c) /\ (k > c.r \/ ~lost) /\ Alike(At(d, k), At(c, k))
    /\ ~lost => d.r = c.r /\ (Count(c) > 0 => At(d, c.r) = At(c, c.r))

MapSet(c, i, it) == [c EXCEPT !.ring[Offset(c, i)].map = it.map]

\* An ack takes the place of an older one, of which it keeps the number.
LEMMA NewMap ==
  ASSUME NEW c, RingOK(c), NEW i \in 1 .. Count(c) - 1, NEW it \in Item,
         NEW d, d = MapSet(c, i, it)
  PROVE  CachedFrom(c, it, d, FALSE)
<1>1. /\ c.ring \in [0 .. MailSlots - 1 -> Item] /\ c.w \in Nat /\ c.r \in Nat
      /\ Count(c) \in 0 .. MailSlots /\ MailSlots \in Nat \ {0} /\ i \in Nat
  BY FriendQueueAssumption DEF RingOK, Rings
<1> DEFINE s == Slot(c.r + i)
           x == [c.ring[s] EXCEPT !.map = it.map]
<1>2. s \in 0 .. MailSlots - 1
  <2>1. c.r + i \in Nat
    BY <1>1
  <2> QED
    BY <2>1, SlotIn
<1>3. c.ring[s] \in Item
  BY <1>1, <1>2
<1>4. x \in Item /\ Alike(x, c.ring[s])
  BY <1>3 DEF Item, Alike
<1>5. d = [ring |-> [c.ring EXCEPT ![s] = x], w |-> c.w, r |-> c.r]
  BY <1>1 DEF RingOK, Rings, Offset, MapSet
<1> HIDE DEF x
<1>6. d.ring = [c.ring EXCEPT ![s] = x] /\ d.w = c.w /\ d.r = c.r
  BY <1>5
<1>7. RingOK(d) /\ Count(d) = Count(c)
  <2>1. [c.ring EXCEPT ![s] = x] \in [0 .. MailSlots - 1 -> Item]
    BY <1>1, <1>2, <1>4
  <2>2. d \in Rings
    <3>1. d.ring \in [0 .. MailSlots - 1 -> Item] /\ d.w \in Nat /\ d.r \in Nat
      BY <1>1, <1>6, <2>1
    <3> QED
      BY <1>5, <1>6, <3>1 DEF Rings
  <2>3. Count(d) = Count(c)
    BY <1>6 DEF Count
  <2> QED
    BY <1>1, <2>2, <2>3 DEF RingOK
<1>8. \A k \in InRing(c) : Alike(At(d, k), At(c, k))
  <2> SUFFICES ASSUME NEW k \in InRing(c) PROVE Alike(At(d, k), At(c, k))
    OBVIOUS
  <2>1. k \in Nat
    BY <1>1 DEF InRing
  <2>2. Slot(k) \in 0 .. MailSlots - 1
    BY <2>1, SlotIn
  <2>3. CASE Slot(k) = s
    BY <1>1, <1>2, <1>4, <1>6, <2>3 DEF At
  <2>4. CASE Slot(k) # s
    BY <1>1, <1>2, <1>6, <2>2, <2>4 DEF At, Alike
  <2> QED
    BY <2>3, <2>4
<1>9. At(d, c.r) = At(c, c.r)
  <2>1. c.r < c.r + i /\ c.r + i < c.r + MailSlots /\ c.r + i \in Nat
    BY <1>1
  <2>2. Slot(c.r) # s /\ Slot(c.r) \in 0 .. MailSlots - 1
    BY <1>1, <2>1, SlotsApart, SlotIn
  <2> QED
    BY <1>1, <1>6, <2>2 DEF At
<1>10. InRing(d) = InRing(c) /\ Count(d) > 0
  BY <1>1, <1>6, <1>7 DEF InRing
<1> HIDE DEF s
<1> QED
  BY <1>1, <1>6, <1>7, <1>8, <1>9, <1>10 DEF CachedFrom

\* mesh_fri_cmd2cache does no more than that.
LEMMA CachedStep ==
  ASSUME NEW c, RingOK(c), NEW it \in Item, NEW e, e = Cached(c, it)
  PROVE  CachedFrom(c, it, e.c, e.over) /\ e.over \in BOOLEAN
<1>1. /\ c.w \in Nat /\ c.r \in Nat /\ Count(c) \in 0 .. MailSlots /\ MailSlots \in Nat \ {0}
      /\ Count(c) = c.w - c.r
  BY FriendQueueAssumption DEF RingOK, Rings, Count
<1>2. ASSUME Count(c) > 0, NEW d, d = Push(Pop(c), it) PROVE CachedFrom(c, it, d, TRUE)
  <2>1. /\ RingOK(d) /\ Count(d) > 0 /\ d.w = c.w + 1 /\ d.r = c.r + 1
        /\ At(d, c.w) = it
        /\ \A k \in d.r .. c.w - 1 : At(d, k) = At(c, k)
    BY <1>2, PopPush
  <2>2. \A k \in InRing(d) : k = c.w \/ k \in d.r .. c.w - 1
    BY <1>1, <2>1 DEF InRing
  <2>3. \A k \in d.r .. c.w - 1 : k \in InRing(c) /\ k > c.r
    BY <1>1, <2>1 DEF InRing
  <2> QED
    BY <1>1, <2>1, <2>2, <2>3 DEF CachedFrom, Alike
<1>3. CASE LoneUpdate(c)
  <2>1. e = [c |-> Push(Pop(c), it), over |-> TRUE]
    BY <1>3 DEF Cached, Replaces, Replaced
  <2>2. Count(c) > 0
    BY <1>3 DEF LoneUpdate
  <2>3. CachedFrom(c, it, Push(Pop(c), it), TRUE)
    BY <1>2, <2>2
  <2>4. e.c = Push(Pop(c), it) /\ e.over = TRUE
    BY <2>1
  <2> QED
    BY <2>3, <2>4, Zenon
<1>4. CASE ~LoneUpdate(c) /\ Replaces(c, it)
  <2> DEFINE i == FirstOf(OldAcks(c))
             old == c.ring[Offset(c, i)]
  <2>1. e = ReplaceAck(c, it) /\ OldAcks(c) # {}
    BY <1>4 DEF Cached, Replaced, Replaces
  <2>2. OldAcks(c) \subseteq Nat /\ OldAcks(c) \subseteq 0 .. Count(c) - 1
    BY <1>1 DEF OldAcks
  <2>3. i \in 0 .. Count(c) - 1
    BY <2>1, <2>2, FirstIn
  <2>4. Count(c) > 0
    BY <1>1, <2>3
  <2>5. CASE old.map = it.map
    <3>1. e = [c |-> c, over |-> FALSE]
      BY <2>1, <2>5 DEF ReplaceAck
    <3>2. CachedFrom(c, it, c, FALSE)
      BY <1>1, <2>4 DEF CachedFrom, Alike
    <3>3. e.c = c /\ e.over = FALSE
      BY <3>1
    <3> QED
      BY <3>2, <3>3, Zenon
  <2>6. CASE old.map # it.map /\ i = 0
    <3>1. e = [c |-> Push(Pop(c), it), over |-> TRUE]
      BY <2>1, <2>6 DEF ReplaceAck
    <3>2. CachedFrom(c, it, Push(Pop(c), it), TRUE)
      BY <1>2, <2>4
    <3>3. e.c = Push(Pop(c), it) /\ e.over = TRUE
      BY <3>1
    <3> QED
      BY <3>2, <3>3, Zenon
  <2>7. CASE old.map # it.map /\ i # 0
    <3>1. e = [c |-> MapSet(c, i, it), over |-> FALSE]
      BY <2>1, <2>7 DEF ReplaceAck, MapSet
    <3>2. i \in 1 .. Count(c) - 1
      BY <1>1, <2>3, <2>7
    <3> HIDE DEF i
    <3>3. CachedFrom(c, it, MapSet(c, i, it), FALSE)
      BY <3>2, NewMap
    <3>4. e.c = MapSet(c, i, it) /\ e.over = FALSE
      BY <3>1
    <3> QED
      BY <3>3, <3>4, Zenon
  <2> QED
    BY <2>5, <2>6, <2>7
<1>5. CASE ~Replaces(c, it)
  <2> DEFINE d == Push(c, it)
  <2>1. e = [c |-> d, over |-> Free(c) = 0]
    BY <1>5 DEF Cached
  <2>2. /\ RingOK(d) /\ Count(d) > 0 /\ d.w = c.w + 1
        /\ d.r = IF Count(c) = MailSlots THEN c.r + 1 ELSE c.r
        /\ At(d, c.w) = it
        /\ \A k \in d.r .. c.w - 1 : At(d, k) = At(c, k)
    BY PushStep
  <2> HIDE DEF d
  <2>3. (Free(c) = 0) = (Count(c) = MailSlots)
    BY <1>1 DEF Free
  <2>4. \A k \in InRing(d) : k = c.w \/ k \in d.r .. c.w - 1
    BY <1>1, <2>2 DEF InRing
  <2>5. \A k \in d.r .. c.w - 1 : k \in InRing(c) /\ (k > c.r \/ Count(c) # MailSlots)
    BY <1>1, <2>2 DEF InRing
  <2>6. Count(c) # MailSlots /\ Count(c) > 0 => At(d, c.r) = At(c, c.r)
    BY <1>1, <2>2
  <2>7. CachedFrom(c, it, d, Count(c) = MailSlots)
    BY <1>1, <2>2, <2>4, <2>5, <2>6 DEF CachedFrom, Alike
  <2>8. e.c = d /\ e.over = (Count(c) = MailSlots)
    BY <2>1, <2>3
  <2> QED
    BY <2>7, <2>8, Zenon
<1> QED
  BY <1>3, <1>4, <1>5

\* The numbers of what is held, by index.
LEMMA HeldAt ==
  ASSUME NEW c, RingOK(c)
  PROVE  Held(c) = {At(c, k).sno : k \in {l \in InRing(c) : ForPeer(At(c, l))}}
<1>1. c.w \in Nat /\ c.r \in Nat /\ Count(c) = c.w - c.r
  BY DEF RingOK, Rings, Count
<1>2. HeldItems(c) = {At(c, k) : k \in InRing(c)}
  <2>1. ASSUME NEW i \in 0 .. Count(c) - 1
        PROVE  c.ring[Offset(c, i)] = At(c, c.r + i) /\ c.r + i \in InRing(c)
    BY <1>1 DEF Offset, At, InRing
  <2>2. ASSUME NEW k \in InRing(c)
        PROVE  k - c.r \in 0 .. Count(c) - 1 /\ c.ring[Offset(c, k - c.r)] = At(c, k)
    <3>1. k - c.r \in 0 .. Count(c) - 1 /\ c.r + (k - c.r) = k
      BY <1>1 DEF InRing
    <3> QED
      BY <3>1 DEF Offset, At
  <2> QED
    BY <2>1, <2>2 DEF HeldItems
<1> QED
  BY <1>2 DEF Held, ForPeer

\* Newer by offset is what HeldIsAcceptable says.
LEMMA NewerMeans ==
  ASSUME RingOK(cache), Newer(cache, over, seen["peer"])
  PROVE  HeldIsAcceptable
<1>1. cache.w \in Nat /\ cache.r \in Nat /\ Count(cache) = cache.w - cache.r
  BY DEF RingOK, Rings, Count
<1> SUFFICES ASSUME NEW i \in 0 .. Count(cache) - 1,
                    cache.ring[Offset(cache, i)].kind # "upd", i > 0 \/ over
             PROVE  cache.ring[Offset(cache, i)].sno > seen["peer"]
  BY DEF HeldIsAcceptable
<1>2. cache.r + i \in InRing(cache) /\ (cache.r + i > cache.r \/ over)
  BY <1>1 DEF InRing
<1> QED
  BY <1>2 DEF Newer, At, Offset, ForPeer

-----------------------------------------------------------------------------
(* FriendQueue: the steps *)

\* TypeOK by the names above.
LEMMA MailTypes ==
  MailTypeOK => RingOK(cache) /\ cache.w \in Nat /\ cache.r \in Nat /\ cache \in Rings
BY DEF MailTypeOK, RingOK, Rings

\* An item in the mailbox has a number.
LEMMA AtNumber ==
  ASSUME NEW c, RingOK(c), NEW k \in InRing(c)
  PROVE  k \in Nat /\ At(c, k) \in Item /\ At(c, k).sno \in Nat
<1>1. c \in Rings /\ k \in Nat
  BY DEF RingOK, Rings, InRing
<1>2. At(c, k) \in Item
  BY <1>1, AtItem
<1>3. \A x \in Item : x.sno \in Nat
  BY FriendQueueAssumption DEF Item
<1> QED
  BY <1>1, <1>2, <1>3

\* What is cached keeps the order of the numbers, and is newer than what was sent.
LEMMA CachedKeeps ==
  ASSUME NEW c, RingOK(c), NEW it \in Item, NEW d, NEW o \in BOOLEAN, NEW lost \in BOOLEAN,
         CachedFrom(c, it, d, lost), NEW m \in Nat, NEW n \in Nat, m <= n,
         ForPeer(it) => it.sno = n /\ n = m + 1, Ordered(c, m)
  PROVE  /\ Ordered(d, n)
         /\ \A b \in Nat : b <= m /\ Newer(c, o, b) => Newer(d, o \/ lost, b)
<1>1. c.w \in Nat /\ c.r \in Nat /\ d.w \in Nat /\ d.r \in Nat /\ RingOK(d)
  BY DEF RingOK, Rings, CachedFrom
<1>2. \A k \in InRing(c) : k \in Nat /\ At(c, k).sno \in Nat /\ k < c.w /\ k >= c.r
  BY <1>1, AtNumber DEF InRing
<1>3. \A k \in InRing(d) : k \in Nat /\ At(d, k).sno \in Nat /\ k >= d.r
  BY <1>1, AtNumber DEF InRing
<1>4. ASSUME NEW k \in InRing(d), NEW l \in InRing(d), k < l,
             ForPeer(At(d, k)), ForPeer(At(d, l))
      PROVE  At(d, k).sno < At(d, l).sno
  <2>1. k \in InRing(c) /\ Alike(At(d, k), At(c, k))
    BY <1>1, <1>2, <1>3, <1>4 DEF CachedFrom
  <2>2. At(c, k).sno \in 1 .. m /\ ForPeer(At(c, k))
    BY <1>4, <2>1 DEF Ordered, Alike, ForPeer
  <2>3. CASE l = c.w /\ At(d, l) = it
    BY <1>4, <2>1, <2>2, <2>3 DEF Alike
  <2>4. CASE l \in InRing(c) /\ Alike(At(d, l), At(c, l))
    BY <1>4, <2>1, <2>2, <2>4 DEF Alike, Ordered, ForPeer
  <2> QED
    BY <2>3, <2>4 DEF CachedFrom
<1>5. ASSUME NEW k \in InRing(d), ForPeer(At(d, k))
      PROVE  At(d, k).sno \in 1 .. n
  <2>1. CASE k = c.w /\ At(d, k) = it
    BY <1>5, <2>1
  <2>2. CASE k \in InRing(c) /\ Alike(At(d, k), At(c, k))
    BY <1>5, <2>2 DEF Alike, Ordered, ForPeer
  <2> QED
    BY <2>1, <2>2 DEF CachedFrom
<1>6. ASSUME NEW b \in Nat, b <= m, Newer(c, o, b), NEW k \in InRing(d),
             k > d.r \/ o \/ lost, ForPeer(At(d, k))
      PROVE  At(d, k).sno > b
  <2>1. CASE k = c.w /\ At(d, k) = it
    BY <1>6, <2>1
  <2>2. CASE k \in InRing(c) /\ (k > c.r \/ ~lost) /\ Alike(At(d, k), At(c, k))
    <3>1. k > c.r \/ o
      BY <1>1, <1>2, <1>6, <2>2 DEF CachedFrom
    <3> QED
      BY <1>6, <2>2, <3>1 DEF Alike, Newer, ForPeer
  <2> QED
    BY <2>1, <2>2 DEF CachedFrom
<1>7. Ordered(d, n)
  BY <1>4, <1>5 DEF Ordered
<1>8. \A b \in Nat : b <= m /\ Newer(c, o, b) => Newer(d, o \/ lost, b)
  BY <1>6 DEF Newer
<1> QED
  BY <1>7, <1>8

\* A mailbox from which only the head is gone, and in which an update may be new.
Shrunk(c, d) ==
    /\ RingOK(d) /\ Count(d) > 0 /\ d.r >= c.r
    /\ \A k \in InRing(d) : ForPeer(At(d, k)) => k \in InRing(c) /\ At(d, k) = At(c, k)

\* The same of such a mailbox.
LEMMA ShrunkKeeps ==
  ASSUME NEW c, RingOK(c), NEW d, Shrunk(c, d), NEW m \in Nat, NEW o \in BOOLEAN
  PROVE  /\ Ordered(c, m) => Ordered(d, m)
         /\ \A b : Newer(c, o, b) => Newer(d, FALSE, b)
<1>1. c.r \in Nat /\ d.r \in Nat
  BY DEF Shrunk, RingOK, Rings
<1>2. \A k \in InRing(d) : k \in Nat
  BY AtNumber DEF Shrunk
<1>3. Ordered(c, m) => Ordered(d, m)
  BY DEF Ordered, Shrunk
<1>4. \A b : Newer(c, o, b) => Newer(d, FALSE, b)
  BY <1>1, <1>2 DEF Newer, Shrunk
<1> QED
  BY <1>3, <1>4

\* mesh_fri_cmd2cache of a message, an ack or an update.
LEMMA CacheKeeps ==
  ASSUME MailInv, LinkOk, NEW it \in Item, Cache(it),
         nMsg' \in nMsg .. MaxMsgs, nUpd' \in nUpd .. MaxUpdates,
         ForPeer(it) => it.sno = nMsg' /\ nMsg' = nMsg + 1,
         UNCHANGED <<lpnVars, airVars>>
  PROVE  MailInv'
<1> DEFINE d == Cached(cache, it).c
           lost == Cached(cache, it).over
<1>1. RingOK(cache) /\ MailTypeOK
  BY MailTypes DEF MailInv
<1>2. CachedFrom(cache, it, d, lost) /\ lost \in BOOLEAN
  BY <1>1, CachedStep
<1>3. cache' = d /\ over' = (over \/ lost) /\ UNCHANGED <<fnFsn, rsp>>
  BY DEF Cache
<1> HIDE DEF d, lost
<1>4. nMsg \in Nat /\ nMsg' \in Nat /\ nMsg <= nMsg' /\ nUpd' \in 0 .. MaxUpdates
  BY <1>1, FriendQueueAssumption DEF MailTypeOK
<1>5. over \in BOOLEAN /\ Ordered(cache, nMsg)
  BY <1>1 DEF MailTypeOK, MailInv
<1>6. /\ Ordered(d, nMsg')
      /\ \A b \in Nat : b <= nMsg /\ Newer(cache, over, b) => Newer(d, over \/ lost, b)
  BY <1>1, <1>2, <1>4, <1>5, CachedKeeps
<1>7. \A b \in Nat : b <= nMsg /\ Newer(cache, over, b) => Newer(cache', over', b)
  BY <1>3, <1>6
<1>8. UNCHANGED <<up, fsn, retry, seen, got, poll, answers, fnFsn, rsp>>
  BY <1>3 DEF lpnVars, airVars
<1>9. Count(cache) > 0
  BY DEF MailInv
<1>10. ~over' => ~over /\ cache'.r = cache.r /\ First(cache') = First(cache)
  BY <1>2, <1>3, <1>5, <1>9 DEF CachedFrom, First, At
<1>11. MailTypeOK'
  <2>1. cache' \in Rings /\ Count(cache)' \in 0 .. MailSlots
    BY <1>2, <1>3 DEF CachedFrom, RingOK, Count
  <2>2. over' \in BOOLEAN
    BY <1>2, <1>3, <1>5
  <2>3. nMsg' \in 0 .. MaxMsgs
    BY <1>4
  <2> QED
    BY <1>1, <1>4, <1>8, <2>1, <2>2, <2>3 DEF MailTypeOK, Rings
<1>12. Newer(cache', over', seen'["peer"]) /\ seen'["peer"] <= nMsg'
  <2>1. seen["peer"] \in Nat /\ seen["peer"] <= nMsg /\ Newer(cache, over, seen["peer"])
    BY <1>1, FriendQueueAssumption DEF MailTypeOK, MailInv
  <2> QED
    BY <1>4, <1>7, <1>8, <2>1
<1>13. AnswersOK'
  <2>1. rsp' # NoAnswer /\ ~over' => rsp' = Slot(cache'.r)
    BY <1>8, <1>10 DEF MailInv, AnswersOK
  <2>2. ASSUME NEW x \in answers'
        PROVE  /\ ~over' => x = First(cache')
               /\ ForPeer(x) => x.sno <= nMsg' /\ Newer(cache', over', x.sno)
               /\ \A y \in answers' : y = x
               /\ rsp' = NoAnswer
    <3>1. x \in answers /\ x \in Item
      BY <1>1, <1>8 DEF MailTypeOK
    <3>2. x.sno \in Nat
      BY <3>1, FriendQueueAssumption DEF Item
    <3> QED
      BY <1>4, <1>7, <1>8, <1>10, <3>1, <3>2 DEF MailInv, AnswersOK
  <2> QED
    BY <2>1, <2>2 DEF AnswersOK, First
<1>14. PollOK'
  BY <1>8 DEF MailInv, PollOK
<1>15. HeadOK'
  <2>1. FirstRound' = FirstRound
    BY <1>8 DEF FirstRound
  <2> SUFFICES ASSUME FirstRound', fsn' # fnFsn'
               PROVE  /\ rsp' = NoAnswer
                      /\ ~over' /\ Count(cache)' > 0 /\ ForPeer(First(cache')) =>
                            First(cache').sno \in got'
    BY DEF HeadOK, First
  <2> QED
    BY <1>8, <1>9, <1>10, <2>1 DEF MailInv, HeadOK
<1>16. Count(cache)' > 0 /\ Ordered(cache', nMsg')
  BY <1>2, <1>3, <1>6 DEF CachedFrom, Count
<1> QED
  BY <1>11, <1>12, <1>13, <1>14, <1>15, <1>16 DEF MailInv, Ordered, Newer, InRing, At

\* What the friend makes of its mailbox before it answers: c, or an update if that is empty.
TakePollFrom == IF poll.fsn = fnFsn THEN AfterAgain(cache) ELSE AfterNew

\* get_cache_buf_for_poll takes at most the head, and a message only with a new FSN.
LEMMA TakenFrom ==
  ASSUME RingOK(cache), NEW c, c = TakePollFrom, NEW u \in Item, ~ForPeer(u),
         NEW d, d = IF Count(c) = 0 THEN Push(c, u) ELSE c
  PROVE  /\ RingOK(c) /\ Shrunk(cache, d)
         /\ \A k \in InRing(cache) :
               \/ k \in InRing(d) /\ At(d, k) = At(cache, k)
               \/ k = cache.r /\ (~ForPeer(At(cache, k)) \/ (poll.fsn # fnFsn /\ ~over))
<1>1. cache.w \in Nat /\ cache.r \in Nat /\ Count(cache) = cache.w - cache.r
  BY DEF RingOK, Rings, Count
<1>2. /\ RingOK(c) /\ c.ring = cache.ring /\ c.w = cache.w
      /\ \/ c.r = cache.r
         \/ /\ c.r = cache.r + 1
            /\ ~ForPeer(First(cache)) \/ (poll.fsn # fnFsn /\ ~over)
  <2>1. CASE poll.fsn = fnFsn
    BY <2>1, AgainStep DEF TakePollFrom
  <2>2. CASE poll.fsn # fnFsn /\ Count(cache) > 0 /\ ~over
    BY <2>2, PopStep DEF TakePollFrom, AfterNew
  <2>3. CASE poll.fsn # fnFsn /\ ~(Count(cache) > 0 /\ ~over)
    BY <2>3 DEF TakePollFrom, AfterNew
  <2> QED
    BY <2>1, <2>2, <2>3
<1>3. /\ \A k \in InRing(c) : k \in InRing(cache) /\ At(c, k) = At(cache, k)
      /\ \A k \in InRing(cache) : k \in InRing(c) \/ (k = cache.r /\ c.r = cache.r + 1)
      /\ c.r \in Nat /\ c.r >= cache.r /\ Count(c) = c.w - c.r /\ Count(c) \in Nat
  BY <1>1, <1>2, FriendQueueAssumption DEF InRing, At, RingOK, Rings, Count
<1>4. CASE Count(c) # 0
  <2>1. d = c
    BY <1>4
  <2>2. Shrunk(cache, d)
    BY <1>2, <1>3, <1>4, <2>1 DEF Shrunk
  <2>3. At(cache, cache.r) = First(cache)
    BY DEF At, First
  <2> QED
    BY <1>2, <1>3, <2>1, <2>2, <2>3
<1>5. CASE Count(c) = 0
  <2>1. d = Push(c, u) /\ Count(c) # MailSlots
    BY <1>5, FriendQueueAssumption
  <2>2. /\ RingOK(d) /\ Count(d) > 0 /\ d.w = c.w + 1 /\ d.r = c.r /\ At(d, c.w) = u
    BY <1>2, <2>1, PushStep
  <2>3. InRing(c) = {} /\ \A k \in InRing(d) : k = c.w
    BY <1>1, <1>2, <1>3, <1>5, <2>2 DEF InRing
  <2>4. Shrunk(cache, d)
    BY <1>3, <2>2, <2>3 DEF Shrunk
  <2>5. At(cache, cache.r) = First(cache)
    BY DEF At, First
  <2> QED
    BY <1>2, <1>3, <2>3, <2>4, <2>5
<1> QED
  BY <1>4, <1>5

\* The update a friend makes for an empty mailbox.
LEMMA UpdateItems ==
  \A n \in 0 .. MaxUpdates : UpdateItem(n) \in Item /\ ~ForPeer(UpdateItem(n))
BY FriendQueueAssumption DEF UpdateItem, Item, ForPeer

\* CMD_CTL_POLL
LEMMA TakePollKeeps ==
  ASSUME MailInv, TakePoll
  PROVE  MailInv'
<1> DEFINE c == TakePollFrom
           u == UpdateItem(IF Count(c) = 0 THEN nUpd + 1 ELSE 0)
           d == IF Count(c) = 0 THEN Push(c, u) ELSE c
<1>1. RingOK(cache) /\ MailTypeOK
  BY MailTypes DEF MailInv
<1>2. /\ Count(c) = 0 => nUpd < MaxUpdates
      /\ nUpd' = nUpd + (IF Count(c) = 0 THEN 1 ELSE 0)
      /\ cache' = d /\ rsp' = Slot(d.r) /\ fnFsn' = poll.fsn /\ over' = FALSE
      /\ poll' = NoPoll /\ answers' = {} /\ poll # NoPoll
      /\ UNCHANGED <<nMsg, up, fsn, retry, seen, got>>
  BY DEF TakePoll, TakePollFrom, Heard, lpnVars
<1>3. nUpd \in Nat /\ nUpd' \in 0 .. MaxUpdates
  BY <1>1, <1>2, FriendQueueAssumption DEF MailTypeOK
<1>4. u \in Item /\ ~ForPeer(u)
  BY <1>2, <1>3, UpdateItems, FriendQueueAssumption
<1> HIDE DEF u
<1>5. Shrunk(cache, d)
  BY <1>1, <1>4, TakenFrom
<1> HIDE DEF c, d
<1>6. nMsg \in Nat /\ over \in BOOLEAN /\ Ordered(cache, nMsg)
      /\ Newer(cache, over, seen["peer"])
  BY <1>1, FriendQueueAssumption DEF MailTypeOK, MailInv
<1>7. Ordered(d, nMsg) /\ Newer(d, FALSE, seen["peer"])
  BY <1>1, <1>5, <1>6, ShrunkKeeps
<1>8. RingOK(d) /\ d \in Rings /\ Count(d) > 0 /\ d.r \in Nat
  BY <1>5 DEF Shrunk, RingOK, Rings
<1>9. fnFsn' = fsn' /\ fnFsn' \in {0, 1}
  BY <1>1, <1>2 DEF MailInv, PollOK, MailTypeOK
<1>10. MailTypeOK'
  <2>1. cache' \in Rings /\ Count(cache)' \in 0 .. MailSlots
    BY <1>2, <1>8 DEF RingOK, Count
  <2>2. rsp' \in 0 .. MailSlots - 1 /\ over' \in BOOLEAN
    BY <1>2, <1>8, SlotIn
  <2>3. poll' \in [fsn : {0, 1}, again : BOOLEAN] \cup {NoPoll} /\ answers' \subseteq Item
    BY <1>2
  <2> QED
    BY <1>1, <1>2, <1>3, <1>9, <2>1, <2>2, <2>3 DEF MailTypeOK, Rings
<1>11. AnswersOK' /\ PollOK' /\ HeadOK'
  BY <1>2, <1>9 DEF AnswersOK, PollOK, HeadOK
<1>12. /\ Ordered(cache', nMsg') /\ Newer(cache', over', seen'["peer"])
       /\ seen'["peer"] <= nMsg' /\ Count(cache)' > 0
  BY <1>2, <1>7, <1>8 DEF Count, MailInv
<1> QED
  BY <1>10, <1>11, <1>12 DEF MailInv, Ordered, Newer, InRing, At

\* mesh_friend_response_delay_proc_fn
LEMMA AnswerKeeps ==
  ASSUME MailInv, Answer
  PROVE  MailInv'
<1> DEFINE c == IF over THEN AfterAgain(cache) ELSE cache
           x == First(c)
<1>1. RingOK(cache) /\ MailTypeOK /\ Count(cache) > 0 /\ rsp # NoAnswer
  BY MailTypes DEF MailInv, Answer
<1>2. /\ cache' = c
      /\ answers' = answers \cup {c.ring[IF over THEN Slot(c.r) ELSE rsp]}
      /\ over' = FALSE /\ rsp' = NoAnswer
      /\ UNCHANGED <<fnFsn, nMsg, nUpd, up, fsn, retry, seen, got, poll>>
  BY DEF Answer, lpnVars
<1>3. answers' = {x}
  <2>1. answers = {}
    BY <1>1 DEF MailInv, AnswersOK
  <2>2. c.ring[IF over THEN Slot(c.r) ELSE rsp] = x
    BY <1>1 DEF MailInv, AnswersOK, First
  <2> QED
    BY <1>2, <2>1, <2>2
<1>4. Shrunk(cache, c)
  <2>1. cache.w \in Nat /\ cache.r \in Nat
    BY <1>1, MailTypes
  <2>2. /\ RingOK(c) /\ c.ring = cache.ring /\ c.w = cache.w /\ Count(c) > 0
        /\ c.r = cache.r \/ c.r = cache.r + 1
    BY <1>1, AgainStep
  <2> HIDE DEF c
  <2> QED
    BY <2>1, <2>2 DEF Shrunk, InRing, At
<1> HIDE DEF c
<1>5. nMsg \in Nat /\ over \in BOOLEAN /\ Ordered(cache, nMsg)
      /\ Newer(cache, over, seen["peer"])
  BY <1>1, FriendQueueAssumption DEF MailTypeOK, MailInv
<1>6. Ordered(c, nMsg) /\ Newer(c, FALSE, seen["peer"])
  BY <1>1, <1>4, <1>5, ShrunkKeeps
<1>7. RingOK(c) /\ c \in Rings /\ Count(c) > 0 /\ c.r \in Nat /\ c.w \in Nat
  BY <1>4 DEF Shrunk, RingOK, Rings
<1>8. c.r \in InRing(c) /\ x = At(c, c.r)
  BY <1>7 DEF InRing, Count, First, At
<1>9. x \in Item
  BY <1>7, <1>8, AtNumber
<1>10. ForPeer(x) => x.sno <= nMsg /\ Newer(c, FALSE, x.sno)
  <2> SUFFICES ASSUME ForPeer(x) PROVE x.sno <= nMsg /\ Newer(c, FALSE, x.sno)
    OBVIOUS
  <2>1. x.sno \in 1 .. nMsg
    BY <1>6, <1>8 DEF Ordered
  <2>2. ASSUME NEW k \in InRing(c), k > c.r, ForPeer(At(c, k)) PROVE At(c, k).sno > x.sno
    <3>1. x.sno < At(c, k).sno
      BY <1>6, <1>8, <2>2 DEF Ordered
    <3> QED
      BY <1>5, <2>1, <3>1, <1>7, AtNumber
  <2> QED
    BY <1>5, <2>1, <2>2 DEF Newer
<1> HIDE DEF x
<1>11. MailTypeOK'
  <2>1. cache' \in Rings /\ Count(cache)' \in 0 .. MailSlots
    BY <1>2, <1>7 DEF RingOK, Count
  <2>2. rsp' \in 0 .. MailSlots - 1 \cup {NoAnswer} /\ over' \in BOOLEAN /\ answers' \subseteq Item
    BY <1>2, <1>3, <1>9
  <2> QED
    BY <1>1, <1>2, <2>1, <2>2 DEF MailTypeOK, Rings
<1>12. AnswersOK'
  <2>1. x = First(cache')
    BY <1>2 DEF x
  <2>2. ForPeer(x) => x.sno <= nMsg' /\ Newer(cache', over', x.sno)
    BY <1>2, <1>10
  <2> QED
    BY <1>2, <1>3, <2>1, <2>2 DEF AnswersOK, First
<1>13. PollOK'
  BY <1>2 DEF MailInv, PollOK
<1>14. HeadOK'
  <2>1. FirstRound' = FirstRound
    BY <1>2 DEF FirstRound
  <2> QED
    BY <1>1, <1>2, <2>1 DEF MailInv, HeadOK
<1>15. /\ Ordered(cache', nMsg') /\ Newer(cache', over', seen'["peer"])
       /\ seen'["peer"] <= nMsg' /\ Count(cache)' > 0
  BY <1>2, <1>6, <1>7 DEF Count, MailInv
<1> QED
  BY <1>11, <1>12, <1>13, <1>14, <1>15 DEF MailInv, Ordered, Newer, InRing, At

\* Steps of the low power node and of the radio leave the mailbox alone.
LEMMA LpnSteps ==
  ASSUME MailInv, SendPoll \/ PollAgain \/ GiveUp \/ LosePoll
  PROVE  MailInv'
<1>1. MailTypeOK /\ RetryMax \in Nat \ {0} /\ retry \in Nat
  BY FriendQueueAssumption DEF MailInv, MailTypeOK
<1>2. UNCHANGED <<cache, over, fnFsn, rsp, nMsg, nUpd, seen, got>> /\ answers' \subseteq answers
  BY DEF SendPoll, PollAgain, GiveUp, LosePoll, fnVars, lpnVars, airVars, Heard
<1>3. /\ up' \in BOOLEAN /\ fsn' \in {0, 1} /\ retry' \in 0 .. 2 * RetryMax
      /\ poll' \in [fsn : {0, 1}, again : BOOLEAN] \cup {NoPoll}
  <2>1. CASE SendPoll
    <3>1. retry' \in 0 .. 2 * RetryMax /\ fsn \in {0, 1}
      BY <1>1, <2>1 DEF SendPoll, MailTypeOK
    <3>2. poll' \in [fsn : {0, 1}, again : BOOLEAN]
      BY <2>1, <3>1 DEF SendPoll
    <3> QED
      BY <1>1, <2>1, <3>1, <3>2 DEF SendPoll, MailTypeOK
  <2>2. CASE PollAgain
    <3>1. retry' \in 0 .. 2 * RetryMax /\ fsn' \in {0, 1}
      BY <1>1, <2>2 DEF PollAgain, MailTypeOK
    <3>2. poll' \in [fsn : {0, 1}, again : BOOLEAN]
      BY <2>2, <3>1 DEF PollAgain
    <3> QED
      BY <1>1, <2>2, <3>1, <3>2 DEF PollAgain, MailTypeOK
  <2>3. CASE GiveUp
    <3>1. up' = FALSE /\ retry' = 0 /\ fsn' = fsn /\ poll' = poll
      BY <2>3 DEF GiveUp, airVars
    <3>2. up' \in BOOLEAN
      BY <3>1
    <3>3. retry' \in 0 .. 2 * RetryMax
      BY <1>1, <3>1
    <3> QED
      BY <1>1, <3>1, <3>2, <3>3 DEF MailTypeOK
  <2>4. CASE LosePoll
    BY <1>1, <2>4 DEF LosePoll, MailTypeOK, lpnVars
  <2> QED
    BY <2>1, <2>2, <2>3, <2>4
<1>4. PollOK'
  <2>1. CASE SendPoll
    BY <1>1, <2>1 DEF SendPoll, PollOK
  <2>2. CASE PollAgain
    <3>1. poll' = [fsn |-> fsn', again |-> retry' <= RetryMax] /\ up' /\ retry' > 0
      BY <1>1, <2>2 DEF PollAgain
    <3>2. poll'.fsn = fsn' /\ (poll'.again <=> retry' <= RetryMax)
      BY <3>1
    <3> QED
      BY <3>1, <3>2 DEF PollOK
  <2>3. CASE GiveUp
    BY <2>3 DEF GiveUp, PollOK, airVars
  <2>4. CASE LosePoll
    BY <2>4 DEF LosePoll, PollOK
  <2> QED
    BY <2>1, <2>2, <2>3, <2>4
<1>5. FirstRound' => FirstRound /\ fsn' = fsn
  <2>1. CASE SendPoll
    BY <1>1, <2>1 DEF SendPoll, FirstRound
  <2>2. CASE PollAgain
    BY <1>1, <2>2 DEF PollAgain, FirstRound
  <2>3. CASE GiveUp
    BY <2>3 DEF GiveUp, FirstRound
  <2>4. CASE LosePoll
    BY <2>4 DEF LosePoll, FirstRound, lpnVars
  <2> QED
    BY <2>1, <2>2, <2>3, <2>4
<1>6. MailTypeOK'
  BY <1>1, <1>2, <1>3 DEF MailTypeOK, Count
<1>7. HeadOK'
  BY <1>2, <1>5 DEF MailInv, HeadOK, First, Count
<1>8. AnswersOK'
  BY <1>2 DEF MailInv, AnswersOK, First, Newer, InRing, At
<1> QED
  BY <1>2, <1>4, <1>6, <1>7, <1>8 DEF MailInv, Ordered, Newer, InRing, At, LinkOk, Count

\* An answer is accepted, refused or lost.
LEMMA AnswerHeard ==
  ASSUME MailInv, NEW x \in answers, RxAnswer(x) \/ LoseAnswer(x)
  PROVE  MailInv'
<1>1. /\ MailTypeOK /\ x \in Item /\ rsp = NoAnswer /\ nMsg \in Nat
      /\ ~over => x = First(cache)
      /\ ForPeer(x) => x.sno <= nMsg /\ Newer(cache, over, x.sno)
  BY FriendQueueAssumption DEF MailInv, AnswersOK, MailTypeOK
<1>2. /\ UNCHANGED <<cache, over, fnFsn, rsp, nMsg, nUpd, up, poll>>
      /\ answers' = answers \ {x}
  BY DEF RxAnswer, LoseAnswer, fnVars, lpnVars
<1>3. AnswersOK'
  BY <1>2 DEF MailInv, AnswersOK, First, Newer, InRing, At
<1>4. CASE UNCHANGED <<fsn, retry, seen, got>>
  <2>1. MailTypeOK' /\ PollOK' /\ HeadOK'
    BY <1>1, <1>2, <1>4 DEF MailInv, MailTypeOK, PollOK, HeadOK, FirstRound, First, Count
  <2> QED
    BY <1>2, <1>3, <1>4, <2>1 DEF MailInv, Ordered, Newer, InRing, At, LinkOk, Count
<1>5. CASE /\ up /\ poll = NoPoll /\ fsn' = 1 - fsn /\ retry' = 0
           /\ \E src \in {"peer", "friend"} :
                 /\ src = "peer" <=> ForPeer(x)
                 /\ x.sno > seen[src]
                 /\ seen' = [seen EXCEPT ![src] = x.sno]
                 /\ got' = IF src = "peer" THEN got \cup {x.sno} ELSE got
  <2>1. PICK src \in {"peer", "friend"} :
                 /\ src = "peer" <=> ForPeer(x)
                 /\ x.sno > seen[src]
                 /\ seen' = [seen EXCEPT ![src] = x.sno]
                 /\ got' = IF src = "peer" THEN got \cup {x.sno} ELSE got
    BY <1>5
  <2>2. x.sno \in 0 .. MaxMsgs + MaxUpdates /\ seen \in [{"peer", "friend"} -> 0 .. MaxMsgs + MaxUpdates]
    BY <1>1 DEF Item, MailTypeOK
  <2>3. /\ seen' \in [{"peer", "friend"} -> 0 .. MaxMsgs + MaxUpdates]
        /\ seen'["peer"] = IF ForPeer(x) THEN x.sno ELSE seen["peer"]
        /\ ForPeer(x) => x.sno \in got'
    BY <2>1, <2>2
  <2>4. ForPeer(x) => x.sno \in 1 .. MaxMsgs
    BY <1>1, <2>1, <2>2, FriendQueueAssumption DEF MailTypeOK
  <2>5. got' \subseteq 1 .. MaxMsgs /\ fsn' \in {0, 1} /\ retry' \in 0 .. 2 * RetryMax
    <3>1. got \subseteq 1 .. MaxMsgs /\ fsn \in {0, 1}
      BY <1>1 DEF MailTypeOK
    <3>2. got' \subseteq 1 .. MaxMsgs
      BY <2>1, <2>4, <3>1
    <3> QED
      BY <1>5, <3>1, <3>2, FriendQueueAssumption
  <2>6. MailTypeOK'
    BY <1>1, <1>2, <2>3, <2>5 DEF MailTypeOK, Count
  <2>7. Newer(cache', over', seen'["peer"]) /\ seen'["peer"] <= nMsg'
    <3>1. Newer(cache, over, seen["peer"]) /\ seen["peer"] <= nMsg
      BY DEF MailInv
    <3> QED
      BY <1>1, <1>2, <2>3, <3>1
  <2>8. PollOK'
    BY <1>2, <1>5 DEF PollOK
  <2>9. HeadOK'
    BY <1>1, <1>2, <2>3 DEF HeadOK, First
  <2> QED
    BY <1>2, <1>3, <2>6, <2>7, <2>8, <2>9 DEF MailInv, Ordered, Newer, InRing, At, LinkOk, Count
<1> QED
  <2>1. CASE LoseAnswer(x)
    BY <1>4, <2>1 DEF LoseAnswer, lpnVars
  <2>2. CASE RxAnswer(x)
    <3> DEFINE src == IF x.kind = "upd" THEN "friend" ELSE "peer"
    <3>1. src \in {"peer", "friend"} /\ (src = "peer" <=> ForPeer(x))
      BY DEF ForPeer
    <3>2. CASE x.sno > seen[src]
      <4>1. /\ up /\ poll = NoPoll /\ fsn' = 1 - fsn /\ retry' = 0
            /\ seen' = [seen EXCEPT ![src] = x.sno]
            /\ got' = IF src = "peer" THEN got \cup {x.sno} ELSE got
        BY <2>2, <3>2 DEF RxAnswer
      <4> HIDE DEF src
      <4> QED
        BY <1>5, <3>1, <3>2, <4>1
    <3>3. CASE ~(x.sno > seen[src])
      <4>1. UNCHANGED <<fsn, retry, seen, got>>
        BY <2>2, <3>3 DEF RxAnswer
      <4> QED
        BY <1>4, <4>1
    <3> QED
      BY <3>2, <3>3
  <2> QED
    BY <2>1, <2>2

\* The first state.
LEMMA MailInitInv == MailInit => MailInv
<1> SUFFICES ASSUME MailInit PROVE MailInv
  OBVIOUS
<1>1. MailTypeOK
  <2>1. UpdateItem(0) \in Item
    BY UpdateItems, FriendQueueAssumption
  <2>2. [i \in 0 .. MailSlots - 1 |-> UpdateItem(0)] \in [0 .. MailSlots - 1 -> Item]
    BY <2>1
  <2>3. cache \in [ring : [0 .. MailSlots - 1 -> Item], w : Nat, r : Nat]
    BY <2>2 DEF MailInit
  <2>4. Count(cache) \in 0 .. MailSlots
    BY FriendQueueAssumption DEF MailInit, Count
  <2>5. seen \in [{"peer", "friend"} -> 0 .. MaxMsgs + MaxUpdates]
    BY FriendQueueAssumption DEF MailInit
  <2>6. over \in BOOLEAN /\ up \in BOOLEAN
    <3>1. over = FALSE /\ up = TRUE
      BY DEF MailInit
    <3> QED
      BY <3>1
  <2>7. /\ fnFsn \in {0, 1} /\ rsp \in 0 .. MailSlots - 1 \cup {NoAnswer}
        /\ nMsg \in 0 .. MaxMsgs /\ nUpd \in 0 .. MaxUpdates
        /\ fsn \in {0, 1} /\ retry \in 0 .. 2 * RetryMax
    BY FriendQueueAssumption DEF MailInit
  <2>8. /\ poll \in [fsn : {0, 1}, again : BOOLEAN] \cup {NoPoll}
        /\ answers \subseteq Item /\ got \subseteq 1 .. MaxMsgs
    BY DEF MailInit
  <2> QED
    BY <2>3, <2>4, <2>5, <2>6, <2>7, <2>8 DEF MailTypeOK
<1>2. InRing(cache) = {} /\ Count(cache) = 0
  BY DEF MailInit, InRing, Count
<1>3. Ordered(cache, nMsg) /\ Newer(cache, over, seen["peer"]) /\ seen["peer"] <= nMsg
  <2>1. seen["peer"] = 0 /\ nMsg = 0
    BY DEF MailInit
  <2> QED
    BY <1>2, <2>1 DEF Ordered, Newer
<1>4. AnswersOK /\ PollOK
  BY DEF MailInit, AnswersOK, PollOK
<1>5. HeadOK
  BY <1>2 DEF MailInit, HeadOK
<1> QED
  BY <1>1, <1>3, <1>4, <1>5 DEF MailInv, MailInit, LinkOk

\* Every step keeps the invariant.
LEMMA MailStep == MailInv /\ [MailNext]_mailVars => MailInv'
<1> SUFFICES ASSUME MailInv, [MailNext]_mailVars PROVE MailInv'
  OBVIOUS
<1>1. nMsg \in 0 .. MaxMsgs /\ nUpd \in 0 .. MaxUpdates
  BY DEF MailInv, MailTypeOK
<1>2. CASE CacheMessage
  <2>1. /\ LinkOk /\ nMsg' \in nMsg .. MaxMsgs /\ nMsg' = nMsg + 1
        /\ nUpd' \in nUpd .. MaxUpdates /\ UNCHANGED <<lpnVars, airVars>>
    BY <1>1, <1>2, FriendQueueAssumption DEF CacheMessage
  <2>2. CASE Cache(Message(nMsg + 1))
    <3> DEFINE it == Message(nMsg + 1)
    <3>1. it \in Item /\ it.sno = nMsg'
      BY <1>1, <2>1, FriendQueueAssumption DEF Message, Item
    <3> HIDE DEF it
    <3> QED
      BY <2>1, <2>2, <3>1, CacheKeeps DEF it
  <2>3. ASSUME NEW m \in 1 .. MaxMap, Cache(Ack(nMsg + 1, m)) PROVE MailInv'
    <3> DEFINE it == Ack(nMsg + 1, m)
    <3>1. it \in Item /\ it.sno = nMsg'
      BY <1>1, <2>1, FriendQueueAssumption DEF Ack, Item
    <3>2. Cache(it)
      BY <2>3
    <3> HIDE DEF it
    <3> QED
      BY <2>1, <3>1, <3>2, CacheKeeps
  <2> QED
    BY <1>2, <2>2, <2>3 DEF CacheMessage
<1>3. CASE CacheUpdate
  <2> DEFINE it == UpdateItem(nUpd + 1)
  <2>1. /\ LinkOk /\ nMsg' \in nMsg .. MaxMsgs /\ nUpd + 1 \in 0 .. MaxUpdates
        /\ nUpd' \in nUpd .. MaxUpdates /\ UNCHANGED <<lpnVars, airVars>> /\ Cache(it)
    BY <1>1, <1>3, FriendQueueAssumption DEF CacheUpdate
  <2>2. it \in Item /\ ~ForPeer(it)
    BY <2>1, UpdateItems
  <2> HIDE DEF it
  <2> QED
    BY <2>1, <2>2, CacheKeeps
<1>4. CASE TakePoll
  BY <1>4, TakePollKeeps
<1>5. CASE Answer
  BY <1>5, AnswerKeeps
<1>6. CASE SendPoll \/ PollAgain \/ GiveUp \/ LosePoll
  BY <1>6, LpnSteps
<1>7. ASSUME NEW x \in answers, RxAnswer(x) \/ LoseAnswer(x) PROVE MailInv'
  BY <1>7, AnswerHeard
<1>8. CASE UNCHANGED mailVars
  <2>1. UNCHANGED <<cache, over, fnFsn, rsp, nMsg, nUpd, up, fsn, retry, seen, poll, answers, got>>
    BY <1>8 DEF mailVars, fnVars, lpnVars, airVars
  <2> QED
    BY <2>1 DEF MailInv, MailTypeOK, Ordered, Newer, AnswersOK, PollOK, HeadOK, FirstRound,
                InRing, At, First, LinkOk, Count
<1> QED
  BY <1>2, <1>3, <1>4, <1>5, <1>6, <1>7, <1>8 DEF MailNext

\* The mailbox of a friend has at all times the shape that the properties below need: the
\* messages in it are in order, the answer under way is its head, and an FSN changed by an
\* acceptance is told from one changed by the second round.
THEOREM MailInvariant == MailSpec => []MailInv
<1>1. MailInv /\ [MailNext]_mailVars => MailInv'
  BY MailStep
<1> QED
  BY <1>1, MailInitInv, PTL DEF MailSpec

\* The types of the mailbox, in whatever order polls, answers and messages come.
THEOREM MailTypeCorrect == MailSpec => []MailTypeOK
<1>1. MailInv => MailTypeOK
  BY DEF MailInv
<1> QED
  BY <1>1, MailInvariant, PTL

\* What the mailbox holds behind the head it sent is newer than all the low power node has
\* accepted, so that it will be accepted: for any size of the mailbox and number of retries.
THEOREM HeldStaysAcceptable == MailSpec => []HeldIsAcceptable
<1>1. MailInv => HeldIsAcceptable
  BY MailTypes, NewerMeans DEF MailInv
<1> QED
  BY <1>1, MailInvariant, PTL

\* While the polls of a first round go on the friend drops only what was accepted.
THEOREM DropsAreOfAccepted == MailSpec => DropsOnlyWhatWasAccepted
<1> DEFINE Kept == Held(cache) \ Held(cache') \subseteq got \/ (poll # NoPoll /\ poll.again)
<1>1. ASSUME MailInv, TakePoll PROVE Kept
  <2> DEFINE c == TakePollFrom
             u == UpdateItem(IF Count(c) = 0 THEN nUpd + 1 ELSE 0)
             d == IF Count(c) = 0 THEN Push(c, u) ELSE c
  <2>1. RingOK(cache) /\ MailTypeOK
    BY <1>1, MailTypes DEF MailInv
  <2>2. cache' = d /\ poll # NoPoll /\ (Count(c) = 0 => nUpd < MaxUpdates)
    BY <1>1 DEF TakePoll, TakePollFrom
  <2>3. u \in Item /\ ~ForPeer(u)
    BY <2>1, <2>2, UpdateItems, FriendQueueAssumption DEF MailTypeOK
  <2> HIDE DEF u
  <2>4. /\ Shrunk(cache, d)
        /\ \A k \in InRing(cache) :
              \/ k \in InRing(d) /\ At(d, k) = At(cache, k)
              \/ k = cache.r /\ (~ForPeer(At(cache, k)) \/ (poll.fsn # fnFsn /\ ~over))
    BY <2>1, <2>3, TakenFrom
  <2> HIDE DEF c, d
  <2> SUFFICES ASSUME ~poll.again, NEW n \in Held(cache), n \notin Held(cache') PROVE n \in got
    BY <2>2
  <2>5. PICK k \in InRing(cache) : ForPeer(At(cache, k)) /\ n = At(cache, k).sno
    BY <2>1, HeldAt
  <2>6. Held(d) = {At(d, l).sno : l \in {j \in InRing(d) : ForPeer(At(d, j))}}
    BY <2>4, HeldAt DEF Shrunk
  <2>7. ~(k \in InRing(d) /\ At(d, k) = At(cache, k))
    BY <2>2, <2>5, <2>6
  <2>8. k = cache.r /\ poll.fsn # fnFsn /\ ~over
    BY <2>4, <2>5, <2>7
  <2>9. FirstRound /\ fsn # fnFsn
    <3>1. up /\ poll.fsn = fsn /\ ~(retry <= RetryMax)
      BY <1>1, <2>2 DEF MailInv, PollOK
    <3>2. retry \in Nat /\ RetryMax \in Nat
      BY <2>1, FriendQueueAssumption DEF MailTypeOK
    <3> QED
      BY <2>8, <3>1, <3>2 DEF FirstRound
  <2>10. First(cache) = At(cache, k) /\ Count(cache) > 0
    <3>1. cache.w \in Nat /\ cache.r \in Nat
      BY <2>1, MailTypes
    <3> QED
      BY <2>5, <2>8, <3>1 DEF First, At, InRing, Count
  <2> QED
    BY <1>1, <2>5, <2>8, <2>9, <2>10 DEF MailInv, HeadOK
<1>2. ASSUME MailInv, Answer PROVE Kept
  <2> DEFINE c == IF over THEN AfterAgain(cache) ELSE cache
  <2>1. RingOK(cache) /\ cache.w \in Nat /\ cache.r \in Nat
    BY <1>2, MailTypes DEF MailInv
  <2>2. cache' = c
    BY <1>2 DEF Answer
  <2>3. /\ RingOK(c) /\ c.ring = cache.ring /\ c.w = cache.w
        /\ c.r = cache.r \/ (c.r = cache.r + 1 /\ ~ForPeer(First(cache)))
    BY <2>1, AgainStep
  <2> HIDE DEF c
  <2>4. \A k \in InRing(cache) : ForPeer(At(cache, k)) => k \in InRing(c) /\ At(c, k) = At(cache, k)
    BY <2>1, <2>3 DEF InRing, At, First
  <2>5. Held(cache) \subseteq Held(c)
    <3>1. Held(cache) = {At(cache, k).sno : k \in {l \in InRing(cache) : ForPeer(At(cache, l))}}
      BY <2>1, HeldAt
    <3>2. Held(c) = {At(c, k).sno : k \in {l \in InRing(c) : ForPeer(At(c, l))}}
      BY <2>3, HeldAt
    <3> QED
      BY <2>4, <3>1, <3>2
  <2> QED
    BY <2>2, <2>5
<1>3. MailInv /\ [MailNext]_mailVars =>
        [<<poll, rsp>>' # <<poll, rsp>> => Kept]_mailVars
  <2> SUFFICES ASSUME MailInv, MailNext, <<poll, rsp>>' # <<poll, rsp>> PROVE Kept
    BY DEF mailVars
  <2>1. CASE TakePoll
    BY <1>1, <2>1
  <2>2. CASE Answer
    BY <1>2, <2>2
  <2>3. CASE CacheMessage \/ CacheUpdate
    BY <2>3 DEF CacheMessage, CacheUpdate, Cache, airVars
  <2>4. ASSUME UNCHANGED cache PROVE Kept
    BY <2>4 DEF Held, HeldItems, Count, Offset
  <2>5. CASE SendPoll \/ PollAgain \/ GiveUp \/ LosePoll
    BY <2>4, <2>5 DEF SendPoll, PollAgain, GiveUp, LosePoll, fnVars
  <2>6. ASSUME NEW x \in answers, RxAnswer(x) \/ LoseAnswer(x) PROVE Kept
    BY <2>4, <2>6 DEF RxAnswer, LoseAnswer, fnVars
  <2> QED
    BY <2>1, <2>2, <2>3, <2>5, <2>6 DEF MailNext
<1> QED
  BY <1>3, MailInvariant, PTL DEF MailSpec, DropsOnlyWhatWasAccepted
-----------------------------------------------------------------------------
(* FriendQueue: an item leaves the mailbox.  No bound on the messages or the   *)
(* updates is used: an item is at most MailSlots places behind the head, a     *)
(* head is followed by at most two acceptances while it stays, and between two *)
(* acceptances the low power node has 2 * RetryMax polls.                      *)

\* The place of the item with number n.
Place(c, n) == CHOOSE k \in InRing(c) : ForPeer(At(c, k)) /\ At(c, k).sno = n

\* The mailbox d that a step makes of c: the head does not go back, is the same item while its
\* index is the same, and item n, if it is still there, has its place.
Moves(c, d, n) ==
    /\ d.r \in Nat /\ d.r >= c.r
    /\ d.r = c.r => First(d) = First(c)
    /\ \A k \in InRing(d) : ForPeer(At(d, k)) /\ At(d, k).sno = n
                              => k \in InRing(c) /\ ForPeer(At(c, k)) /\ At(c, k).sno = n

\* Acceptances to come while the head stays: of an answer from before an overwrite, and of the
\* head itself.
SrcOf(x) == IF x.kind = "upd" THEN "friend" ELSE "peer"
OfBefore == IF \E x \in answers : x # First(cache) THEN 1 ELSE 0
OfHead == IF First(cache).sno > seen[SrcOf(First(cache))] THEN 1 ELSE 0
Acceptable == OfBefore + OfHead

\* Polls that the low power node has left, and the one in the air.
PollsToCome == IF retry = 0 THEN 2 * RetryMax + 1 ELSE retry
MailPatience == 2 * PollsToCome + IF poll = NoPoll THEN 0 ELSE 1

\* How far item n is from leaving: its places behind the head, the acceptances, the polls.
Rounds(n) == 3 * (Place(cache, n) - cache.r) + Acceptable
RoundSize == 4 * RetryMax + 4
MailRank(n) == RoundSize * Rounds(n) + MailPatience
InMail(n) == up /\ n \in Held(cache)

\* The place of a held item in the ring.
LEMMA PlaceOf ==
  ASSUME NEW c, RingOK(c), NEW m, Ordered(c, m), NEW n, n \in Held(c)
  PROVE  /\ Place(c, n) \in InRing(c) /\ ForPeer(At(c, Place(c, n))) /\ At(c, Place(c, n)).sno = n
         /\ \A k \in InRing(c) : ForPeer(At(c, k)) /\ At(c, k).sno = n => k = Place(c, n)
<1>1. \E k \in InRing(c) : ForPeer(At(c, k)) /\ At(c, k).sno = n
  BY HeldAt
<1>2. /\ Place(c, n) \in InRing(c) /\ ForPeer(At(c, Place(c, n))) /\ At(c, Place(c, n)).sno = n
  BY <1>1 DEF Place
<1>3. ASSUME NEW k \in InRing(c), ForPeer(At(c, k)), At(c, k).sno = n, k # Place(c, n)
      PROVE  FALSE
  <2>1. k \in Nat /\ Place(c, n) \in Nat /\ At(c, k).sno \in Nat
    BY <1>2, AtNumber
  <2>2. k < Place(c, n) \/ Place(c, n) < k
    BY <1>3, <2>1
  <2>3. n < n
    BY <1>2, <1>3, <2>2 DEF Ordered
  <2> QED
    BY <1>3, <2>1, <2>3
<1> QED
  BY <1>2, <1>3

\* What the friend does to its mailbox when an item comes.
LEMMA CacheMoves ==
  ASSUME MailInv, NEW it \in Item, Cache(it), ForPeer(it) => it.sno > nMsg,
         NEW n \in Held(cache)
  PROVE  Moves(cache, cache', n)
<1> DEFINE d == Cached(cache, it).c
           lost == Cached(cache, it).over
<1>1. RingOK(cache) /\ cache.w \in Nat /\ cache.r \in Nat /\ nMsg \in Nat
  BY MailTypes, FriendQueueAssumption DEF MailInv, MailTypeOK
<1>2. CachedFrom(cache, it, d, lost) /\ lost \in BOOLEAN /\ cache' = d
  BY <1>1, CachedStep DEF Cache
<1> HIDE DEF d, lost
<1>3. n \in 1 .. nMsg /\ Count(cache) > 0
  <2>1. PICK k \in InRing(cache) : ForPeer(At(cache, k)) /\ At(cache, k).sno = n
    BY <1>1, HeldAt
  <2> QED
    BY <1>1, <2>1 DEF MailInv, Ordered, InRing, Count
<1>4. d.r \in Nat /\ d.w \in Nat /\ d.r >= cache.r /\ d.r \in InRing(d)
  BY <1>2 DEF CachedFrom, RingOK, Rings, Count, InRing
<1>5. d.r = cache.r => First(d) = First(cache)
  <2> SUFFICES ASSUME d.r = cache.r PROVE First(d) = First(cache)
    OBVIOUS
  <2>1. d.r # cache.w
    BY <1>1, <1>3 DEF Count
  <2>2. ~lost
    BY <1>1, <1>2, <1>4, <2>1 DEF CachedFrom
  <2> QED
    BY <1>2, <1>3, <2>2 DEF CachedFrom, First, At
<1>6. ASSUME NEW k \in InRing(d), ForPeer(At(d, k)), At(d, k).sno = n
      PROVE  k \in InRing(cache) /\ ForPeer(At(cache, k)) /\ At(cache, k).sno = n
  <2>1. ~(At(d, k) = it)
    BY <1>1, <1>3, <1>6
  <2>2. k \in InRing(cache) /\ Alike(At(d, k), At(cache, k))
    BY <1>2, <2>1 DEF CachedFrom
  <2> QED
    BY <1>6, <2>2 DEF Alike, ForPeer
<1> QED
  BY <1>2, <1>4, <1>5, <1>6 DEF Moves

\* What it does when it is polled.
LEMMA TakePollMoves ==
  ASSUME MailInv, TakePoll, NEW n \in Held(cache)
  PROVE  Moves(cache, cache', n)
<1> DEFINE c == TakePollFrom
           u == UpdateItem(IF Count(c) = 0 THEN nUpd + 1 ELSE 0)
           d == IF Count(c) = 0 THEN Push(c, u) ELSE c
<1>1. RingOK(cache) /\ MailTypeOK /\ cache.w \in Nat /\ cache.r \in Nat
  BY MailTypes DEF MailInv
<1>2. (Count(c) = 0 => nUpd < MaxUpdates) /\ cache' = d
  BY DEF TakePoll, TakePollFrom
<1>3. u \in Item /\ ~ForPeer(u)
  <2>1. nUpd \in 0 .. MaxUpdates /\ MaxUpdates \in Nat
    BY <1>1, FriendQueueAssumption DEF MailTypeOK
  <2> QED
    BY <1>2, <2>1, UpdateItems
<1> HIDE DEF u
<1>4. RingOK(c) /\ Shrunk(cache, d)
  BY <1>1, <1>3, TakenFrom
<1>5. c.ring = cache.ring /\ c.w = cache.w /\ (c.r = cache.r \/ c.r = cache.r + 1)
  <2>1. CASE poll.fsn = fnFsn
    BY <1>1, <2>1, AgainStep DEF TakePollFrom
  <2>2. CASE poll.fsn # fnFsn /\ Count(cache) > 0 /\ ~over
    BY <1>1, <2>2, PopStep DEF TakePollFrom, AfterNew
  <2>3. CASE poll.fsn # fnFsn /\ ~(Count(cache) > 0 /\ ~over)
    BY <2>3 DEF TakePollFrom, AfterNew
  <2> QED
    BY <2>1, <2>2, <2>3
<1>6. Count(cache) > 0
  <2>1. PICK k \in InRing(cache) : ForPeer(At(cache, k)) /\ At(cache, k).sno = n
    BY <1>1, HeldAt
  <2> QED
    BY <1>1, <2>1 DEF InRing, Count
<1>7. d.r = cache.r => First(d) = First(cache)
  <2>1. CASE Count(c) # 0
    BY <1>5, <2>1 DEF First
  <2>2. CASE Count(c) = 0
    <3>1. d = Push(c, u) /\ Count(c) # MailSlots /\ c.r # cache.r
      BY <1>1, <1>5, <1>6, <2>2, FriendQueueAssumption DEF Count
    <3>2. d.r = c.r
      BY <1>3, <1>4, <3>1, PushStep
    <3> QED
      BY <3>1, <3>2
  <2> QED
    BY <2>1, <2>2
<1> HIDE DEF c, d
<1>8. d.r \in Nat /\ d.r >= cache.r
  BY <1>4 DEF Shrunk, RingOK, Rings
<1> QED
  BY <1>2, <1>4, <1>7, <1>8 DEF Moves, Shrunk

\* What it does when it answers; it answers with the head.
LEMMA AnswerMoves ==
  ASSUME MailInv, Answer, NEW n \in Held(cache)
  PROVE  Moves(cache, cache', n) /\ answers' \subseteq {First(cache')}
<1> DEFINE c == IF over THEN AfterAgain(cache) ELSE cache
<1>1. RingOK(cache) /\ cache.w \in Nat /\ cache.r \in Nat /\ rsp # NoAnswer
  BY MailTypes DEF MailInv, Answer
<1>2. cache' = c /\ answers' = answers \cup {c.ring[IF over THEN Slot(c.r) ELSE rsp]}
  BY DEF Answer
<1>3. answers' = {First(c)}
  <2>1. answers = {}
    BY <1>1 DEF MailInv, AnswersOK
  <2>2. c.ring[IF over THEN Slot(c.r) ELSE rsp] = First(c)
    BY <1>1 DEF MailInv, AnswersOK, First
  <2> QED
    BY <1>2, <2>1, <2>2
<1>4. /\ RingOK(c) /\ c.ring = cache.ring /\ c.w = cache.w
      /\ c.r = cache.r \/ c.r = cache.r + 1
  BY <1>1, AgainStep
<1> HIDE DEF c
<1> QED
  BY <1>1, <1>2, <1>3, <1>4 DEF Moves, InRing, At, First

\* Every step: the mailbox moves on, answers are of the head, what was seen is seen.
LEMMA MailMoves ==
  ASSUME MailInv, [MailNext]_mailVars, NEW n \in Held(cache)
  PROVE  /\ Moves(cache, cache', n)
         /\ answers' \subseteq answers \cup {First(cache')}
         /\ \A s \in {"peer", "friend"} : seen'[s] >= seen[s]
<1>1. /\ RingOK(cache) /\ cache.r \in Nat /\ nMsg \in 0 .. MaxMsgs /\ nUpd \in 0 .. MaxUpdates
      /\ \A s \in {"peer", "friend"} : seen[s] \in Nat
  BY MailTypes, FriendQueueAssumption DEF MailInv, MailTypeOK
<1>2. ASSUME NEW it \in Item, Cache(it), ForPeer(it) => it.sno > nMsg,
             UNCHANGED <<lpnVars, airVars>>
      PROVE  /\ Moves(cache, cache', n) /\ answers' = answers /\ seen' = seen
  BY <1>2, CacheMoves DEF lpnVars, airVars
<1>3. CASE CacheMessage
  <2>1. nMsg + 1 \in 0 .. MaxMsgs + MaxUpdates /\ nMsg + 1 > nMsg
    BY <1>1, <1>3, FriendQueueAssumption DEF CacheMessage
  <2>2. CASE Cache(Message(nMsg + 1))
    <3> DEFINE it == Message(nMsg + 1)
    <3>1. it \in Item /\ it.sno > nMsg
      BY <2>1, FriendQueueAssumption DEF Message, Item
    <3> HIDE DEF it
    <3>2. Cache(it) /\ UNCHANGED <<lpnVars, airVars>>
      BY <1>3, <2>2 DEF CacheMessage, it
    <3> QED
      BY <1>1, <1>2, <3>1, <3>2
  <2>3. ASSUME NEW m \in 1 .. MaxMap, Cache(Ack(nMsg + 1, m))
        PROVE  Moves(cache, cache', n) /\ answers' = answers /\ seen' = seen
    <3> DEFINE it == Ack(nMsg + 1, m)
    <3>1. it \in Item /\ it.sno > nMsg
      BY <2>1, FriendQueueAssumption DEF Ack, Item
    <3>2. Cache(it) /\ UNCHANGED <<lpnVars, airVars>>
      BY <1>3, <2>3 DEF CacheMessage
    <3> HIDE DEF it
    <3> QED
      BY <1>1, <1>2, <3>1, <3>2
  <2> QED
    BY <1>1, <1>3, <2>2, <2>3 DEF CacheMessage
<1>4. CASE CacheUpdate
  <2> DEFINE it == UpdateItem(nUpd + 1)
  <2>1. nUpd + 1 \in 0 .. MaxUpdates /\ Cache(it) /\ UNCHANGED <<lpnVars, airVars>>
    BY <1>1, <1>4, FriendQueueAssumption DEF CacheUpdate
  <2>2. it \in Item /\ ~ForPeer(it)
    BY <2>1, UpdateItems
  <2> HIDE DEF it
  <2> QED
    BY <1>1, <1>2, <2>1, <2>2
<1>5. CASE TakePoll
  <2>1. answers' = {} /\ seen' = seen
    BY <1>5 DEF TakePoll, Heard, lpnVars
  <2> QED
    BY <1>1, <1>5, <2>1, TakePollMoves
<1>6. CASE Answer
  <2>1. seen' = seen
    BY <1>6 DEF Answer, lpnVars
  <2> QED
    BY <1>1, <1>6, <2>1, AnswerMoves
<1>7. ASSUME UNCHANGED cache PROVE Moves(cache, cache', n)
  BY <1>1, <1>7 DEF Moves
<1>8. CASE SendPoll \/ PollAgain \/ GiveUp \/ LosePoll
  <2>1. UNCHANGED <<cache, seen>> /\ answers' \subseteq answers
    BY <1>8 DEF SendPoll, PollAgain, GiveUp, LosePoll, fnVars, lpnVars, airVars, Heard
  <2> QED
    BY <1>1, <1>7, <2>1
<1>9. ASSUME NEW x \in answers, LoseAnswer(x)
      PROVE  UNCHANGED <<cache, seen>> /\ answers' \subseteq answers
  BY <1>9 DEF LoseAnswer, fnVars, lpnVars
<1>10. ASSUME NEW x \in answers, RxAnswer(x)
       PROVE  /\ UNCHANGED cache /\ answers' \subseteq answers
              /\ \A s \in {"peer", "friend"} : seen'[s] >= seen[s]
  <2>1. UNCHANGED cache /\ answers' \subseteq answers
    BY <1>10 DEF RxAnswer, fnVars
  <2>2. \/ seen' = seen
        \/ \E s \in {"peer", "friend"} : x.sno > seen[s] /\ seen' = [seen EXCEPT ![s] = x.sno]
    BY <1>10 DEF RxAnswer
  <2>3. x.sno \in Nat /\ seen \in [{"peer", "friend"} -> 0 .. MaxMsgs + MaxUpdates]
    BY FriendQueueAssumption DEF MailInv, MailTypeOK, Item
  <2> QED
    BY <1>1, <2>1, <2>2, <2>3
<1>11. CASE UNCHANGED mailVars
  BY <1>1, <1>7, <1>11 DEF mailVars, fnVars, lpnVars, airVars
<1> QED
  BY <1>1, <1>3, <1>4, <1>5, <1>6, <1>7, <1>8, <1>9, <1>10, <1>11 DEF MailNext

\* Acceptable is one of three numbers.
LEMMA AcceptableIn ==
  OfBefore \in {0, 1} /\ OfHead \in {0, 1} /\ Acceptable \in 0 .. 2
BY DEF OfBefore, OfHead, Acceptable

\* While the head stays, no acceptance is added to those to come.
LEMMA AcceptableFalls ==
  ASSUME MailInv, [MailNext]_mailVars, NEW n \in Held(cache), cache'.r = cache.r
  PROVE  Acceptable' <= Acceptable
<1>1. /\ First(cache') = First(cache) /\ answers' \subseteq answers \cup {First(cache')}
      /\ \A s \in {"peer", "friend"} : seen'[s] >= seen[s]
  BY MailMoves DEF Moves
<1>2. (\E x \in answers' : x # First(cache')) => \E x \in answers : x # First(cache)
  BY <1>1
<1>3. OfBefore' <= OfBefore
  BY <1>2 DEF OfBefore, First, Slot
<1> DEFINE h == First(cache)
           s == SrcOf(h)
<1>4. s \in {"peer", "friend"}
  BY DEF SrcOf
<1>5. seen[s] \in Int /\ seen'[s] \in Int /\ h.sno \in Int
  <2>1. MailTypeOK /\ MailTypeOK'
    BY MailStep DEF MailInv
  <2>2. seen[s] \in 0 .. MaxMsgs + MaxUpdates /\ seen'[s] \in 0 .. MaxMsgs + MaxUpdates
    BY <1>4, <2>1 DEF MailTypeOK
  <2>3. h \in Item
    <3>1. h = At(cache, cache.r) /\ cache \in Rings /\ cache.r \in Nat
      BY <2>1, MailTypes DEF First, At
    <3> QED
      BY <3>1, AtItem
  <2> QED
    BY <2>2, <2>3, FriendQueueAssumption DEF Item
<1>6. OfHead' = IF h.sno > seen'[s] THEN 1 ELSE 0
  BY <1>1 DEF OfHead, First, Slot
<1>7. OfHead = IF h.sno > seen[s] THEN 1 ELSE 0
  BY DEF OfHead
<1>8. OfHead' <= OfHead
  <2> HIDE DEF h, s
  <2> QED
    BY <1>1, <1>4, <1>5, <1>6, <1>7
<1>9. Acceptable = OfBefore + OfHead /\ Acceptable' = OfBefore' + OfHead'
  BY DEF Acceptable
<1>10. /\ OfBefore \in {0, 1} /\ OfHead \in {0, 1} /\ OfBefore' \in {0, 1} /\ OfHead' \in {0, 1}
  BY DEF OfBefore, OfHead
<1> QED
  BY <1>3, <1>8, <1>9, <1>10

\* An acceptance is one of those to come.
LEMMA AcceptableTaken ==
  ASSUME MailInv, NEW x \in answers, RxAnswer(x), retry' # retry
  PROVE  Acceptable' < Acceptable
<1> DEFINE h == First(cache)
           s == SrcOf(x)
<1>1. /\ x.sno > seen[s] /\ seen' = [seen EXCEPT ![s] = x.sno]
      /\ answers' = answers \ {x} /\ cache' = cache
  BY DEF RxAnswer, SrcOf, fnVars
<1>2. answers = {x}
  BY DEF MailInv, AnswersOK
<1>3. OfBefore' = 0
  BY <1>1, <1>2 DEF OfBefore
<1>4. OfBefore = IF x # h THEN 1 ELSE 0
  BY <1>2 DEF OfBefore
<1>5. s \in {"peer", "friend"} /\ SrcOf(h) \in {"peer", "friend"}
  BY DEF SrcOf
<1>6. seen \in [{"peer", "friend"} -> Nat] /\ x.sno \in Nat /\ h.sno \in Nat
  <2>1. MailTypeOK
    BY DEF MailInv
  <2>2. seen \in [{"peer", "friend"} -> Nat] /\ x \in Item
    BY <2>1, FriendQueueAssumption DEF MailTypeOK
  <2>3. h \in Item
    <3>1. h = At(cache, cache.r) /\ cache \in Rings /\ cache.r \in Nat
      BY <2>1, MailTypes DEF First, At
    <3> QED
      BY <3>1, AtItem
  <2> QED
    BY <2>2, <2>3, FriendQueueAssumption DEF Item
<1>7. OfHead = (IF h.sno > seen[SrcOf(h)] THEN 1 ELSE 0)
      /\ OfHead' = (IF h.sno > seen'[SrcOf(h)] THEN 1 ELSE 0)
  BY <1>1 DEF OfHead, First, Slot
<1>8. seen'[s] = x.sno /\ seen'[SrcOf(h)] >= seen[SrcOf(h)] /\ seen'[SrcOf(h)] \in Nat
  BY <1>1, <1>5, <1>6
<1>9. Acceptable = OfBefore + OfHead /\ Acceptable' = OfBefore' + OfHead'
  BY DEF Acceptable
<1> HIDE DEF h
<1>10. CASE x = h
  <2>1. OfHead = 1 /\ OfHead' = 0 /\ OfBefore = 0
    BY <1>1, <1>4, <1>6, <1>7, <1>8, <1>10
  <2> QED
    BY <1>3, <1>9, <2>1
<1>11. CASE x # h
  <2>1. OfBefore = 1 /\ OfHead' <= OfHead /\ OfHead \in {0, 1} /\ OfHead' \in {0, 1}
    BY <1>4, <1>5, <1>6, <1>7, <1>8, <1>11
  <2>2. Acceptable = 1 + OfHead /\ Acceptable' = 0 + OfHead'
    BY <1>3, <1>9, <2>1
  <2>3. \A a, b \in {0, 1} : b <= a => 0 + b < 1 + a
    OBVIOUS
  <2> QED
    BY <2>1, <2>2, <2>3
<1> QED
  BY <1>10, <1>11

\* The polls to come are fewer than a round has.
LEMMA MailPatienceIn ==
  ASSUME MailInv
  PROVE  PollsToCome \in 1 .. 2 * RetryMax + 1 /\ MailPatience \in 2 .. RoundSize - 1
<1>1. retry \in 0 .. 2 * RetryMax /\ RetryMax \in Nat \ {0}
  BY FriendQueueAssumption DEF MailInv, MailTypeOK
<1>2. PollsToCome \in 1 .. 2 * RetryMax + 1
  BY <1>1 DEF PollsToCome
<1>3. MailPatience = 2 * PollsToCome \/ MailPatience = 2 * PollsToCome + 1
  BY <1>2 DEF MailPatience
<1> QED
  BY <1>1, <1>2, <1>3 DEF RoundSize

\* Polls are used up, except by an acceptance.
LEMMA MailPatienceFalls ==
  ASSUME MailInv, [MailNext]_mailVars, up, up'
  PROVE  \/ retry' = retry /\ poll' = poll
         \/ MailPatience' < MailPatience
         \/ \E x \in answers : RxAnswer(x) /\ retry' # retry
<1>1. retry \in Nat /\ RetryMax \in Nat \ {0}
  BY FriendQueueAssumption DEF MailInv, MailTypeOK
<1>2. CASE CacheMessage \/ CacheUpdate
  BY <1>2 DEF CacheMessage, CacheUpdate, lpnVars, airVars
<1>3. CASE Answer
  BY <1>3 DEF Answer, lpnVars
<1>4. CASE TakePoll \/ LosePoll
  <2>1. poll # NoPoll /\ poll' = NoPoll /\ retry' = retry
    BY <1>4 DEF TakePoll, LosePoll, lpnVars
  <2>2. PollsToCome' = PollsToCome /\ PollsToCome \in Nat
    BY <1>1, <2>1 DEF PollsToCome
  <2>3. MailPatience = 2 * PollsToCome + 1 /\ MailPatience' = 2 * PollsToCome
    BY <2>1, <2>2 DEF MailPatience
  <2> QED
    BY <2>2, <2>3
<1>5. CASE SendPoll
  <2>1. poll = NoPoll /\ PollsToCome = 2 * RetryMax + 1 /\ PollsToCome' = 2 * RetryMax
    BY <1>1, <1>5 DEF SendPoll, PollsToCome
  <2>2. MailPatience = 2 * PollsToCome /\ MailPatience' \in {2 * PollsToCome', 2 * PollsToCome' + 1}
    BY <1>1, <2>1 DEF MailPatience
  <2> QED
    BY <1>1, <2>1, <2>2
<1>6. CASE PollAgain
  <2>1. poll = NoPoll /\ PollsToCome = retry /\ PollsToCome' = retry - 1
    BY <1>1, <1>6 DEF PollAgain, PollsToCome
  <2>2. MailPatience = 2 * PollsToCome /\ MailPatience' \in {2 * PollsToCome', 2 * PollsToCome' + 1}
    BY <1>1, <2>1 DEF MailPatience
  <2> QED
    BY <1>1, <2>1, <2>2
<1>7. CASE GiveUp
  BY <1>7 DEF GiveUp
<1>8. ASSUME NEW x \in answers, RxAnswer(x) \/ LoseAnswer(x)
      PROVE  poll' = poll /\ (retry' = retry \/ RxAnswer(x))
  BY <1>8 DEF RxAnswer, LoseAnswer, lpnVars
<1>9. CASE UNCHANGED mailVars
  BY <1>9 DEF mailVars, lpnVars, airVars
<1> QED
  BY <1>2, <1>3, <1>4, <1>5, <1>6, <1>7, <1>8, <1>9 DEF MailNext

\* More rounds are farther, whatever is left of the present one.
LEMMA RoundsCount ==
  ASSUME NEW b \in Nat, NEW x \in Nat, NEW y \in Nat, NEW p \in 0 .. b - 1, NEW q \in 0 .. b - 1,
         x < y
  PROVE  b * x + p < b * y + q
<1>1. b * x \in Nat /\ b * y \in Nat /\ b * (y - x) \in Nat
  OBVIOUS
<1>2. b * y = b * x + b * (y - x)
  OBVIOUS
<1>3. b * (y - x) >= b
  OBVIOUS
<1> QED
  BY <1>1, <1>2, <1>3

\* The rank is a number above 0.
LEMMA MailRankIn ==
  ASSUME MailInv, NEW n \in Held(cache)
  PROVE  /\ Place(cache, n) \in Nat /\ cache.r \in Nat /\ Place(cache, n) - cache.r \in Nat
         /\ Rounds(n) \in Nat /\ MailRank(n) \in Nat \ {0} /\ RoundSize \in Nat
<1>1. RingOK(cache) /\ cache.r \in Nat /\ cache.w \in Nat /\ RetryMax \in Nat
  BY MailTypes, FriendQueueAssumption DEF MailInv
<1>2. Place(cache, n) \in InRing(cache)
  BY <1>1, PlaceOf DEF MailInv
<1>3. Place(cache, n) \in Nat /\ Place(cache, n) - cache.r \in Nat
  BY <1>1, <1>2 DEF InRing
<1>4. Rounds(n) \in Nat
  BY <1>1, <1>3, AcceptableIn DEF Rounds
<1>5. RoundSize \in Nat
  BY <1>1 DEF RoundSize
<1>6. RoundSize * Rounds(n) \in Nat
  BY <1>4, <1>5
<1>7. MailPatience \in Nat \ {0}
  BY <1>5, MailPatienceIn
<1> QED
  BY <1>1, <1>3, <1>4, <1>5, <1>6, <1>7 DEF MailRank

\* A step that leaves item n in the mailbox of a friendship that goes on does not take it
\* farther from leaving, and takes it nearer if it changes the retries or the poll.
LEMMA MailRankFalls ==
  ASSUME MailInv, [MailNext]_mailVars, NEW n, InMail(n), InMail(n)'
  PROVE  MailRank(n)' < MailRank(n) \/ (MailRank(n)' = MailRank(n) /\ retry' = retry /\ poll' = poll)
<1>1. /\ up /\ up' /\ n \in Held(cache) /\ n \in Held(cache') /\ MailInv'
      /\ RingOK(cache) /\ RingOK(cache') /\ Ordered(cache, nMsg) /\ Ordered(cache', nMsg')
  <2>1. MailInv' /\ n \in Held(cache) /\ n \in Held(cache')
    BY MailStep DEF InMail, Held, HeldItems, Count, Offset, Slot
  <2>2. MailTypeOK /\ MailTypeOK' /\ Ordered(cache, nMsg) /\ Ordered(cache', nMsg')
    BY <2>1 DEF MailInv, Ordered, InRing, At, Slot
  <2>3. RingOK(cache')
    BY <2>2 DEF MailTypeOK, RingOK, Rings, Count
  <2> QED
    BY <2>1, <2>2, <2>3, MailTypes DEF InMail
<1>2. Moves(cache, cache', n)
  BY <1>1, MailMoves
<1>3. Place(cache', n) = Place(cache, n)
  <2>1. Place(cache', n) \in InRing(cache') /\ ForPeer(At(cache', Place(cache', n)))
        /\ At(cache', Place(cache', n)).sno = n
    BY <1>1, PlaceOf
  <2> QED
    BY <1>1, <1>2, <2>1, PlaceOf DEF Moves
<1> DEFINE p == Place(cache, n)
<1>4. /\ p \in Nat /\ cache.r \in Nat /\ p - cache.r \in Nat /\ Rounds(n) \in Nat /\ RoundSize \in Nat
  BY <1>1, MailRankIn
<1>5. cache'.r \in Nat /\ p >= cache'.r /\ cache'.r >= cache.r
  <2>1. p \in InRing(cache') /\ cache'.r \in Nat /\ cache'.w \in Nat
    BY <1>1, <1>3, PlaceOf DEF RingOK, Rings
  <2> QED
    BY <1>2, <2>1 DEF InRing, Moves
<1>6. Rounds(n) = 3 * (p - cache.r) + Acceptable
  BY DEF Rounds
<1>7. Rounds(n)' = 3 * (p - cache'.r) + Acceptable'
  BY <1>3 DEF Rounds, Place, InRing, At, Slot
<1>8. Acceptable \in 0 .. 2 /\ Acceptable' \in 0 .. 2
  <2>1. OfBefore' \in {0, 1} /\ OfHead' \in {0, 1} /\ Acceptable' = OfBefore' + OfHead'
    BY DEF OfBefore, OfHead, Acceptable
  <2>2. \A a, b \in {0, 1} : a + b \in 0 .. 2
    OBVIOUS
  <2>3. Acceptable' \in 0 .. 2
    BY <2>1, <2>2
  <2> QED
    BY <2>3, AcceptableIn
<1>9. MailPatience \in 0 .. RoundSize - 1 /\ MailPatience' \in 0 .. RoundSize - 1
  <2>1. (MailInv => MailPatience \in 2 .. RoundSize - 1)'
    BY MailPatienceIn, PTL
  <2>2. RoundSize' = RoundSize
    BY DEF RoundSize
  <2>3. MailPatience' \in 2 .. RoundSize - 1
    BY <1>1, <2>1, <2>2
  <2> QED
    BY <1>4, <2>3, MailPatienceIn
<1>10. MailRank(n) = RoundSize * Rounds(n) + MailPatience
       /\ MailRank(n)' = RoundSize * Rounds(n)' + MailPatience'
  BY DEF MailRank, RoundSize
<1>11. Rounds(n)' \in Nat
  BY <1>4, <1>5, <1>7, <1>8
<1> HIDE DEF p
<1>12. ASSUME Rounds(n)' < Rounds(n) PROVE MailRank(n)' < MailRank(n)
  BY <1>4, <1>9, <1>10, <1>11, <1>12, RoundsCount
<1>13. CASE cache'.r # cache.r
  <2>1. Rounds(n)' < Rounds(n)
    <3>1. \A i, j, k \in Nat, a, b \in 0 .. 2 :
             i >= k /\ k >= j /\ k # j => 3 * (i - k) + b < 3 * (i - j) + a
      OBVIOUS
    <3> QED
      BY <1>4, <1>5, <1>6, <1>7, <1>8, <1>13, <3>1
  <2> QED
    BY <1>12, <2>1
<1>14. CASE cache'.r = cache.r /\ Rounds(n)' # Rounds(n)
  <2>1. Acceptable' <= Acceptable
    BY <1>1, <1>14, AcceptableFalls
  <2>2. Rounds(n)' < Rounds(n)
    BY <1>4, <1>6, <1>7, <1>8, <1>14, <2>1
  <2> QED
    BY <1>12, <2>2
<1>15. CASE cache'.r = cache.r /\ Rounds(n)' = Rounds(n)
  <2>1. Acceptable' = Acceptable
    BY <1>4, <1>6, <1>7, <1>8, <1>15
  <2>2. ~\E x \in answers : RxAnswer(x) /\ retry' # retry
    BY <1>8, <2>1, AcceptableTaken
  <2>3. (retry' = retry /\ poll' = poll) \/ MailPatience' < MailPatience
    BY <1>1, <2>2, MailPatienceFalls
  <2>4. retry' = retry /\ poll' = poll => MailPatience' = MailPatience
    BY DEF MailPatience, PollsToCome
  <2>5. RoundSize * Rounds(n) \in Nat
    BY <1>4
  <2> QED
    BY <1>9, <1>10, <1>15, <2>3, <2>4, <2>5
<1> QED
  BY <1>13, <1>14, <1>15

\* Whatever the low power node has to do next, its action brings item n nearer to leaving.
LEMMA MailDescends ==
  ASSUME NEW n, NEW k \in Nat
  PROVE  MailFairSpec /\ []MailGuardsSuffice
            => ((InMail(n) /\ MailRank(n) = k + 1) ~> (~InMail(n) \/ MailRank(n) <= k))
<1> DEFINE A == InMail(n)
           P == MailRank(n) = k + 1
           L == MailRank(n) <= k
           InAir == poll # NoPoll
           Idle == retry = 0 /\ poll = NoPoll
           Again == retry > 1 /\ poll = NoPoll
           Last == retry = 1 /\ poll = NoPoll
<1>0. LosePoll \/ SendPoll \/ PollAgain \/ GiveUp => MailNext
  BY DEF MailNext
<1>1. MailInv /\ A => MailRank(n) \in Nat
  BY MailRankIn DEF InMail
<1>2. (MailInv /\ A => MailRank(n) \in Nat)'
  BY <1>1, PTL
<1>3. ASSUME MailInv, A, P, [MailNext]_mailVars, A'
      PROVE  L' \/ (P' /\ retry' = retry /\ poll' = poll)
  <2>1. n \in Held(cache) /\ MailInv' /\ MailRank(n) \in Nat
    BY <1>3, MailStep, MailRankIn DEF InMail
  <2>2. MailRank(n)' \in Nat
    BY <1>3, <1>2, <2>1
  <2>3. MailRank(n)' < MailRank(n) \/ (MailRank(n)' = MailRank(n) /\ retry' = retry /\ poll' = poll)
    BY <1>3, MailRankFalls
  <2> QED
    BY <1>3, <2>1, <2>2, <2>3
<1>4. MailInv /\ A /\ P /\ [MailNext]_mailVars
        => \/ ~A' \/ L'
           \/ P' /\ (InAir => InAir') /\ (Idle => Idle') /\ (Again => Again') /\ (Last => Last')
  BY <1>3
<1>5. MailInv /\ A /\ P /\ <<LosePoll>>_mailVars => ~A' \/ L'
  <2>1. LosePoll => poll' # poll
    BY DEF LosePoll
  <2> QED
    BY <1>0, <1>3, <2>1
<1>6. MailInv /\ A /\ P /\ <<SendPoll>>_mailVars => ~A' \/ L'
  <2>1. SendPoll => retry' # retry
    BY FriendQueueAssumption DEF SendPoll
  <2> QED
    BY <1>0, <1>3, <2>1
<1>7. MailInv /\ A /\ P /\ <<PollAgain>>_mailVars => ~A' \/ L'
  <2>1. MailInv /\ PollAgain => retry' # retry
    BY FriendQueueAssumption DEF PollAgain, MailInv, MailTypeOK
  <2> QED
    BY <1>0, <1>3, <2>1
<1>8. MailInv /\ A /\ P /\ <<GiveUp>>_mailVars => ~A' \/ L'
  BY DEF GiveUp, InMail
<1>9. MailInv /\ A => InAir \/ Idle \/ Again \/ Last
  <2>1. MailInv => retry \in Nat
    BY FriendQueueAssumption DEF MailInv, MailTypeOK
  <2> QED
    BY <2>1
<1>10. MailGuardsSuffice /\ A => /\ InAir => ENABLED <<LosePoll>>_mailVars
                                 /\ Idle => ENABLED <<SendPoll>>_mailVars
                                 /\ Again => ENABLED <<PollAgain>>_mailVars
                                 /\ Last => ENABLED <<GiveUp>>_mailVars
  BY DEF MailGuardsSuffice, InMail
<1> HIDE DEF A, P, L, InAir, Idle, Again, Last
<1>11. MailFairSpec /\ []MailGuardsSuffice => ((A /\ P) ~> (~A \/ L))
  BY <1>4, <1>5, <1>6, <1>7, <1>8, <1>9, <1>10, MailInitInv, MailStep, PTL
     DEF MailSpec, MailFairSpec
<1> QED
  BY <1>11 DEF A, P, L

ItemLeaves(n, k) == (InMail(n) /\ MailRank(n) <= k) ~> ~InMail(n)

\* The farthest an item of n can be: the head is at most a mailbox ahead.
Farthest == RoundSize * (3 * MailSlots + 2) + RoundSize

\* The rank of a held item has a bound.
LEMMA MailRankAtMost ==
  ASSUME MailInv, NEW n \in Held(cache)
  PROVE  MailRank(n) <= Farthest
<1>1. RingOK(cache) /\ cache.r \in Nat /\ cache.w \in Nat /\ MailSlots \in Nat
  BY MailTypes, FriendQueueAssumption DEF MailInv
<1>2. Count(cache) <= MailSlots /\ Count(cache) = cache.w - cache.r
  BY <1>1 DEF RingOK, Count
<1>3. Place(cache, n) \in InRing(cache)
  BY <1>1, PlaceOf DEF MailInv
<1>4. Place(cache, n) - cache.r < MailSlots /\ Place(cache, n) - cache.r \in Nat
  BY <1>1, <1>2, <1>3 DEF InRing
<1>5. Rounds(n) \in Nat /\ Rounds(n) < 3 * MailSlots + 2 /\ RoundSize \in Nat
  BY <1>1, <1>4, AcceptableIn, MailRankIn DEF Rounds
<1>6. MailPatience \in 0 .. RoundSize - 1
  BY <1>5, MailPatienceIn
<1>7. \A x, y, b \in Nat : \A q \in 0 .. b - 1 : x < y => b * x + q <= b * y + b
  <2> SUFFICES ASSUME NEW x \in Nat, NEW y \in Nat, NEW b \in Nat, NEW q \in 0 .. b - 1, x < y
               PROVE  b * x + q <= b * y + b
    OBVIOUS
  <2>1. b * x \in Nat /\ b * y \in Nat /\ 0 \in 0 .. b - 1
    OBVIOUS
  <2>2. b * x + q < b * y + 0
    BY <2>1, RoundsCount
  <2> QED
    BY <2>1, <2>2
<1>8. 3 * MailSlots + 2 \in Nat
  BY <1>1
<1> QED
  BY <1>5, <1>6, <1>7, <1>8 DEF MailRank, Farthest

\* EveryItemLeaves: an item does not stay in the mailbox of a friendship that goes on, whatever
\* comes behind it, whichever polls and answers are lost and whichever answers are refused.
THEOREM EveryHeldLeaves == MailFairSpec /\ []MailGuardsSuffice => EveryItemLeaves
<1> SUFFICES ASSUME NEW n \in 1 .. MaxMsgs
             PROVE  MailFairSpec /\ []MailGuardsSuffice
                      => (n \in Held(cache) ~> (~up \/ n \notin Held(cache)))
  BY DEF EveryItemLeaves
<1>1. MailInv /\ InMail(n) => ~(MailRank(n) <= 0) /\ MailRank(n) <= Farthest
  BY MailRankIn, MailRankAtMost DEF InMail
<1>2. MailFairSpec => []MailInv
  BY MailInitInv, MailStep, PTL DEF MailFairSpec, MailSpec
<1>3. MailFairSpec => ItemLeaves(n, 0)
  BY <1>1, <1>2, PTL DEF ItemLeaves
<1>4. ASSUME NEW k \in Nat
      PROVE  MailFairSpec /\ []MailGuardsSuffice /\ ItemLeaves(n, k) => ItemLeaves(n, k + 1)
  <2>1. MailFairSpec /\ []MailGuardsSuffice
          => ((InMail(n) /\ MailRank(n) = k + 1) ~> (~InMail(n) \/ MailRank(n) <= k))
    BY MailDescends
  <2>2. MailInv /\ InMail(n) /\ MailRank(n) <= k + 1 => MailRank(n) = k + 1 \/ MailRank(n) <= k
    BY MailRankIn DEF InMail
  <2> QED
    BY <1>2, <2>1, <2>2, PTL DEF ItemLeaves
<1>5. MailFairSpec /\ []MailGuardsSuffice => ItemLeaves(n, Farthest)
  <2> SUFFICES ASSUME MailFairSpec /\ []MailGuardsSuffice PROVE ItemLeaves(n, Farthest)
    OBVIOUS
  <2>1. PICK F : Named(F) /\ \A k \in Nat : F[k] = 1 <=> ItemLeaves(n, k)
    <3>1. Named([k \in Nat |-> IF ItemLeaves(n, k) THEN 1 ELSE 0])
      BY DEF Named
    <3> QED
      BY <3>1
  <2>2. F[0] = 1
    BY <1>3, <2>1
  <2>3. \A k \in Nat : F[k] = 1 => F[k + 1] = 1
    BY <1>4, <2>1
  <2>4. \A k \in Nat : F[k] = 1
    BY <2>2, <2>3, Induction
  <2>5. Farthest \in Nat
    BY FriendQueueAssumption DEF Farthest, RoundSize
  <2> QED
    BY <2>1, <2>4, <2>5
<1>6. InMail(n) <=> up /\ n \in Held(cache)
  BY DEF InMail
<1>7. n \notin Held(cache) <=> ~(n \in Held(cache))
  OBVIOUS
<1> QED
  BY <1>1, <1>2, <1>5, <1>6, <1>7, PTL DEF ItemLeaves

=============================================================================
