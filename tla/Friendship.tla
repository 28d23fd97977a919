------------------------------ MODULE Friendship -----------------------------
(***************************************************************************)
(* How low power nodes (mesh_lpn.c) and friend nodes (mesh_fn.c) make and  *)
(* end friendships.  A low power node asks all friends, collects offers,   *)
(* polls the one it chose and is its friend when an update answers.  A     *)
(* friend node keeps one slot per low power node; the first poll makes the *)
(* friendship, a poll timeout ends it, and the new friend sends Friend     *)
(* Clear to the previous one until it confirms or time is up.              *)
(* The credentials of a friendship derive from LPNCounter and FriCounter:  *)
(* a poll or an update of other credentials is not decoded.  Requests,     *)
(* offers, polls and updates go one hop: heard once or lost.  Clears and   *)
(* their confirms are relayed: they may also come late.                    *)
(* What the polls fetch is in FriendQueue.                                 *)
(***************************************************************************)
EXTENDS Integers, FiniteSets

CONSTANTS Lpn, Fn,     \* low power nodes and friend nodes
          NumSlots,    \* MAX_LPN_NUM: slots of a friend node
          PollRetries, \* polls without an answer that end a friendship
          None,
          MaxCounter   \* bound: requests of a low power node

Slots == 1 .. NumSlots

ASSUME FriendshipAssumption ==
    /\ NumSlots \in Nat \ {0} /\ PollRetries \in Nat \ {0} /\ MaxCounter \in Nat
    /\ None \notin Lpn \cup Fn

VARIABLES
    lpn,     \* mesh_lpn_par and fri_ship_proc_lpn of each low power node
    slot,    \* fn_other_par, fn_req and fri_ship_proc_fn of each friend node
    friCnt,  \* fn_offer.FriCounter of each slot
    air      \* messages sent and neither heard nor lost

vars == <<lpn, slot, friCnt, air>>

Msg(op, src, dst, who, cnt, par) ==
    [op |-> op, src |-> src, dst |-> dst, lpn |-> who, cnt |-> cnt, par |-> par]

\* CMD_CTL_REQUEST carries PreAdr, CMD_CTL_OFFER FriCounter; polls and updates need both
\* counters to be decoded
RequestMsgs(l, cnt, pre) == {Msg("request", l, f, l, cnt, pre) : f \in Fn}
Offer(f, l, fri)         == Msg("offer", f, l, l, 0, fri)
Poll(l, f, cnt, fri)     == Msg("poll", l, f, l, cnt, fri)
Update(f, l, cnt, fri)   == Msg("update", f, l, l, cnt, fri)
Clear(f, g, l, cnt)      == Msg("clear", f, g, l, cnt, None)
ClearConf(f, g, l, cnt)  == Msg("conf", f, g, l, cnt, None)

\* mesh_friend_ship_clear_FN
FreeSlot == [st |-> "idle", lpn |-> None, link |-> FALSE, cnt |-> 0, pre |-> None,
             fri |-> 0, offered |-> FALSE, answer |-> FALSE, clearDelay |-> FALSE,
             clearPoll |-> FALSE]

\* mesh_friend_ship_proc_init_fn: the state of the procedure only
ProcInit(s) == [s EXCEPT !.st = "idle", !.offered = FALSE, !.clearDelay = FALSE,
                         !.clearPoll = FALSE]

\* mesh_friend_ship_set_st_lpn(FRI_ST_REQUEST): the counter and PreAdr stay
Requesting(p) == [p EXCEPT !.st = "request", !.fn = None, !.fri = 0, !.retry = 0]

MinOf(S) == CHOOSE i \in S : \A j \in S : i <= j
OneHop(m) == m.op \notin {"clear", "conf"}

TypeOK ==
    /\ lpn \in [Lpn -> [st : {"request", "offer", "poll", "update", "friend"},
                        fn : Fn \cup {None}, cnt : 0 .. MaxCounter, fri : Nat,
                        pre : Fn \cup {None}, retry : 0 .. PollRetries]]
    /\ \A l \in Lpn : lpn[l].st \in {"update", "friend"} => lpn[l].fn # None
    /\ slot \in [Fn -> [Slots -> [st : {"idle", "offer", "poll", "check"},
                        lpn : Lpn \cup {None}, link : BOOLEAN, cnt : 0 .. MaxCounter,
                        pre : Fn \cup {None}, fri : Nat, offered : BOOLEAN,
                        answer : BOOLEAN, clearDelay : BOOLEAN, clearPoll : BOOLEAN]]]
    /\ friCnt \in [Fn -> [Slots -> Nat]]

Init ==
    /\ lpn = [l \in Lpn |-> [st |-> "request", fn |-> None, cnt |-> 0, fri |-> 0,
                             pre |-> None, retry |-> 0]]
    /\ slot = [f \in Fn |-> [i \in Slots |-> FreeSlot]]
    /\ friCnt = [f \in Fn |-> [i \in Slots |-> 0]]
    /\ air = {}

----------------------------------------------------------------------------
(* The low power node *)

\* FRI_ST_REQUEST: friend_cmd_send_request
SendRequest(l) ==
    LET cnt == lpn[l].cnt + 1
    IN  /\ lpn[l].st = "request" /\ lpn[l].cnt < MaxCounter
        /\ lpn' = [lpn EXCEPT ![l] = [Requesting(@) EXCEPT !.st = "offer", !.cnt = cnt]]
        /\ air' = {m \in air : ~(OneHop(m) /\ m.lpn = l)} \cup RequestMsgs(l, cnt, lpn[l].pre)
        /\ UNCHANGED <<slot, friCnt>>

\* variant: an offer counts also when the low power node has chosen
BugRxOffer(l, m) ==
    /\ m \in air /\ m.op = "offer" /\ m.dst = l
    /\ air' = air \ {m}
    /\ lpn' = [lpn EXCEPT ![l].fn = m.src, ![l].fri = m.par]
    /\ UNCHANGED <<slot, friCnt>>

\* lpn_rx_offer_handle: the first offer, or one heard better
RxOffer(l, m) ==
    /\ m \in air /\ m.op = "offer" /\ m.dst = l
    /\ air' = air \ {m}
    /\ IF lpn[l].st = "offer"
       THEN \/ lpn' = [lpn EXCEPT ![l].fn = m.src, ![l].fri = m.par]
            \/ lpn[l].fn # None /\ UNCHANGED lpn
       ELSE UNCHANGED lpn
    /\ UNCHANGED <<slot, friCnt>>

\* FRI_ESTABLISH_PERIOD_MS after the request; an offer of the request before, at least
\* FRI_REQ_TIMEOUT_MS earlier, is no longer open by then (OfferTimeout)
EndOffers(l) ==
    /\ lpn[l].st = "offer"
    /\ \A f \in Fn, i \in Slots :
          slot[f][i].offered /\ slot[f][i].lpn = l => slot[f][i].cnt = lpn[l].cnt
    /\ lpn' = [lpn EXCEPT ![l].st = "poll"]
    /\ UNCHANGED <<slot, friCnt, air>>

PollOf(l) == Poll(l, lpn[l].fn, lpn[l].cnt, lpn[l].fri)

\* FRI_ST_POLL: the first poll, or lpn_no_offer_handle
FirstPoll(l) ==
    /\ lpn[l].st = "poll"
    /\ \/ /\ lpn[l].fn # None
          /\ lpn' = [lpn EXCEPT ![l].st = "update", ![l].retry = PollRetries]
          /\ air' = air \cup {PollOf(l)}
       \/ /\ lpn[l].fn = None
          /\ lpn' = [lpn EXCEPT ![l] = Requesting(@)]
          /\ UNCHANGED air
    /\ UNCHANGED <<slot, friCnt>>

\* mesh_friend_ship_start_poll
StartPoll(l) ==
    /\ lpn[l].st = "friend" /\ lpn[l].retry = 0
    /\ lpn' = [lpn EXCEPT ![l].retry = PollRetries]
    /\ air' = air \cup {PollOf(l)}
    /\ UNCHANGED <<slot, friCnt>>

\* an update answers the poll; in FRI_ST_UPDATE it makes the friendship
RxUpdate(l, m) ==
    /\ m \in air /\ m.op = "update" /\ m.dst = l
    /\ air' = air \ {m}
    /\ IF lpn[l].retry > 0 /\ m.src = lpn[l].fn /\ m.cnt = lpn[l].cnt /\ m.par = lpn[l].fri
       THEN lpn' = [lpn EXCEPT ![l].st = "friend", ![l].pre = lpn[l].fn, ![l].retry = 0]
       ELSE UNCHANGED lpn
    /\ UNCHANGED <<slot, friCnt>>

\* variant: the poll is only repeated
BugRetryPoll(l) ==
    /\ lpn[l].retry > 0 /\ PollOf(l) \notin air
    /\ air' = air \cup {PollOf(l)}
    /\ UNCHANGED <<lpn, slot, friCnt>>

\* no answer in time: poll again, or look for a friend again
RetryPoll(l) ==
    /\ lpn[l].retry > 0 /\ PollOf(l) \notin air
    /\ \/ /\ lpn[l].retry > 1
          /\ lpn' = [lpn EXCEPT ![l].retry = @ - 1]
          /\ air' = air \cup {PollOf(l)}
       \/ /\ lpn[l].retry = 1
          /\ lpn' = [lpn EXCEPT ![l] = Requesting(@)]
          /\ UNCHANGED air
    /\ UNCHANGED <<slot, friCnt>>

----------------------------------------------------------------------------
(* The friend node *)

Put(f, i, s) == slot' = [slot EXCEPT ![f][i] = s]

\* a free slot or the one this low power node had; the loop takes the first of them
Takers(f, l) == {i \in Slots : slot[f][i].st = "idle" \/ slot[f][i].lpn = l}

\* CMD_CTL_REQUEST: an old friendship of the slot ends
RxRequest(f, m) ==
    LET i == MinOf(Takers(f, m.lpn))
    IN  /\ m \in air /\ m.op = "request" /\ m.dst = f
        /\ air' = air \ {m}
        /\ IF Takers(f, m.lpn) # {}
           THEN Put(f, i, [FreeSlot EXCEPT !.st = "offer", !.lpn = m.lpn, !.cnt = m.cnt,
                                           !.pre = m.par, !.offered = TRUE])
           ELSE UNCHANGED slot
        /\ UNCHANGED <<lpn, friCnt>>

\* offer_delay is over
SendOffer(f, i) ==
    LET s == slot[f][i]
        fri == friCnt[f][i] + 1
    IN  /\ s.st = "offer"
        /\ friCnt' = [friCnt EXCEPT ![f][i] = fri]
        /\ Put(f, i, [s EXCEPT !.st = "poll", !.fri = fri])
        /\ air' = air \cup {Offer(f, s.lpn, fri)}
        /\ UNCHANGED lpn

\* no poll came: "LPN did not receive offer, or LPN did not select current FN"
OfferTimeout(f, i) ==
    /\ slot[f][i].st = "poll"
    /\ Put(f, i, ProcInit(slot[f][i]))
    /\ UNCHANGED <<lpn, friCnt, air>>

\* the credentials with which the library can decode a poll
Decodes(f, m) == \E i \in Slots : slot[f][i].lpn = m.lpn /\ slot[f][i].cnt = m.cnt
                                    /\ slot[f][i].fri = m.par
OfLpn(f, l) == {i \in Slots : slot[f][i].st # "idle" /\ slot[f][i].lpn = l}

\* variant: the state of the procedure is set before it is initialised
BugPolled(f, s) ==
    IF s.offered
    THEN ProcInit([s EXCEPT !.link = TRUE, !.answer = TRUE])
    ELSE [s EXCEPT !.answer = TRUE, !.st = "check"]

\* CMD_CTL_POLL at its slot: the first poll makes the friendship and, when the low power
\* node had another friend, orders the Friend Clear
Polled(f, s) ==
    LET t == IF s.offered
             THEN [ProcInit(s) EXCEPT !.link = TRUE, !.clearDelay = s.pre \notin {None, f}]
             ELSE s
    IN  [t EXCEPT !.answer = TRUE, !.st = "check"]

RxPoll(f, m) ==
    /\ m \in air /\ m.op = "poll" /\ m.dst = f
    /\ air' = air \ {m}
    /\ IF Decodes(f, m) /\ OfLpn(f, m.lpn) # {}
       THEN LET i == MinOf(OfLpn(f, m.lpn)) IN Put(f, i, Polled(f, slot[f][i]))
       ELSE UNCHANGED slot
    /\ UNCHANGED <<lpn, friCnt>>

ClearOf(f, s) == Clear(f, s.pre, s.lpn, s.cnt)

\* mesh_friend_response_delay_proc_fn: the answer, and the first clear after it: "make sure
\* establish friend ship success"
Respond(f, i) ==
    LET s == slot[f][i]
    IN  /\ s.answer
        /\ air' = air \cup {Update(f, s.lpn, s.cnt, s.fri)}
                      \cup (IF s.clearDelay THEN {ClearOf(f, s)} ELSE {})
        /\ Put(f, i, [s EXCEPT !.answer = FALSE, !.clearDelay = FALSE,
                               !.clearPoll = @ \/ s.clearDelay])
        /\ UNCHANGED <<lpn, friCnt>>

\* m is a poll that slot i will hear: the first slot in use by its low power node
Hears(f, i, m) ==
    /\ m.op = "poll" /\ m.dst = f /\ Decodes(f, m)
    /\ i \in OfLpn(f, m.lpn) /\ i = MinOf(OfLpn(f, m.lpn))

\* FRI_ST_TIMEOUT_CHECK: no poll at this slot for PollTimeout
PollTimeout(f, i) ==
    /\ slot[f][i].st = "check" /\ \A m \in air : ~Hears(f, i, m)
    /\ Put(f, i, FreeSlot)
    /\ UNCHANGED <<lpn, friCnt, air>>

\* clear_poll: again after a growing pause
ClearAgain(f, i) ==
    /\ slot[f][i].clearPoll /\ ClearOf(f, slot[f][i]) \notin air
    /\ air' = air \cup {ClearOf(f, slot[f][i])}
    /\ UNCHANGED <<lpn, slot, friCnt>>

StopClear(s) == [s EXCEPT !.clearPoll = FALSE]   \* mesh_stop_clear_cmd

\* twice PollTimeout after the first clear
ClearTimeout(f, i) ==
    /\ slot[f][i].clearPoll
    /\ Put(f, i, StopClear(slot[f][i]))
    /\ UNCHANGED <<lpn, friCnt, air>>

\* CMD_CTL_CLEAR by another friend.  The difference of the two u16 counters is an int: it is
\* at most 255 also when the clear is older than the friendship.
ClearHits(s, m) == s.lpn = m.lpn /\ m.cnt - s.cnt <= 255

RxClear(f, m) ==
    LET hit == {i \in Slots : ClearHits(slot[f][i], m)}
    IN  /\ m \in air /\ m.op = "clear" /\ m.dst = f
        /\ IF hit # {}
           THEN /\ Put(f, MinOf(hit), FreeSlot)
                /\ air' = (air \ {m}) \cup {ClearConf(f, m.src, m.lpn, m.cnt)}
           ELSE air' = air \ {m} /\ UNCHANGED slot
        /\ UNCHANGED <<lpn, friCnt>>

\* CMD_CTL_CLR_CONF
RxClearConf(f, m) ==
    LET on == {i \in Slots : slot[f][i].clearPoll /\ slot[f][i].lpn = m.lpn}
    IN  /\ m \in air /\ m.op = "conf" /\ m.dst = f
        /\ air' = air \ {m}
        /\ IF on # {} THEN Put(f, MinOf(on), StopClear(slot[f][MinOf(on)]))
                      ELSE UNCHANGED slot
        /\ UNCHANGED <<lpn, friCnt>>

Lose(m) ==
    /\ m \in air
    /\ air' = air \ {m}
    /\ UNCHANGED <<lpn, slot, friCnt>>

----------------------------------------------------------------------------

LpnStep(l) ==
    \/ SendRequest(l) \/ EndOffers(l) \/ FirstPoll(l) \/ StartPoll(l) \/ RetryPoll(l)
    \/ \E m \in air : RxOffer(l, m) \/ RxUpdate(l, m)

SlotStep(f, i) ==
    \/ SendOffer(f, i) \/ OfferTimeout(f, i) \/ Respond(f, i)
    \/ PollTimeout(f, i) \/ ClearAgain(f, i) \/ ClearTimeout(f, i)

FnRx(f) ==
    \E m \in air : RxRequest(f, m) \/ RxPoll(f, m) \/ RxClear(f, m) \/ RxClearConf(f, m)

Next ==
    \/ \E l \in Lpn : LpnStep(l)
    \/ \E f \in Fn : FnRx(f) \/ \E i \in Slots : SlotStep(f, i)
    \/ \E m \in air : Lose(m)

Spec == Init /\ [][Next]_vars

\* the timers of both sides run out, and a message of one hop is heard or lost
LpnRuns(l) ==
    WF_vars(EndOffers(l)) /\ WF_vars(FirstPoll(l)) /\ WF_vars(StartPoll(l)) /\ WF_vars(RetryPoll(l))
SlotRuns(f, i) ==
    /\ WF_vars(SendOffer(f, i)) /\ WF_vars(OfferTimeout(f, i))
    /\ WF_vars(PollTimeout(f, i)) /\ WF_vars(ClearTimeout(f, i))
Ends(l, op) == \E m \in air : m.op = op /\ m.lpn = l /\ Lose(m)
MessagesEnd(l, op) == WF_vars(Ends(l, op))

FairSpec ==
    /\ Spec
    /\ \A l \in Lpn : LpnRuns(l)
    /\ \A f \in Fn, i \in Slots : SlotRuns(f, i)
    /\ \A l \in Lpn, op \in {"request", "offer", "poll", "update"} : MessagesEnd(l, op)

\* What fairness is about: the guards of these actions are all they need, and each changes
\* something.
GuardsSuffice ==
    /\ \A l \in Lpn :
          /\ lpn[l].st = "friend" /\ lpn[l].retry = 0 => ENABLED <<StartPoll(l)>>_vars
          /\ lpn[l].retry > 0 /\ PollOf(l) \notin air => ENABLED <<RetryPoll(l)>>_vars
          /\ PollOf(l) \in air => ENABLED <<Ends(l, "poll")>>_vars
    /\ \A f \in Fn, i \in Slots :
          /\ slot[f][i].st = "check" /\ \A m \in air : ~Hears(f, i, m)
          => ENABLED <<PollTimeout(f, i)>>_vars

----------------------------------------------------------------------------
(* Properties *)

IsFriend(f, i, l) == slot[f][i].link /\ slot[f][i].lpn = l

\* Two friend nodes never both serve the same session of a low power node, whatever offers
\* it heard and whichever polls and clears were lost.
OneFriendPerSession ==
    \A l \in Lpn, f, g \in Fn, i, j \in Slots :
        IsFriend(f, i, l) /\ IsFriend(g, j, l) /\ slot[f][i].cnt = slot[g][j].cnt => f = g

Serves(f, l) == \E i \in Slots : IsFriend(f, i, l) /\ slot[f][i].cnt = lpn[l].cnt
Abandoned(l) == lpn[l].st = "friend" /\ ~Serves(lpn[l].fn, l)

\* A low power node whose friend dropped it notices: its polls get no answer and it leaves.
LpnNotices == \A l \in Lpn : Abandoned(l) ~> ~Abandoned(l)

\* A friend node does not serve a session its low power node left for ever.
Stale(l, f, i) == IsFriend(f, i, l) /\ (lpn[l].fn # f \/ slot[f][i].cnt # lpn[l].cnt)
LetsGo(l, f, i) == Stale(l, f, i) ~> ~Stale(l, f, i)
OldFriendLetsGo == \A l \in Lpn, f \in Fn, i \in Slots : LetsGo(l, f, i)

=============================================================================
