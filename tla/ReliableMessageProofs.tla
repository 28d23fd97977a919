------------------------ MODULE ReliableMessageProofs -----------------------
(***************************************************************************)
(* Proofs about ReliableMessage, for any messages, nodes, retry counts and *)
(* threads: as long as the slots do not change during another thread's post*)
(* or task, no accepted message is forgotten, the application is told once *)
(* of each, what it is told is true, and it is told in the end.            *)
(***************************************************************************)
EXTENDS ReliableMessage, FiniteSetTheorems, SequenceTheorems, WellFoundedInduction, TLAPS

-----------------------------------------------------------------------------
(* The inductive invariant *)

At == pc[Handler]
Posted == msg[Handler]
RelTask == "reliableMessageTimeoutTask"
Labels == {"idle", "check", "post"} \cup Tasks
Posting(t) == pc[t] \in {"check", "post"}

\* the message in the slot is being posted again
Retrying == Posting(Handler) /\ status[Posted] = "accepted"

\* what was sent and what has become of it
Numbered ==
  /\ \A m \in Msgs : m > Len(kind) => status[m] = "new"
  /\ \A m \in Msgs : status[m] = "accepted" \/ reports[m] = <<>>
  /\ \A m \in Msgs : reports[m] # <<>> => kind[m].reliable
  /\ \A p \in DOMAIN posts : posts[p].msg <= Len(kind)

\* a message is posted by one thread, for the first time or again out of its slot; tasks
\* run on the handler thread
PostingOK ==
  /\ \A t \in Threads : Posting(t) =>
       /\ msg[t] # 0
       /\ \/ status[msg[t]] = "new"
          \/ /\ t = Handler
             /\ status[msg[t]] = "accepted" /\ reports[msg[t]] = <<>> /\ kind[msg[t]].reliable
             /\ msg[t] = sending /\ ~relBusy
             /\ kind[msg[t]].segmented => ~segBusy
       /\ pc[t] = "post" /\ kind[msg[t]].segmented => ~segBusy
       /\ \A u \in Threads \ {t} : Posting(u) => msg[u] # msg[t]
  /\ \A t \in Threads \ {Handler} : pc[t] \notin Tasks

\* the slot holds the one message that waits
SlotOK ==
  /\ relBusy => /\ sending # 0 /\ kind[sending].reliable
                /\ status[sending] = "accepted" /\ reports[sending] = <<>>
  /\ \A m \in 1 .. Len(kind) : Waiting(m) => sending = m /\ (relBusy \/ Retrying)

\* a timer comes back to what waits, and only to that
TimersOK ==
  /\ relBusy => RelTask \in timers \/ At = RelTask \/ segBusy
  /\ RelTask \in timers \/ At = RelTask => relBusy
  /\ At = RelTask => RelTask \notin timers
  /\ segBusy <=> sent # 0
  /\ segBusy => \A task \in SegmentTasks : task \in timers \/ At = task
  /\ \A task \in SegmentTasks : task \in timers \/ At = task => segBusy

\* the segments under way are those of the message in the slot, which waits for them
\* first, or of one that waits for no response
SegmentsOK ==
  sent # 0 =>
    /\ posts[sent].result = "none" /\ kind[posts[sent].msg].segmented
    /\ kind[posts[sent].msg].reliable =>
         relBusy /\ sending = posts[sent].msg /\ RelTask \notin timers /\ At # RelTask

\* the responses counted are to the message in the slot
HeardOK ==
  /\ \A m \in Msgs : IsFiniteSet(heard[m])
  /\ IF relBusy \/ Retrying THEN responses \subseteq heard[sending] ELSE responses = {}

\* the application is told once of a message
Once == \A m \in Msgs : Len(reports[m]) <= 1

RelInv ==
  Typed /\ Numbered /\ PostingOK /\ SlotOK /\ TimersOK /\ SegmentsOK /\ HeardOK
    /\ Once /\ SuccessMeansAnswered /\ SegmentSuccessMeansReceived /\ FailureMeansGaveUp

-----------------------------------------------------------------------------
(* What the steps are made of *)

Post == [msg : Msgs, result : {"none", "success", "failure"}]
Told(m) == {reports[m][i] : i \in DOMAIN reports[m]}

\* Where a thread goes.
LEMMA Goes ==
  ASSUME Typed, NEW t \in Threads
  PROVE  /\ Handler \in Threads /\ pc \in [Threads -> Labels] /\ pc[t] \in Labels /\ At \in Labels
         /\ \A label \in Labels : Become(t, label) =>
              /\ pc' \in [Threads -> Labels] /\ pc'[t] = label
              /\ \A u \in Threads \ {t} : pc'[u] = pc[u]
BY ReliableMessageAssumption DEF Typed, At, Become, Labels

\* Without a race, the slots change only when no other post or task is under way.
LEMMA Undisturbed ==
  ASSUME Typed, NEW t \in Threads, Watch(t), ~raced', slots' # slots
  PROVE  /\ \A u \in Threads \ {t} :
              /\ pc[u] \in {"idle", "check"}
              /\ pc[u] = "check" => status[msg[u]] = "new"
         /\ t # Handler => ~Retrying /\ At # "post" /\ \A task \in Tasks : At # task
<1>1. \A u \in Threads \ {t} : ~Exposed(u)
  BY DEF Watch, Disturbed
<1>2. \A u \in Threads \ {t} : pc[u] \in {"idle", "check"} /\ (pc[u] = "check" => status[msg[u]] = "new")
  BY <1>1 DEF Exposed, Idle
<1>3. t # Handler => pc[Handler] \in {"idle", "check"} /\ (pc[Handler] = "check" => status[msg[Handler]] = "new")
  BY <1>2, ReliableMessageAssumption
<1>4. "idle" \notin Tasks /\ "check" \notin Tasks
  BY DEF Tasks
<1> QED
  BY <1>2, <1>3, <1>4 DEF Retrying, Posting, At, Posted

\* The types of the sequences, in a usable form.
LEMMA Shape ==
  ASSUME Typed
  PROVE  /\ Len(kind) \in Nat /\ Len(kind) <= MaxMsgs /\ MaxMsgs \in Nat
         /\ DOMAIN kind = 1 .. Len(kind) /\ \A m \in 1 .. Len(kind) : kind[m] \in Kinds /\ m \in Msgs
         /\ posts \in Seq(Post) /\ Len(posts) \in Nat /\ DOMAIN posts = 1 .. Len(posts)
         /\ \A p \in DOMAIN posts : posts[p] \in Post /\ p # 0
         /\ sent # 0 => sent \in DOMAIN posts
         /\ sending # 0 => sending \in 1 .. Len(kind) /\ sending \in Msgs
<1>1. kind \in Seq(Kinds) /\ Len(kind) <= MaxMsgs /\ MaxMsgs \in Nat /\ posts \in Seq(Post)
  BY ReliableMessageAssumption DEF Typed, Post
<1>2. /\ Len(kind) \in Nat /\ DOMAIN kind = 1 .. Len(kind)
      /\ \A m \in 1 .. Len(kind) : kind[m] \in Kinds
  BY <1>1, LenProperties, ElementOfSeq
<1>3. /\ Len(posts) \in Nat /\ DOMAIN posts = 1 .. Len(posts)
      /\ \A p \in 1 .. Len(posts) : posts[p] \in Post
  BY <1>1, LenProperties, ElementOfSeq
<1>4. sent # 0 => sent \in 1 .. Len(posts)
  <2>1. Len(posts) \in Nat /\ (sent = 0 \/ sent = Len(posts))
    BY <1>3 DEF Typed
  <2> QED
    BY <2>1
<1>5. sending # 0 => sending \in 1 .. Len(kind)
  <2>1. Len(kind) \in Nat /\ sending \in 0 .. Len(kind)
    BY <1>2 DEF Typed
  <2> QED
    BY <2>1
<1>6. \A m \in 1 .. Len(kind) : m \in Msgs
  <2>1. Len(kind) \in Nat /\ Len(kind) <= MaxMsgs /\ MaxMsgs \in Nat
    BY <1>1, <1>2
  <2> QED
    BY <2>1 DEF Msgs
<1>7. \A p \in 1 .. Len(posts) : p # 0
  OBVIOUS
<1> QED
  BY <1>1, <1>2, <1>3, <1>4, <1>5, <1>6, <1>7

\* clearSegmentSendingState gives the segments under way their result.
LEMMA SegmentsEnd ==
  ASSUME Typed, NEW r \in {"success", "failure"}, ClearSegmentSendingState(r)
  PROVE  /\ segBusy' = FALSE /\ sent' = 0
         /\ posts' \in Seq(Post) /\ DOMAIN posts' = DOMAIN posts
         /\ \A p \in DOMAIN posts :
              /\ posts'[p].msg = posts[p].msg
              /\ posts'[p].result = IF p = sent THEN r ELSE posts[p].result
<1>1. CASE sent = 0
  BY <1>1, Shape DEF ClearSegmentSendingState
<1>2. CASE sent # 0
  <2> DEFINE e == [posts[sent] EXCEPT !.result = r]
  <2>1. sent \in 1 .. Len(posts) /\ posts[sent] \in Post /\ posts \in Seq(Post)
    BY <1>2, Shape
  <2>2. e \in Post /\ e.msg = posts[sent].msg /\ e.result = r
    BY <2>1 DEF Post
  <2>3. posts' = [posts EXCEPT ![sent] = e]
    BY <1>2 DEF ClearSegmentSendingState
  <2> HIDE DEF e
  <2>4. /\ posts' \in Seq(Post) /\ Len(posts') = Len(posts)
        /\ \A p \in 1 .. Len(posts) : posts'[p] = IF p = sent THEN e ELSE posts[p]
    BY <2>1, <2>2, <2>3, ExceptSeq
  <2>5. DOMAIN posts' = DOMAIN posts /\ DOMAIN posts = 1 .. Len(posts)
    BY <2>3, Shape
  <2> QED
    BY <2>2, <2>4, <2>5 DEF ClearSegmentSendingState
<1> QED
  BY <1>1, <1>2

\* The one element of a sequence.
LEMMA OneElement ==
  ASSUME NEW x
  PROVE  \A j \in DOMAIN <<x>> : <<x>>[j] = x
<1>1. DOMAIN <<x>> = 1 .. 1 /\ <<x>>[1] = x
  OBVIOUS
<1> QED
  BY <1>1

\* onReliableMessageComplete tells the application once.
LEMMA Reported ==
  ASSUME Typed, NEW m \in Msgs, NEW b \in BOOLEAN, reports[m] = <<>>,
         reports' = [reports EXCEPT ![m] = Append(@, b)]
  PROVE  /\ reports' \in [Msgs -> Seq(BOOLEAN)] /\ reports'[m] = <<b>>
         /\ \A n \in Msgs \ {m} : reports'[n] = reports[n]
<1>1. Append(<<>>, b) = <<b>> /\ <<b>> \in Seq(BOOLEAN) /\ reports \in [Msgs -> Seq(BOOLEAN)]
  BY DEF Typed
<1>2. reports'[m] = <<b>> /\ \A n \in Msgs \ {m} : reports'[n] = reports[n]
  BY <1>1
<1> QED
  BY <1>1, <1>2

-----------------------------------------------------------------------------
(* What the application is told *)

ReportsInv == Once /\ SuccessMeansAnswered /\ SegmentSuccessMeansReceived /\ FailureMeansGaveUp

\* the segments under way end, and what they show is true
SegmentsOver ==
  \E r \in {"success", "failure"} :
    /\ ClearSegmentSendingState(r)
    /\ (r = "success" /\ sent # 0) =>
         (kind[posts[sent].msg].reliable => sent \in acked' \/ heard'[posts[sent].msg] # {})

TrueSegments == UNCHANGED posts \/ SegmentsOver

\* the application is told of the message in the slot, and it is true
Tells ==
  \E b \in BOOLEAN :
    /\ sending \in 1 .. Len(kind) /\ reports[sending] = <<>>
    /\ reports' = [reports EXCEPT ![sending] = Append(@, b)]
    /\ b => Cardinality(heard'[sending]) >= kind[sending].rspMax
    /\ ~b => \/ retry'[sending] = 0
             \/ \E p \in DOMAIN posts :
                  /\ posts'[p].result = "failure"
                  /\ posts[p].msg = sending \/ ~kind[posts[p].msg].reliable

TrueReport == UNCHANGED reports \/ Tells

\* Nothing that was told changes.
LEMMA ToldTheSame ==
  ASSUME RelInv, UNCHANGED <<kind, retry, reports, heard, posts, acked>>
  PROVE  ReportsInv'
<1>1. Once' /\ SuccessMeansAnswered' /\ SegmentSuccessMeansReceived' /\ FailureMeansGaveUp'
  BY DEF RelInv, Once, SuccessMeansAnswered, SegmentSuccessMeansReceived, FailureMeansGaveUp
<1> QED
  BY <1>1 DEF ReportsInv

\* When these are, what was told before stays true, too.
LEMMA ReportsStayTrue ==
  ASSUME RelInv, UNCHANGED kind, TrueSegments, TrueReport,
         heard' \in [Msgs -> SUBSET Nodes], \A m \in Msgs : IsFiniteSet(heard'[m]) /\ heard[m] \subseteq heard'[m],
         acked \subseteq acked', \A m \in Msgs : retry[m] = 0 => retry'[m] = 0
  PROVE  ReportsInv'
<1>1. /\ Typed /\ Once /\ SuccessMeansAnswered /\ SegmentSuccessMeansReceived
      /\ FailureMeansGaveUp /\ SegmentsOK /\ Numbered
  BY DEF RelInv
<1>2. /\ DOMAIN posts' = DOMAIN posts
      /\ \A p \in DOMAIN posts :
           /\ posts'[p].msg = posts[p].msg /\ p # 0
           /\ \/ posts'[p].result = posts[p].result
              \/ /\ p = sent /\ posts[p].result = "none"
                 /\ posts'[p].result = "success" =>
                      (kind[posts[p].msg].reliable => p \in acked' \/ heard'[posts[p].msg] # {})
  <2>1. CASE UNCHANGED posts
    BY <1>1, <2>1, Shape
  <2>2. ASSUME NEW r \in {"success", "failure"}, ClearSegmentSendingState(r),
               (r = "success" /\ sent # 0) =>
                 (kind[posts[sent].msg].reliable => sent \in acked' \/ heard'[posts[sent].msg] # {})
        PROVE  /\ DOMAIN posts' = DOMAIN posts
               /\ \A p \in DOMAIN posts :
                    /\ posts'[p].msg = posts[p].msg /\ p # 0
                    /\ \/ posts'[p].result = posts[p].result
                       \/ /\ p = sent /\ posts[p].result = "none"
                          /\ posts'[p].result = "success" =>
                               (kind[posts[p].msg].reliable => p \in acked' \/ heard'[posts[p].msg] # {})
    BY <1>1, <2>2, SegmentsEnd, Shape DEF SegmentsOK
  <2> QED
    BY <2>1, <2>2 DEF TrueSegments, SegmentsOver
<1>3. SegmentSuccessMeansReceived'
  <2> SUFFICES ASSUME NEW p \in DOMAIN posts', posts'[p].result = "success", kind[posts'[p].msg].reliable
               PROVE  p \in acked' \/ heard'[posts'[p].msg] # {}
    BY DEF SegmentSuccessMeansReceived
  <2>1. p \in DOMAIN posts /\ posts'[p].msg = posts[p].msg
    BY <1>2
  <2>2. CASE posts[p].result = "success"
    <3>1. p \in acked \/ heard[posts[p].msg] # {}
      BY <1>1, <2>1, <2>2 DEF SegmentSuccessMeansReceived
    <3>2. posts[p].msg \in Msgs
      BY <1>1, <2>1, Shape DEF Post
    <3> QED
      BY <2>1, <3>1, <3>2
  <2>3. CASE posts[p].result # "success"
    BY <1>2, <2>1, <2>3
  <2> QED
    BY <2>2, <2>3
<1>4. \A p \in DOMAIN posts : posts[p].result = "failure" => posts'[p].result = "failure"
  BY <1>2
<1>5. \/ UNCHANGED reports
      \/ \E b \in BOOLEAN :
           /\ sending \in 1 .. Len(kind) /\ sending \in Msgs
           /\ reports'[sending] = <<b>>
           /\ \A n \in Msgs \ {sending} : reports'[n] = reports[n]
           /\ b => Cardinality(heard'[sending]) >= kind[sending].rspMax
           /\ ~b => \/ retry'[sending] = 0
                    \/ \E p \in DOMAIN posts :
                         /\ posts'[p].result = "failure"
                         /\ posts[p].msg = sending \/ ~kind[posts[p].msg].reliable
  BY <1>1, Shape, Reported DEF TrueReport, Tells
<1>6. Once'
  <2>1. \A b \in BOOLEAN : Len(<<b>>) <= 1
    OBVIOUS
  <2>2. \A m \in Msgs : Len(reports[m]) <= 1
    BY <1>1 DEF Once
  <2> QED
    BY <1>5, <2>1, <2>2 DEF Once
<1>7. ASSUME NEW m \in 1 .. Len(kind), TRUE \in Told(m)'
      PROVE  Cardinality(heard'[m]) >= kind[m].rspMax
  <2>0. m \in Msgs /\ kind[m].rspMax \in Nat
    <3>1. m \in Msgs /\ kind[m] \in Kinds
      BY <1>1, Shape
    <3> QED
      BY <3>1, ReliableMessageAssumption
  <2>1. CASE TRUE \in Told(m)
    <3>1. Cardinality(heard[m]) >= kind[m].rspMax
      BY <1>1, <2>1 DEF SuccessMeansAnswered, Told
    <3>2. /\ IsFiniteSet(heard'[m]) /\ heard[m] \subseteq heard'[m]
      BY <2>0
    <3>3. /\ Cardinality(heard[m]) <= Cardinality(heard'[m]) /\ Cardinality(heard[m]) \in Nat
          /\ Cardinality(heard'[m]) \in Nat
      BY <3>2, FS_Subset, FS_CardinalityType
    <3> QED
      BY <2>0, <3>1, <3>3
  <2>2. CASE TRUE \notin Told(m)
    <3>1. reports'[m] # reports[m]
      BY <1>7, <2>2 DEF Told
    <3>2. m = sending /\ (reports'[m] = <<TRUE>> \/ reports'[m] = <<FALSE>>)
      BY <1>5, <2>0, <3>1
    <3>3. reports'[m] # <<FALSE>>
      <4>1. PICK i \in DOMAIN reports'[m] : reports'[m][i] = TRUE
        BY <1>7 DEF Told
      <4>2. \A j \in DOMAIN <<FALSE>> : <<FALSE>>[j] = FALSE
        BY OneElement
      <4> QED
        BY <4>1, <4>2
    <3> QED
      BY <1>5, <2>0, <3>1, <3>2, <3>3
  <2> QED
    BY <2>1, <2>2
<1>8. ASSUME NEW m \in 1 .. Len(kind), FALSE \in Told(m)'
      PROVE  \/ retry'[m] = 0
             \/ \E p \in DOMAIN posts' :
                  /\ posts'[p].result = "failure"
                  /\ posts'[p].msg = m \/ ~kind[posts'[p].msg].reliable
  <2>0. m \in Msgs
    BY <1>1, Shape
  <2>1. CASE FALSE \in Told(m)
    <3>1. \/ retry[m] = 0
          \/ \E p \in DOMAIN posts : /\ posts[p].result = "failure"
                                     /\ posts[p].msg = m \/ ~kind[posts[p].msg].reliable
      BY <1>1, <2>1 DEF FailureMeansGaveUp, Told
    <3> QED
      BY <1>2, <1>4, <2>0, <3>1
  <2>2. CASE FALSE \notin Told(m)
    <3>1. reports'[m] # reports[m]
      BY <1>8, <2>2 DEF Told
    <3>2. m = sending /\ (reports'[m] = <<TRUE>> \/ reports'[m] = <<FALSE>>)
      BY <1>5, <2>0, <3>1
    <3>3. reports'[m] # <<TRUE>>
      <4>1. PICK i \in DOMAIN reports'[m] : reports'[m][i] = FALSE
        BY <1>8 DEF Told
      <4>2. \A j \in DOMAIN <<TRUE>> : <<TRUE>>[j] = TRUE
        BY OneElement
      <4> QED
        BY <4>1, <4>2
    <3>4. \/ retry'[m] = 0
          \/ \E p \in DOMAIN posts : /\ posts'[p].result = "failure"
                                     /\ posts[p].msg = m \/ ~kind[posts[p].msg].reliable
      BY <1>5, <2>0, <3>1, <3>2, <3>3
    <3> QED
      BY <1>2, <3>4
  <2> QED
    BY <2>1, <2>2
<1> QED
  BY <1>3, <1>6, <1>7, <1>8 DEF ReportsInv, SuccessMeansAnswered, FailureMeansGaveUp, Told

-----------------------------------------------------------------------------
(* Posting *)

\* What a step leaves alone stays true: receptions of other messages.
LEMMA Untouched ==
  ASSUME RelInv, UNCHANGED <<kind, retry, slots, timers, pc, msg, history>>,
         receiving' \in BOOLEAN, receptions' \in 0 .. MaxReceptions
  PROVE  RelInv'
<1>1. UNCHANGED <<kind, retry, relBusy, sending, responses, segBusy, sent, timers, pc, msg, status,
                  reports, heard, posts, acked>>
  BY DEF slots, history
<1>2. Typed'
  BY <1>1 DEF RelInv, Typed
<1>3. Numbered' /\ PostingOK' /\ SlotOK' /\ TimersOK' /\ SegmentsOK' /\ HeardOK'
  BY <1>1 DEF RelInv, Numbered, PostingOK, SlotOK, TimersOK, SegmentsOK, HeardOK, Posting, Retrying,
              At, Posted, Waiting
<1>4. ReportsInv'
  BY <1>1, ToldTheSame
<1> QED
  BY <1>2, <1>3, <1>4 DEF RelInv, ReportsInv

\* sendMeshMessage.
LEMMA SendInv ==
  ASSUME RelInv, NEW t \in Threads, Send(t)
  PROVE  RelInv'
<1>1. /\ Typed /\ Numbered /\ PostingOK /\ SlotOK /\ TimersOK /\ SegmentsOK /\ HeardOK
      /\ Once /\ SuccessMeansAnswered /\ SegmentSuccessMeansReceived /\ FailureMeansGaveUp
  BY DEF RelInv
<1>2. PICK k \in Kinds : kind' = Append(kind, k)
  BY DEF Send
<1>3. /\ pc[t] = "idle" /\ pc'[t] = "check" /\ pc' \in [Threads -> Labels]
      /\ \A u \in Threads \ {t} : pc'[u] = pc[u]
      /\ msg' = [msg EXCEPT ![t] = Len(kind) + 1] /\ Handler \in Threads
      /\ UNCHANGED <<retry, relBusy, sending, responses, segBusy, sent, timers, receiving, status,
                     reports, heard, posts, acked, receptions>>
  BY <1>1, Goes DEF Send, Idle, slots, history, Labels
<1>4. /\ Len(kind) \in Nat /\ kind' \in Seq(Kinds) /\ Len(kind') = Len(kind) + 1 /\ Len(kind') <= MaxMsgs
      /\ \A m \in 1 .. Len(kind) : kind'[m] = kind[m] /\ m \in Msgs
      /\ Len(kind) + 1 \in Msgs
  <2>1. Len(kind) \in Nat /\ kind \in Seq(Kinds) /\ Len(kind) < MaxMsgs /\ MaxMsgs \in Nat
    BY <1>1, Shape DEF Send, Typed
  <2>2. /\ kind' \in Seq(Kinds) /\ Len(kind') = Len(kind) + 1
        /\ \A m \in 1 .. Len(kind) : kind'[m] = kind[m]
    BY <1>2, <2>1, AppendProperties
  <2> QED
    BY <2>1, <2>2 DEF Msgs
<1>5. \A m \in Msgs : reports[m] # <<>> => m \in 1 .. Len(kind) /\ kind'[m] = kind[m]
  BY <1>1, <1>4 DEF Numbered, Msgs
<1>6. \A p \in DOMAIN posts : posts[p].msg \in 1 .. Len(kind) /\ kind'[posts[p].msg] = kind[posts[p].msg]
  BY <1>1, <1>4, Shape DEF Numbered, Post, Msgs
<1>7. Typed'
  <2>1. msg' \in [Threads -> 0 .. Len(kind')] /\ sending' \in 0 .. Len(kind')
    BY <1>1, <1>3, <1>4 DEF Typed
  <2> QED
    BY <1>1, <1>3, <1>4, <2>1 DEF Typed, Labels
<1>8. Numbered'
  BY <1>1, <1>3, <1>4, <1>5, <1>6 DEF Numbered, Msgs
<1>9. msg'[t] = Len(kind) + 1 /\ status[Len(kind) + 1] = "new" /\ \A u \in Threads \ {t} : msg'[u] = msg[u]
  <2>1. msg'[t] = Len(kind) + 1 /\ \A u \in Threads \ {t} : msg'[u] = msg[u]
    BY <1>1, <1>3 DEF Typed
  <2>2. status[Len(kind) + 1] = "new"
    BY <1>1, <1>4 DEF Numbered
  <2> QED
    BY <2>1, <2>2
<1>15. \A u \in Threads : Posting(u) => msg[u] \in 1 .. Len(kind) /\ kind'[msg[u]] = kind[msg[u]]
  <2>1. \A u \in Threads : msg[u] \in 0 .. Len(kind) /\ (Posting(u) => msg[u] # 0)
    BY <1>1 DEF Typed, PostingOK
  <2> QED
    BY <1>4, <2>1
<1>16. PostingOK' /\ (Retrying' <=> Retrying)
  <2>1. /\ Posting(t)' /\ ~Posting(t) /\ \A u \in Threads \ {t} : Posting(u)' <=> Posting(u)
        /\ pc'[t] \notin Tasks
    BY <1>3 DEF Posting, Tasks
  <2>2. \A u \in Threads \ {t} : Posting(u) => msg'[u] # msg'[t] /\ msg'[u] = msg[u] /\ kind'[msg[u]] = kind[msg[u]]
    BY <1>4, <1>9, <1>15
  <2>3. Len(kind) + 1 # 0
    BY <1>4
  <2>4. Retrying' <=> Retrying
    BY <1>3, <1>9, <2>1 DEF Retrying, Posted
  <2> QED
    BY <1>1, <1>3, <1>9, <2>1, <2>2, <2>3, <2>4 DEF PostingOK
<1>17. At' # At => At = "idle" /\ At' = "check"
  BY <1>3 DEF At
<1>10. SlotOK'
  <2>1. sending # 0 => sending \in 1 .. Len(kind)
    BY <1>1, Shape
  <2>4. ASSUME NEW m \in 1 .. Len(kind'), Waiting(m)' PROVE m \in 1 .. Len(kind) /\ Waiting(m)
    BY <1>3, <1>4, <1>9, <2>4 DEF Waiting
  <2> QED
    BY <1>1, <1>3, <1>4, <1>16, <2>1, <2>4 DEF SlotOK
<1>11. TimersOK'
  BY <1>1, <1>3, <1>17 DEF TimersOK, Tasks, SegmentTasks, RelTask
<1>12. SegmentsOK'
  <2>1. sent # 0 => sent \in DOMAIN posts
    BY <1>1, Shape
  <2> QED
    BY <1>1, <1>3, <1>6, <1>17, <2>1 DEF SegmentsOK, RelTask
<1>13. HeardOK'
  BY <1>1, <1>3, <1>16 DEF HeardOK
<1>14. Once' /\ SuccessMeansAnswered' /\ SegmentSuccessMeansReceived' /\ FailureMeansGaveUp'
  <2>1. \A m \in 1 .. Len(kind') : m \in Msgs
    BY <1>4 DEF Msgs
  <2>2. \A m \in 1 .. Len(kind') : reports[m] # <<>> => m \in 1 .. Len(kind) /\ kind'[m] = kind[m]
    BY <1>5, <2>1
  <2>3. Once' /\ SegmentSuccessMeansReceived'
    BY <1>1, <1>3, <1>6 DEF Once, SegmentSuccessMeansReceived
  <2>4. \A m \in 1 .. Len(kind'), b \in BOOLEAN :
          b \in {reports[m][i] : i \in DOMAIN reports[m]} => m \in 1 .. Len(kind) /\ kind'[m] = kind[m]
    BY <2>2
  <2>5. SuccessMeansAnswered'
    BY <1>1, <1>3, <2>4 DEF SuccessMeansAnswered
  <2>6. FailureMeansGaveUp'
    <3> SUFFICES ASSUME NEW m \in 1 .. Len(kind'), FALSE \in {reports'[m][i] : i \in DOMAIN reports'[m]}
                 PROVE  \/ retry'[m] = 0
                        \/ \E p \in DOMAIN posts' :
                             /\ posts'[p].result = "failure"
                             /\ posts'[p].msg = m \/ ~kind'[posts'[p].msg].reliable
      BY DEF FailureMeansGaveUp
    <3>1. m \in 1 .. Len(kind)
      BY <1>3, <2>4
    <3>2. \/ retry[m] = 0
          \/ \E p \in DOMAIN posts : /\ posts[p].result = "failure"
                                     /\ posts[p].msg = m \/ ~kind[posts[p].msg].reliable
      BY <1>1, <1>3, <3>1 DEF FailureMeansGaveUp
    <3> QED
      BY <1>3, <1>6, <3>2
  <2> QED
    BY <2>3, <2>5, <2>6
<1> QED
  BY <1>7, <1>8, <1>16, <1>10, <1>11, <1>12, <1>13, <1>14 DEF RelInv

\* The message being posted is one of those sent, and new or in its slot.
LEMMA PostedIs ==
  ASSUME Typed, PostingOK, NEW t \in Threads, Posting(t)
  PROVE  msg[t] \in 1 .. Len(kind) /\ msg[t] \in Msgs /\ kind[msg[t]] \in Kinds /\ msg[t] # 0
<1>1. msg[t] \in 0 .. Len(kind) /\ msg[t] # 0 /\ Len(kind) \in Nat
  BY Shape DEF Typed, PostingOK
<1>2. msg[t] \in 1 .. Len(kind)
  BY <1>1
<1> QED
  BY <1>1, <1>2, Shape

\* postMeshMessage returns false to sendMeshMessage.
LEMMA RefuseInv ==
  ASSUME RelInv, NEW t \in Threads, Posting(t), status[msg[t]] = "new", Refuse(t),
         UNCHANGED <<kind, retry, slots, timers, receiving, msg, reports, heard, posts, acked, receptions>>
  PROVE  RelInv'
<1>1. /\ Typed /\ Numbered /\ PostingOK /\ SlotOK /\ TimersOK /\ SegmentsOK /\ HeardOK
      /\ Once /\ SuccessMeansAnswered /\ SegmentSuccessMeansReceived /\ FailureMeansGaveUp
  BY DEF RelInv
<1> DEFINE n == msg[t]
<1>2. n \in Msgs /\ n \in 1 .. Len(kind)
  BY <1>1, PostedIs
<1>3. /\ pc'[t] = "idle" /\ pc' \in [Threads -> Labels] /\ \A u \in Threads \ {t} : pc'[u] = pc[u]
      /\ Handler \in Threads
      /\ UNCHANGED <<kind, retry, relBusy, sending, responses, segBusy, sent, timers, receiving, msg,
                     reports, heard, posts, acked, receptions>>
  BY <1>1, Goes DEF Refuse, slots, Labels
<1>4. /\ status' \in [Msgs -> {"new", "refused", "accepted", "cleared"}]
      /\ status'[n] = "refused" /\ \A m \in Msgs \ {n} : status'[m] = status[m]
  BY <1>1, <1>2, <1>3 DEF Refuse, Typed
<1>5. \A m \in Msgs : (status'[m] = "accepted") <=> (status[m] = "accepted")
  BY <1>2, <1>4
<1>6. PostingOK' /\ (Retrying' <=> Retrying)
  <2>1. ~Posting(t)' /\ \A u \in Threads \ {t} : Posting(u)' <=> Posting(u)
    BY <1>3 DEF Posting
  <2>2. \A u \in Threads \ {t} : Posting(u) => msg[u] \in Msgs /\ msg[u] # n
    BY <1>1, <1>2, PostedIs DEF PostingOK
  <2>3. \A u \in Threads \ {t} : Posting(u) => status'[msg[u]] = status[msg[u]]
    BY <1>4, <2>2
  <2>4. pc'[t] \notin Tasks
    BY <1>3 DEF Tasks
  <2>5. Retrying' <=> Retrying
    BY <1>3, <2>1, <2>3 DEF Retrying, Posted
  <2> HIDE DEF n
  <2> QED
    BY <1>1, <1>3, <2>1, <2>3, <2>4, <2>5 DEF PostingOK
<1> HIDE DEF n
<1>7. Typed'
  BY <1>1, <1>3, <1>4 DEF Typed, Labels
<1>8. Numbered'
  BY <1>1, <1>2, <1>3, <1>4, <1>5, Shape DEF Numbered
<1>9. SlotOK'
  <2>1. relBusy => sending \in Msgs
    BY <1>1, Shape DEF SlotOK
  <2>2. \A m \in 1 .. Len(kind) : m \in Msgs /\ (Waiting(m)' <=> Waiting(m))
    BY <1>1, <1>3, <1>5, Shape DEF Waiting
  <2>3. relBusy' => /\ sending' # 0 /\ kind'[sending'].reliable
                    /\ status'[sending'] = "accepted" /\ reports'[sending'] = <<>>
    BY <1>1, <1>3, <1>5, <2>1 DEF SlotOK
  <2>4. \A m \in 1 .. Len(kind') : Waiting(m)' => sending' = m /\ (relBusy' \/ Retrying')
    BY <1>1, <1>3, <1>6, <2>2 DEF SlotOK
  <2> QED
    BY <2>3, <2>4 DEF SlotOK
<1>10. TimersOK' /\ SegmentsOK'
  <2>1. At' # At => /\ At' # RelTask /\ At # RelTask
                    /\ \A task \in SegmentTasks : At' # task /\ At # task
    BY <1>3 DEF At, Posting, RelTask, SegmentTasks, Tasks
  <2> QED
    BY <1>1, <1>3, <2>1 DEF TimersOK, SegmentsOK
<1>11. HeardOK'
  BY <1>1, <1>3, <1>6 DEF HeardOK
<1>12. ReportsInv'
  BY <1>3, ToldTheSame
<1> QED
  BY <1>6, <1>7, <1>8, <1>9, <1>10, <1>11, <1>12 DEF RelInv, ReportsInv

\* The first critical section of postMeshMessage.
LEMMA CheckInv ==
  ASSUME RelInv, NEW t \in Threads, CheckSegmentedBusy(t)
  PROVE  RelInv'
<1>1. /\ Typed /\ Numbered /\ PostingOK /\ SlotOK /\ TimersOK /\ SegmentsOK /\ HeardOK
      /\ Once /\ SuccessMeansAnswered /\ SegmentSuccessMeansReceived /\ FailureMeansGaveUp
  BY DEF RelInv
<1>2. pc[t] = "check" /\ Posting(t)
  BY DEF CheckSegmentedBusy, Posting
<1>4. CASE kind[msg[t]].segmented /\ segBusy
  <2>1. status[msg[t]] = "new"
    BY <1>1, <1>2, <1>4 DEF PostingOK
  <2>2. /\ Refuse(t)
        /\ UNCHANGED <<kind, retry, slots, timers, receiving, msg, reports, heard, posts, acked, receptions>>
    BY <1>4 DEF CheckSegmentedBusy
  <2> QED
    BY <1>2, <2>1, <2>2, RefuseInv
<1>5. CASE ~(kind[msg[t]].segmented /\ segBusy)
  <2>1. /\ pc'[t] = "post" /\ pc' \in [Threads -> Labels] /\ \A u \in Threads \ {t} : pc'[u] = pc[u]
        /\ Handler \in Threads
        /\ UNCHANGED <<kind, retry, relBusy, sending, responses, segBusy, sent, timers, receiving, msg,
                       status, reports, heard, posts, acked, receptions>>
    BY <1>1, <1>5, Goes DEF CheckSegmentedBusy, slots, Labels
  <2>2. Typed'
    BY <1>1, <2>1 DEF Typed, Labels
  <2>3. /\ \A u \in Threads : Posting(u)' <=> Posting(u)
        /\ Retrying' <=> Retrying
        /\ pc'[t] \notin Tasks
    BY <1>2, <2>1 DEF Posted, Posting, Retrying, Tasks
  <2>4. PostingOK'
    BY <1>1, <1>2, <1>5, <2>1, <2>3 DEF PostingOK
  <2>5. Numbered' /\ HeardOK'
    BY <1>1, <2>1, <2>3 DEF Numbered, HeardOK
  <2>6. At' # At => /\ At' # RelTask /\ At # RelTask
                    /\ \A task \in SegmentTasks : At' # task /\ At # task
    BY <1>2, <2>1 DEF At, RelTask, SegmentTasks, Tasks
  <2>7. SlotOK' /\ TimersOK' /\ SegmentsOK'
    BY <1>1, <2>1, <2>3, <2>6 DEF SlotOK, TimersOK, SegmentsOK, Waiting
  <2>8. ReportsInv'
    BY <2>1, ToldTheSame
  <2> QED
    BY <2>2, <2>4, <2>5, <2>7, <2>8 DEF RelInv, ReportsInv
<1> QED
  BY <1>4, <1>5

\* What was reported of the segments before a post stays true after it.
LEMMA PostedAnew ==
  ASSUME RelInv, NEW m \in Msgs, UNCHANGED <<kind, retry, reports, heard, acked>>,
         posts' = Append(posts, [msg |-> m, result |-> "none"])
  PROVE  /\ ReportsInv'
         /\ posts' \in Seq(Post) /\ Len(posts') = Len(posts) + 1
         /\ DOMAIN posts \subseteq DOMAIN posts' /\ \A p \in DOMAIN posts : posts'[p] = posts[p]
         /\ \A p \in DOMAIN posts' : p \in DOMAIN posts \/ p = Len(posts) + 1
         /\ posts'[Len(posts) + 1] = [msg |-> m, result |-> "none"]
<1> DEFINE e == [msg |-> m, result |-> "none"]
<1>1. /\ Once /\ SuccessMeansAnswered /\ SegmentSuccessMeansReceived /\ FailureMeansGaveUp /\ Typed
  BY DEF RelInv
<1>2. e \in Post /\ e.result = "none" /\ posts' = Append(posts, e) /\ posts \in Seq(Post)
  BY <1>1, Shape DEF Post
<1> HIDE DEF e
<1>3. /\ posts' \in Seq(Post) /\ Len(posts') = Len(posts) + 1 /\ posts'[Len(posts) + 1] = e
      /\ \A p \in 1 .. Len(posts) : posts'[p] = posts[p]
      /\ Len(posts) \in Nat /\ DOMAIN posts = 1 .. Len(posts)
  BY <1>1, <1>2, AppendProperties, Shape
<1>4. DOMAIN posts' = 1 .. Len(posts')
  BY <1>3, LenProperties
<1>5. /\ DOMAIN posts \subseteq DOMAIN posts' /\ \A p \in DOMAIN posts : posts'[p] = posts[p]
      /\ \A p \in DOMAIN posts' : p \in DOMAIN posts \/ p = Len(posts) + 1
  BY <1>3, <1>4
<1>6. SegmentSuccessMeansReceived'
  BY <1>1, <1>2, <1>3, <1>5 DEF SegmentSuccessMeansReceived
<1>7. FailureMeansGaveUp'
  <2> SUFFICES ASSUME NEW n \in 1 .. Len(kind'), FALSE \in {reports'[n][i] : i \in DOMAIN reports'[n]}
               PROVE  \/ retry'[n] = 0
                      \/ \E p \in DOMAIN posts' :
                           /\ posts'[p].result = "failure"
                           /\ posts'[p].msg = n \/ ~kind'[posts'[p].msg].reliable
    BY DEF FailureMeansGaveUp
  <2>0. n \in 1 .. Len(kind) /\ FALSE \in {reports[n][i] : i \in DOMAIN reports[n]}
    OBVIOUS
  <2>1. \/ retry[n] = 0
        \/ \E p \in DOMAIN posts : /\ posts[p].result = "failure"
                                   /\ posts[p].msg = n \/ ~kind[posts[p].msg].reliable
    BY <1>1, <2>0 DEF FailureMeansGaveUp
  <2> QED
    BY <1>5, <2>1
<1>8. Once' /\ SuccessMeansAnswered'
  BY <1>1 DEF Once, SuccessMeansAnswered
<1> QED
  BY <1>3, <1>5, <1>6, <1>7, <1>8 DEF ReportsInv, e

\* The second critical section: the slots are taken.
LEMMA PostInv ==
  ASSUME RelInv, NEW t \in Threads, PostMeshMessage(t), Watch(t), ~raced'
  PROVE  RelInv'
<1>1. /\ Typed /\ Numbered /\ PostingOK /\ SlotOK /\ TimersOK /\ SegmentsOK /\ HeardOK
      /\ Once /\ SuccessMeansAnswered /\ SegmentSuccessMeansReceived /\ FailureMeansGaveUp
  BY DEF RelInv
<1>2. pc[t] = "post" /\ Posting(t)
  BY DEF PostMeshMessage, Posting
<1> DEFINE m == msg[t]
<1>3. m \in Msgs /\ m \in 1 .. Len(kind) /\ kind[m] \in Kinds
  BY <1>1, <1>2, PostedIs
<1> DEFINE k == kind[m]
           segs == k.segmented /\ Unicast(k)
<1>4. CASE k.reliable /\ relBusy
  <2>1. status[m] = "new"
    BY <1>1, <1>2, <1>4 DEF PostingOK
  <2>2. /\ Refuse(t)
        /\ UNCHANGED <<kind, retry, slots, timers, receiving, msg, reports, heard, posts, acked, receptions>>
    BY <1>3, <1>4 DEF PostMeshMessage, slots
  <2> QED
    BY <1>2, <2>1, <2>2, RefuseInv
<1>5. CASE ~(k.reliable /\ relBusy)
  <2>1. /\ relBusy' = (relBusy \/ k.reliable)
        /\ sending' = IF k.reliable THEN m ELSE sending
        /\ segs => /\ segBusy' = TRUE /\ sent' = Len(posts) + 1 /\ timers' = timers \cup SegmentTasks
                   /\ posts' = Append(posts, [msg |-> m, result |-> "none"])
        /\ ~segs => /\ UNCHANGED <<segBusy, sent, posts>>
                    /\ timers' = IF k.reliable THEN timers \cup {RelTask} ELSE timers
        /\ pc'[t] = "idle" /\ pc' \in [Threads -> Labels] /\ \A u \in Threads \ {t} : pc'[u] = pc[u]
        /\ Handler \in Threads
        /\ UNCHANGED <<kind, retry, responses, receiving, msg, reports, heard, acked, receptions>>
    BY <1>1, <1>3, <1>5, Goes DEF PostMeshMessage, Labels, RelTask
  <2>2. /\ status' \in [Msgs -> {"new", "refused", "accepted", "cleared"}]
        /\ status'[m] = "accepted" /\ \A n \in Msgs \ {m} : status'[n] = status[n]
    BY <1>1, <1>2, <1>3, <1>5 DEF PostMeshMessage, Typed, PostingOK
  <2>3. /\ segs => ~segBusy /\ sent = 0
        /\ k.reliable => ~relBusy
        /\ reports[m] = <<>>
        /\ status[m] # "new" => t = Handler /\ k.reliable /\ m = sending
        /\ k.reliable \in BOOLEAN /\ k.segmented \in BOOLEAN
    <3>1. k.reliable \in BOOLEAN /\ k.segmented \in BOOLEAN
      BY <1>3, ReliableMessageAssumption
    <3> QED
      BY <1>1, <1>2, <1>3, <1>5, <3>1 DEF PostingOK, TimersOK, Numbered
  <2>4. segs => /\ ReportsInv'
                /\ posts' \in Seq(Post) /\ Len(posts') = Len(posts) + 1
                /\ DOMAIN posts \subseteq DOMAIN posts' /\ \A p \in DOMAIN posts : posts'[p] = posts[p]
                /\ \A p \in DOMAIN posts' : p \in DOMAIN posts \/ p = Len(posts) + 1
                /\ posts'[Len(posts) + 1] = [msg |-> m, result |-> "none"]
    BY <1>3, <2>1, PostedAnew
  <2>20. k.reliable \/ segs => slots' # slots
    BY <1>1, <2>1, <2>3 DEF slots, Typed
  <2>21. k.reliable \/ segs =>
           /\ \A u \in Threads \ {t} : /\ pc[u] \in {"idle", "check"}
                                       /\ pc[u] = "check" => status[msg[u]] = "new"
           /\ t # Handler => ~Retrying /\ At # "post" /\ \A task \in Tasks : At # task
    BY <1>1, <2>20, Undisturbed
  <2>22. /\ k.reliable \/ segs => ~Retrying' /\ \A task \in Tasks : At' # task /\ At # task
         /\ ~(k.reliable \/ segs) => (Retrying' <=> Retrying)
         /\ At' # At => \A task \in Tasks : At' # task /\ At # task
    <3>1. "idle" \notin Tasks /\ "post" \notin Tasks
      BY DEF Tasks
    <3>2. CASE t = Handler
      <4>1. At = "post" /\ At' = "idle" /\ m = Posted /\ ~Posting(Handler)'
        BY <1>2, <2>1, <3>2 DEF At, Posted, Posting
      <4>2. ~(k.reliable \/ segs) => status[m] = "new"
        BY <2>3
      <4>3. ~Retrying' /\ (~(k.reliable \/ segs) => ~Retrying)
        BY <4>1, <4>2 DEF Retrying
      <4> QED
        BY <3>1, <4>1, <4>3
    <3>3. CASE t # Handler
      <4>1. At' = At /\ Posted' = Posted /\ (Posting(Handler)' <=> Posting(Handler))
        BY <2>1, <3>3 DEF At, Posted, Posting
      <4>2. Posting(Handler) => Posted \in Msgs /\ Posted # m
        BY <1>1, <1>2, <2>1, <3>3, PostedIs DEF PostingOK, Posted
      <4>3. Retrying' <=> Retrying
        BY <2>2, <4>1, <4>2 DEF Retrying
      <4> QED
        BY <2>21, <3>3, <4>1, <4>3
    <3> QED
      BY <3>2, <3>3
  <2>23. PostingOK'
    <3>1. ~Posting(t)' /\ pc'[t] \notin Tasks /\ \A u \in Threads \ {t} : Posting(u)' <=> Posting(u)
      BY <2>1 DEF Posting, Tasks
    <3>2. \A u \in Threads \ {t} : Posting(u) => msg[u] \in Msgs /\ msg[u] # m
      BY <1>1, <1>2, PostedIs DEF PostingOK
    <3>3. \A u \in Threads \ {t} : Posting(u) => status'[msg[u]] = status[msg[u]]
      BY <2>2, <3>2
    <3>4. CASE k.reliable \/ segs
      <4>1. \A u \in Threads \ {t} : pc[u] # "post" /\ (Posting(u) => status[msg[u]] = "new")
        BY <2>21, <3>4 DEF Posting
      <4> HIDE DEF m, k, segs
      <4> QED
        BY <1>1, <2>1, <3>1, <3>3, <4>1 DEF PostingOK
    <3>5. CASE ~(k.reliable \/ segs)
      <4>1. UNCHANGED <<relBusy, sending, segBusy>>
        BY <1>1, <2>1, <3>5 DEF Typed
      <4> HIDE DEF m, k, segs
      <4> QED
        BY <1>1, <2>1, <3>1, <3>3, <4>1 DEF PostingOK
    <3> QED
      BY <3>4, <3>5
  <2> HIDE DEF m, k, segs
  <2>5. Typed'
    <3>1. sending' \in 0 .. Len(kind')
      BY <1>1, <1>3, <2>1 DEF Typed, m
    <3>2. posts' \in Seq(Post) /\ sent' \in {0, Len(posts')} /\ segBusy' \in BOOLEAN
      BY <1>1, <2>1, <2>4 DEF Typed, Post
    <3>3. acked' \subseteq DOMAIN posts'
      BY <1>1, <2>1, <2>4 DEF Typed
    <3>4. timers' \subseteq Tasks /\ relBusy' \in BOOLEAN
      BY <1>1, <2>1, <2>3 DEF Typed, Tasks, SegmentTasks, RelTask
    <3> QED
      BY <1>1, <2>1, <2>2, <3>1, <3>2, <3>3, <3>4 DEF Typed, Labels, Post
  <2>6. Numbered'
    <3>1. Len(kind) \in Nat /\ m <= Len(kind) /\ m \in Msgs
      BY <1>1, <1>3, Shape DEF m
    <3>2. \A p \in DOMAIN posts' : posts'[p].msg <= Len(kind)
      BY <1>1, <2>1, <2>4, <3>1 DEF Numbered
    <3>3. \A n \in Msgs : n > Len(kind) => n # m
      BY <3>1 DEF Msgs
    <3> QED
      BY <1>1, <2>1, <2>2, <3>1, <3>2, <3>3 DEF Numbered
  <2>7. SlotOK'
    <3>1. m \in Msgs /\ (relBusy => sending \in Msgs)
      BY <1>1, <1>3, Shape DEF m, SlotOK
    <3>2. relBusy' => /\ sending' # 0 /\ kind'[sending'].reliable
                      /\ status'[sending'] = "accepted" /\ reports'[sending'] = <<>>
      <4>1. m # 0
        BY <1>3 DEF m
      <4> QED
        BY <1>1, <2>1, <2>2, <2>3, <3>1, <4>1 DEF SlotOK, k
    <3>3. ASSUME NEW n \in 1 .. Len(kind'), Waiting(n)' PROVE sending' = n /\ (relBusy' \/ Retrying')
      <4>0. n \in 1 .. Len(kind) /\ n \in Msgs
        BY <1>1, <2>1, Shape
      <4>1. CASE n = m
        BY <2>1, <3>3, <4>1 DEF Waiting, k
      <4>2. CASE n # m
        <5>1. Waiting(n)
          BY <2>1, <2>2, <3>3, <4>0, <4>2 DEF Waiting
        <5>2. sending = n /\ (relBusy \/ Retrying)
          BY <1>1, <4>0, <5>1 DEF SlotOK
        <5>3. CASE k.reliable
          <6>1. ~relBusy /\ Retrying
            BY <2>3, <5>2, <5>3
          <6>2. t = Handler
            BY <2>21, <5>3, <6>1
          <6>3. status[m] = "accepted"
            BY <6>1, <6>2 DEF Retrying, Posted, m
          <6>4. m = sending
            BY <2>3, <6>3
          <6> QED
            BY <4>2, <5>2, <6>4
        <5>4. CASE ~k.reliable /\ relBusy
          BY <2>1, <5>2, <5>4
        <5>5. CASE ~k.reliable /\ ~relBusy
          <6>1. Retrying /\ sending = n
            BY <5>2, <5>5
          <6>2. ~segs
            <7>1. CASE t # Handler
              BY <2>21, <6>1, <7>1
            <7>2. CASE t = Handler
              BY <2>3, <5>5, <6>1, <7>2 DEF Retrying, Posted, m
            <7> QED
              BY <7>1, <7>2
          <6> QED
            BY <2>1, <2>22, <5>5, <6>1, <6>2
        <5> QED
          BY <5>3, <5>4, <5>5
      <4> QED
        BY <4>1, <4>2
    <3> QED
      BY <3>2, <3>3 DEF SlotOK
  <2>8. TimersOK'
    <3>1. RelTask \in Tasks /\ SegmentTasks \subseteq Tasks /\ RelTask \notin SegmentTasks
      BY DEF RelTask, SegmentTasks, Tasks
    <3>2. Len(posts) + 1 # 0
      BY <1>1, Shape
    <3>3. CASE k.reliable \/ segs
      <4>0. \A task \in Tasks : At' # task /\ At # task
        BY <2>22, <3>3
      <4>1. CASE segs
        <5>1. /\ segBusy' /\ sent' # 0 /\ timers' = timers \cup SegmentTasks
              /\ relBusy' = (relBusy \/ k.reliable)
          BY <2>1, <3>2, <4>1
        <5>2. RelTask \in timers' => relBusy'
          BY <1>1, <3>1, <4>0, <5>1 DEF TimersOK
        <5> QED
          BY <3>1, <4>0, <5>1, <5>2 DEF TimersOK
      <4>2. CASE ~segs
        <5>1. /\ UNCHANGED <<segBusy, sent>> /\ relBusy' = (relBusy \/ k.reliable)
              /\ timers' = timers \cup {RelTask} /\ relBusy'
          BY <2>1, <3>3, <4>2
        <5>2. \A task \in SegmentTasks : task \in timers' <=> task \in timers
          BY <3>1, <5>1
        <5>3. /\ segBusy => \A task \in SegmentTasks : task \in timers
              /\ \A task \in SegmentTasks : task \in timers => segBusy
              /\ segBusy <=> sent # 0
          BY <1>1, <3>1, <4>0 DEF TimersOK
        <5> QED
          BY <3>1, <4>0, <5>1, <5>2, <5>3 DEF TimersOK
      <4> QED
        BY <4>1, <4>2
    <3>4. CASE ~(k.reliable \/ segs)
      <4>1. UNCHANGED <<segBusy, sent, timers, relBusy>>
        BY <1>1, <2>1, <3>4 DEF Typed
      <4> QED
        BY <1>1, <2>22, <3>1, <4>1 DEF TimersOK
    <3> QED
      BY <3>3, <3>4
  <2>9. SegmentsOK'
    <3>1. RelTask \notin SegmentTasks /\ RelTask \in Tasks
      BY DEF RelTask, SegmentTasks, Tasks
    <3>2. CASE segs
      <4>1. k.reliable => RelTask \notin timers
        BY <1>1, <2>3 DEF TimersOK
      <4>2. posts'[sent'].msg = m /\ posts'[sent'].result = "none"
        BY <2>1, <2>4, <3>2
      <4>3. At' # RelTask
        BY <2>22, <3>1, <3>2
      <4> QED
        BY <2>1, <3>1, <3>2, <4>1, <4>2, <4>3 DEF SegmentsOK, k, segs
    <3>3. CASE ~segs
      <4>1. UNCHANGED <<sent, posts>> /\ (~k.reliable => UNCHANGED <<relBusy, sending, timers>>)
        BY <1>1, <2>1, <3>3 DEF Typed
      <4>2. k.reliable => ~relBusy
        BY <2>3
      <4>3. At' # At => At' # RelTask
        BY <2>22, <3>1
      <4> QED
        BY <1>1, <2>1, <4>1, <4>2, <4>3 DEF SegmentsOK
    <3> QED
      BY <3>2, <3>3
  <2>10. HeardOK'
    <3>1. CASE k.reliable
      <4>1. relBusy' /\ sending' = m /\ responses' = responses /\ heard' = heard
        BY <2>1, <3>1
      <4>2. ~relBusy /\ (Retrying => m = sending)
        <5>1. Retrying => t = Handler
          BY <2>21, <3>1
        <5>2. Retrying => status[m] # "new"
          BY <5>1 DEF Retrying, Posted, m
        <5> QED
          BY <2>3, <3>1, <5>2
      <4> QED
        BY <1>1, <4>1, <4>2 DEF HeardOK
    <3>2. CASE ~k.reliable
      <4>1. UNCHANGED <<relBusy, sending, responses, heard>>
        BY <1>1, <2>1, <3>2 DEF Typed
      <4>2. Retrying' <=> Retrying
        <5>1. CASE segs
          <6>1. ~Retrying'
            BY <2>22, <5>1
          <6>2. Retrying => t = Handler
            BY <2>21, <5>1
          <6>3. Retrying => status[m] # "new"
            BY <6>2 DEF Retrying, Posted, m
          <6> QED
            BY <2>3, <3>2, <6>1, <6>3
        <5>2. CASE ~segs
          BY <2>22, <3>2, <5>2
        <5> QED
          BY <5>1, <5>2
      <4> QED
        BY <1>1, <4>1, <4>2 DEF HeardOK
    <3> QED
      BY <3>1, <3>2
  <2>11. ReportsInv'
    BY <2>1, <2>4, ToldTheSame
  <2> QED
    BY <2>5, <2>6, <2>7, <2>8, <2>9, <2>10, <2>11, <2>23 DEF RelInv, ReportsInv
<1> QED
  BY <1>4, <1>5
-----------------------------------------------------------------------------
(* Completion *)

\* Outside of a post: the message in the slot stays there, or the application is told of
\* it and the slot is free; the segments under way stay, or they end.  What remains of
\* the invariant is up to the timers.
LEMMA Completion ==
  ASSUME RelInv, pc' \in [Threads -> Labels],
         \A u \in Threads : pc'[u] = pc[u] \/ (u = Handler /\ ~Posting(u)'),
         Retrying' <=> Retrying, Retrying => UNCHANGED <<relBusy, responses, reports>>,
         UNCHANGED <<kind, retry, status, sending, msg>>,
         receiving' \in BOOLEAN, receptions' \in 0 .. MaxReceptions, timers' \subseteq Tasks,
         acked \subseteq acked', acked' \subseteq DOMAIN posts,
         heard' \in [Msgs -> SUBSET Nodes],
         \A m \in Msgs : IsFiniteSet(heard'[m]) /\ heard[m] \subseteq heard'[m],
         \/ UNCHANGED <<segBusy, sent, posts>>
         \/ SegmentsOver,
         \/ /\ UNCHANGED <<relBusy, reports>> /\ responses' \subseteq Nodes
            /\ IF relBusy \/ Retrying THEN responses' \subseteq heard'[sending] ELSE responses' = {}
         \/ relBusy /\ relBusy' = FALSE /\ responses' = {} /\ Tells,
         TimersOK', SegmentsOK'
  PROVE  RelInv'
<1>1. /\ Typed /\ Numbered /\ PostingOK /\ SlotOK /\ TimersOK /\ SegmentsOK /\ HeardOK
  BY DEF RelInv
<1>2. TrueSegments /\ TrueReport
  BY DEF TrueSegments, TrueReport
<1>3. ReportsInv'
  BY <1>2, ReportsStayTrue
<1>4. /\ posts' \in Seq(Post) /\ DOMAIN posts' = DOMAIN posts
      /\ \A p \in DOMAIN posts : posts'[p].msg = posts[p].msg
      /\ segBusy' \in BOOLEAN /\ sent' \in {0, Len(posts')}
  <2>1. CASE UNCHANGED <<segBusy, sent, posts>>
    BY <1>1, <2>1, Shape DEF Typed
  <2>2. CASE SegmentsOver
    BY <1>1, <2>2, SegmentsEnd DEF SegmentsOver
  <2> QED
    BY <2>1, <2>2
<1>5. relBusy => /\ sending # 0 /\ sending \in Msgs /\ kind[sending].reliable
                 /\ status[sending] = "accepted" /\ reports[sending] = <<>>
  BY <1>1, Shape DEF SlotOK
<1>6. /\ relBusy' \in BOOLEAN /\ reports' \in [Msgs -> Seq(BOOLEAN)]
      /\ responses' \subseteq Nodes
      /\ \/ UNCHANGED <<relBusy, reports>>
         \/ /\ relBusy /\ ~relBusy' /\ reports'[sending] # <<>>
            /\ \A m \in Msgs \ {sending} : reports'[m] = reports[m]
  <2>1. CASE UNCHANGED <<relBusy, reports>> /\ responses' \subseteq Nodes
    BY <1>1, <2>1 DEF Typed
  <2>2. CASE relBusy /\ relBusy' = FALSE /\ responses' = {} /\ Tells
    <3>1. PICK b \in BOOLEAN : reports' = [reports EXCEPT ![sending] = Append(@, b)]
      BY <2>2 DEF Tells
    <3>2. /\ reports' \in [Msgs -> Seq(BOOLEAN)] /\ reports'[sending] = <<b>>
          /\ \A n \in Msgs \ {sending} : reports'[n] = reports[n]
      BY <1>1, <1>5, <2>2, <3>1, Reported
    <3>3. <<b>> # <<>>
      OBVIOUS
    <3> QED
      BY <2>2, <3>2, <3>3
  <2> QED
    BY <2>1, <2>2
<1>7. Typed'
  BY <1>1, <1>4, <1>6 DEF Typed, Labels, Post
<1>8. Numbered'
  BY <1>1, <1>4, <1>5, <1>6 DEF Numbered
<1>9. PostingOK'
  <2>1. segBusy' => segBusy
    BY DEF SegmentsOver, ClearSegmentSendingState
  <2>2. relBusy' => relBusy
    OBVIOUS
  <2>3. \A u \in Threads : Posting(u)' => Posting(u) /\ pc'[u] = pc[u]
    BY DEF Posting
  <2>4. \A u \in Threads \ {Handler} : pc'[u] = pc[u]
    OBVIOUS
  <2>5. Posting(Handler)' /\ status[msg[Handler]] = "accepted" => Retrying /\ UNCHANGED <<relBusy, reports>>
    <3>1. Posting(Handler)' /\ status[msg[Handler]] = "accepted" => Retrying
      BY <2>3, ReliableMessageAssumption DEF Retrying, Posted
    <3> QED
      BY <3>1
  <2>6. \A u \in Threads : Posting(u) => status[msg[u]] = "new" \/ (u = Handler /\ status[msg[u]] = "accepted")
    BY <1>1 DEF PostingOK
  <2> QED
    BY <1>1, <2>1, <2>3, <2>4, <2>5, <2>6 DEF PostingOK
<1>10. SlotOK'
  <2>1. relBusy' => /\ sending' # 0 /\ kind'[sending'].reliable
                    /\ status'[sending'] = "accepted" /\ reports'[sending'] = <<>>
    BY <1>5, <1>6
  <2>2. ASSUME NEW m \in 1 .. Len(kind'), Waiting(m)' PROVE sending' = m /\ (relBusy' \/ Retrying')
    <3>1. m \in 1 .. Len(kind) /\ m \in Msgs
      BY <1>1, Shape
    <3>2. Waiting(m)
      BY <1>6, <2>2, <3>1 DEF Waiting
    <3>3. sending = m /\ (relBusy \/ Retrying)
      BY <1>1, <3>1, <3>2 DEF SlotOK
    <3> QED
      BY <1>6, <2>2, <3>3 DEF Waiting
  <2> QED
    BY <2>1, <2>2 DEF SlotOK
<1>11. HeardOK'
  BY <1>1, <1>6 DEF HeardOK
<1> QED
  BY <1>3, <1>7, <1>8, <1>9, <1>10, <1>11 DEF RelInv, ReportsInv

\* A block ack: the segments may all be received.
LEMMA AckInv ==
  ASSUME RelInv, NEW t \in Threads, NEW p \in DOMAIN posts, NEW all \in BOOLEAN,
         OnSegmentAckMessageReceived(t, p, all), ~raced'
  PROVE  RelInv'
<1>1. Typed /\ TimersOK /\ SegmentsOK /\ HeardOK /\ SlotOK
  BY DEF RelInv
<1>2. /\ Idle(t) /\ pc' \in [Threads -> Labels] /\ (Retrying' <=> Retrying) /\ At' = At
      /\ \A u \in Threads : pc'[u] = pc[u]
      /\ UNCHANGED <<kind, retry, sending, receiving, pc, msg, status, heard, receptions>>
      /\ acked' = IF all THEN acked \cup {p} ELSE acked
  BY <1>1, Goes DEF OnSegmentAckMessageReceived, At, Retrying, Posting, Posted
<1>3. /\ slots' # slots => ~Retrying /\ \A task \in Tasks : At # task
      /\ RelTask \notin SegmentTasks /\ RelTask \in Tasks /\ SegmentTasks \subseteq Tasks
  <2>1. Idle(Handler) => ~Retrying /\ \A task \in Tasks : At # task
    BY DEF Idle, Retrying, Posting, At, Tasks
  <2>2. slots' # slots /\ t # Handler => ~Retrying /\ \A task \in Tasks : At # task
    BY <1>1, Undisturbed DEF OnSegmentAckMessageReceived
  <2> QED
    BY <1>2, <2>1, <2>2 DEF RelTask, SegmentTasks, Tasks
<1>4. /\ acked \subseteq acked' /\ acked' \subseteq DOMAIN posts /\ heard' \in [Msgs -> SUBSET Nodes]
      /\ \A m \in Msgs : IsFiniteSet(heard'[m]) /\ heard[m] \subseteq heard'[m]
      /\ receiving' \in BOOLEAN /\ receptions' \in 0 .. MaxReceptions
  BY <1>1, <1>2 DEF Typed, HeardOK
<1>5. /\ responses \subseteq Nodes
      /\ IF relBusy \/ Retrying THEN responses \subseteq heard'[sending] ELSE responses = {}
  BY <1>1, <1>2 DEF Typed, HeardOK
<1>6. CASE segBusy /\ sent = p /\ all
  <2>1. ClearSegmentSendingState("success") /\ KeepReliable
        /\ timers' = IF relBusy THEN (timers \ SegmentTasks) \cup {RelTask} ELSE timers \ SegmentTasks
    BY <1>6 DEF OnSegmentAckMessageReceived, OnSegmentedMessageComplete, RelTask
  <2>2. SegmentsOver /\ segBusy' = FALSE /\ sent' = 0
    BY <1>2, <1>6, <2>1 DEF SegmentsOver, ClearSegmentSendingState
  <2>3. timers' \subseteq Tasks
    BY <1>1, <1>3, <2>1 DEF Typed
  <2>5. ~Retrying /\ \A task \in Tasks : At # task
    BY <1>3, <1>6, <2>2 DEF slots
  <2>4. TimersOK' /\ SegmentsOK'
    <3>1. UNCHANGED relBusy /\ \A task \in SegmentTasks : task \notin timers'
      BY <1>3, <2>1 DEF KeepReliable
    <3>2. (relBusy => RelTask \in timers') /\ (RelTask \in timers' => relBusy)
      BY <1>1, <1>3, <2>1, <2>5 DEF TimersOK
    <3> QED
      BY <1>2, <1>3, <2>2, <2>5, <3>1, <3>2 DEF TimersOK, SegmentsOK
  <2> QED
    BY <1>2, <1>4, <1>5, <2>1, <2>2, <2>3, <2>4, <2>5, Completion DEF KeepReliable
<1>7. CASE ~(segBusy /\ sent = p /\ all)
  <2>1. /\ UNCHANGED <<segBusy, sent, posts, relBusy, responses, reports>>
        /\ timers' = IF segBusy /\ sent = p THEN timers \cup {"mSegmentBlockWaitingTask"} ELSE timers
    BY <1>7 DEF OnSegmentAckMessageReceived, KeepSegments, KeepReliable
  <2>2. timers' \subseteq Tasks
    BY <1>1, <2>1 DEF Typed, Tasks
  <2>3. RelTask \in timers' <=> RelTask \in timers
    BY <2>1 DEF RelTask
  <2>4. /\ \A task \in SegmentTasks : task \in timers => task \in timers'
        /\ (\E task \in SegmentTasks : task \in timers') => segBusy
    BY <1>1, <1>3, <2>1 DEF TimersOK
  <2>5. TimersOK' /\ SegmentsOK'
    BY <1>1, <1>2, <1>3, <2>1, <2>3, <2>4 DEF TimersOK, SegmentsOK
  <2> QED
    BY <1>2, <1>4, <1>5, <2>1, <2>2, <2>5, Completion
<1> QED
  BY <1>6, <1>7

\* An answer: it may be the last one waited for.
LEMMA AnswerInv ==
  ASSUME RelInv, NEW t \in Threads, NEW n \in Nodes, UpdateReliableMessage(t, n), ~raced'
  PROVE  RelInv'
<1>1. Typed /\ TimersOK /\ SegmentsOK /\ HeardOK /\ SlotOK /\ PostingOK
  BY DEF RelInv
<1>2. /\ Idle(t) /\ pc' \in [Threads -> Labels] /\ relBusy /\ (Retrying' <=> Retrying) /\ At' = At
      /\ \A u \in Threads : pc'[u] = pc[u]
      /\ UNCHANGED <<kind, retry, sending, receiving, pc, msg, status, acked, receptions>>
      /\ heard' = [heard EXCEPT ![sending] = @ \cup {n}]
  BY <1>1, Goes DEF UpdateReliableMessage, At, Retrying, Posting, Posted
<1>3. /\ ~Retrying /\ RelTask \notin SegmentTasks /\ RelTask \in Tasks /\ SegmentTasks \subseteq Tasks
      /\ slots' # slots => \A task \in Tasks : At # task
  <2>1. ~Retrying
    BY <1>1, <1>2, ReliableMessageAssumption DEF PostingOK, Retrying, Posted
  <2>2. Idle(Handler) => \A task \in Tasks : At # task
    BY DEF Idle, At, Tasks
  <2>3. slots' # slots /\ t # Handler => \A task \in Tasks : At # task
    BY <1>1, Undisturbed DEF UpdateReliableMessage
  <2> QED
    BY <1>2, <2>1, <2>2, <2>3 DEF RelTask, SegmentTasks, Tasks
<1>4. /\ sending \in Msgs /\ sending \in 1 .. Len(kind) /\ reports[sending] = <<>>
      /\ kind[sending].rspMax \in Nat
  <2>1. sending \in Msgs /\ sending \in 1 .. Len(kind) /\ kind[sending] \in Kinds /\ reports[sending] = <<>>
    BY <1>1, <1>2, Shape DEF SlotOK
  <2> QED
    BY <2>1, ReliableMessageAssumption
<1>5. /\ heard' \in [Msgs -> SUBSET Nodes] /\ n \in heard'[sending]
      /\ responses \cup {n} \subseteq heard'[sending] /\ responses \cup {n} \subseteq Nodes
      /\ \A m \in Msgs : IsFiniteSet(heard'[m]) /\ heard[m] \subseteq heard'[m]
  <2>1. heard \in [Msgs -> SUBSET Nodes] /\ responses \subseteq Nodes /\ responses \subseteq heard[sending]
        /\ \A m \in Msgs : IsFiniteSet(heard[m])
    BY <1>1, <1>2 DEF Typed, HeardOK
  <2>2. /\ heard'[sending] = heard[sending] \cup {n}
        /\ \A m \in Msgs \ {sending} : heard'[m] = heard[m]
    BY <1>2, <1>4, <2>1
  <2>3. IsFiniteSet(heard[sending] \cup {n})
    BY <1>4, <2>1, FS_AddElement
  <2>4. \A m \in Msgs : IsFiniteSet(heard'[m]) /\ heard[m] \subseteq heard'[m]
    BY <2>1, <2>2, <2>3
  <2>5. heard' \in [Msgs -> SUBSET Nodes]
    BY <1>2, <1>4, <2>1
  <2> QED
    BY <2>1, <2>2, <2>4, <2>5
<1>6. /\ acked \subseteq acked' /\ acked' \subseteq DOMAIN posts
      /\ receiving' \in BOOLEAN /\ receptions' \in 0 .. MaxReceptions
  BY <1>1, <1>2 DEF Typed
<1>7. CASE Cardinality(responses \cup {n}) >= kind[sending].rspMax
  <2>1. OnReliableMessageComplete(TRUE)
    BY <1>7 DEF UpdateReliableMessage
  <2>2. relBusy' = FALSE /\ responses' = {} /\ reports' = [reports EXCEPT ![sending] = Append(@, TRUE)]
    BY <2>1 DEF OnReliableMessageComplete, ClearReliable
  <2>10. \A task \in Tasks : At # task /\ At' # task
    BY <1>2, <1>3, <2>2 DEF slots
  <2>3. Tells
    <3>1. Cardinality(heard'[sending]) >= kind[sending].rspMax
      <4>1. /\ IsFiniteSet(heard'[sending]) /\ Cardinality(responses \cup {n}) <= Cardinality(heard'[sending])
            /\ Cardinality(responses \cup {n}) \in Nat /\ Cardinality(heard'[sending]) \in Nat
        BY <1>4, <1>5, FS_Subset, FS_CardinalityType
      <4> QED
        BY <1>4, <1>7, <4>1
    <3> QED
      BY <1>4, <2>2, <3>1 DEF Tells
  <2>4. CASE segBusy /\ kind[sending].segmented
    <3>1. ClearSegmentSendingState("success") /\ timers' = {}
      BY <2>1, <2>4 DEF OnReliableMessageComplete
    <3>2. SegmentsOver
      BY <1>1, <1>5, <3>1 DEF SegmentsOver, SegmentsOK
    <3>3. TimersOK' /\ SegmentsOK'
      BY <1>3, <2>2, <2>10, <3>1 DEF TimersOK, SegmentsOK, ClearSegmentSendingState
    <3> QED
      BY <1>2, <1>3, <1>5, <1>6, <2>2, <2>3, <3>1, <3>2, <3>3, Completion
  <2>5. CASE ~(segBusy /\ kind[sending].segmented)
    <3>1. UNCHANGED <<segBusy, sent, posts>> /\ timers' = timers \ {RelTask}
      BY <2>1, <2>5 DEF OnReliableMessageComplete, KeepSegments, RelTask
    <3>2. timers' \subseteq Tasks
      BY <1>1, <3>1 DEF Typed
    <3>3. \A task \in SegmentTasks : task \in timers' <=> task \in timers
      BY <1>3, <3>1
    <3>4. TimersOK'
      BY <1>1, <1>3, <2>2, <2>10, <3>1, <3>3 DEF TimersOK
    <3>5. SegmentsOK'
      <4>1. sent # 0 => ~kind[posts[sent].msg].reliable
        BY <1>1, <2>5 DEF SegmentsOK, TimersOK
      <4> QED
        BY <1>1, <1>2, <3>1, <4>1 DEF SegmentsOK
    <3> QED
      BY <1>2, <1>3, <1>5, <1>6, <2>2, <2>3, <3>1, <3>2, <3>4, <3>5, Completion
  <2> QED
    BY <2>4, <2>5
<1>8. CASE ~(Cardinality(responses \cup {n}) >= kind[sending].rspMax)
  <2>1. /\ responses' = responses \cup {n}
        /\ UNCHANGED <<relBusy, reports, timers, segBusy, sent, posts>>
    BY <1>8 DEF UpdateReliableMessage, KeepSegments
  <2>2. timers' \subseteq Tasks
    BY <1>1, <2>1 DEF Typed
  <2>3. TimersOK' /\ SegmentsOK'
    BY <1>1, <1>2, <1>3, <2>1 DEF TimersOK, SegmentsOK
  <2> QED
    BY <1>2, <1>3, <1>5, <1>6, <2>1, <2>2, <2>3, Completion
<1> QED
  BY <1>7, <1>8

-----------------------------------------------------------------------------
(* Timers *)

\* What holds of the history when nothing was heard and no block ack came.
LEMMA NothingHeard ==
  ASSUME RelInv, UNCHANGED <<heard, acked, receiving, receptions>>
  PROVE  /\ acked \subseteq acked' /\ acked' \subseteq DOMAIN posts /\ heard' \in [Msgs -> SUBSET Nodes]
         /\ \A m \in Msgs : IsFiniteSet(heard'[m]) /\ heard[m] \subseteq heard'[m]
         /\ receiving' \in BOOLEAN /\ receptions' \in 0 .. MaxReceptions
         /\ responses \subseteq Nodes
         /\ ~Posting(Handler) => IF relBusy \/ Retrying THEN responses \subseteq heard'[sending] ELSE responses = {}
BY DEF RelInv, Typed, HeardOK, Retrying

\* A task is run by the handler thread, which posts nothing then.
LEMMA TaskRuns ==
  ASSUME Typed, PostingOK, NEW t \in Threads, pc[t] \in Tasks
  PROVE  t = Handler /\ At = pc[t] /\ ~Posting(Handler) /\ ~Retrying
BY DEF PostingOK, At, Retrying, Posting, Tasks

\* Where the handler thread is between tasks, and when it begins or ends one.
LEMMA HandlerGoes ==
  ASSUME Typed, NEW label \in Labels, Become(Handler, label)
  PROVE  /\ pc' \in [Threads -> Labels] /\ At' = label
         /\ \A u \in Threads \ {Handler} : pc'[u] = pc[u]
         /\ label \notin {"check", "post"} =>
              /\ ~Posting(Handler)' /\ ~Retrying'
              /\ \A u \in Threads : pc'[u] = pc[u] \/ (u = Handler /\ ~Posting(u)')
BY Goes, ReliableMessageAssumption DEF At, Retrying, Posting

\* A task leaves the queue of the looper.
LEMMA DequeueInv ==
  ASSUME RelInv, NEW t \in Threads, NEW task \in Tasks, Dequeue(t, task)
  PROVE  RelInv'
<1>1. Typed /\ TimersOK /\ SegmentsOK
  BY DEF RelInv
<1>2. /\ At = "idle" /\ At' = task /\ pc' \in [Threads -> Labels]
      /\ \A u \in Threads : pc'[u] = pc[u] \/ (u = Handler /\ ~Posting(u)')
      /\ ~Retrying'
      /\ task \in timers /\ timers' = timers \ {task}
      /\ UNCHANGED <<kind, retry, relBusy, sending, responses, segBusy, sent, receiving, msg, status,
                     reports, heard, posts, acked, receptions>>
  BY <1>1, HandlerGoes DEF Dequeue, Labels, Idle, At, Tasks, slots, history
<1>3. ~Posting(Handler) /\ ~Retrying /\ At # RelTask /\ timers' \subseteq Tasks
      /\ \A other \in SegmentTasks : At # other
  BY <1>1, <1>2 DEF Posting, Retrying, At, RelTask, SegmentTasks, Tasks, Typed
<1>4. \A other \in Tasks : other \in timers' \/ At' = other <=> other \in timers
  BY <1>2
<1>5. RelTask \in Tasks /\ SegmentTasks \subseteq Tasks
  BY DEF RelTask, Tasks, SegmentTasks
<1>6. TimersOK'
  <2>1. /\ RelTask \in timers' \/ At' = RelTask <=> RelTask \in timers
        /\ \A other \in SegmentTasks : other \in timers' \/ At' = other <=> other \in timers
    BY <1>4, <1>5
  <2>2. At' = RelTask => RelTask \notin timers'
    BY <1>2
  <2> QED
    BY <1>1, <1>2, <1>3, <2>1, <2>2 DEF TimersOK
<1>7. SegmentsOK'
  BY <1>1, <1>2, <1>4, <1>5 DEF SegmentsOK
<1> QED
  BY <1>2, <1>3, <1>6, <1>7, NothingHeard, Completion

\* The reliable message is posted again, out of the slot.
LEMMA RetryInv ==
  ASSUME RelInv, At = RelTask, Retry(Handler),
         UNCHANGED <<kind, sending, receiving, status, heard, acked, receptions>>
  PROVE  RelInv'
<1>1. Typed /\ Numbered /\ PostingOK /\ SlotOK /\ TimersOK /\ SegmentsOK /\ HeardOK
  BY DEF RelInv
<1>2. /\ At' = "check" /\ Posted' = sending /\ pc' \in [Threads -> Labels]
      /\ \A u \in Threads \ {Handler} : pc'[u] = pc[u] /\ msg'[u] = msg[u]
      /\ msg' = [msg EXCEPT ![Handler] = sending] /\ Handler \in Threads
      /\ retry[sending] > 0 /\ retry' = [retry EXCEPT ![sending] = @ - 1]
      /\ relBusy' = FALSE /\ UNCHANGED <<responses, reports>>
  BY <1>1, HandlerGoes, ReliableMessageAssumption DEF Retry, Labels, Posted, Typed
<1>3. /\ relBusy /\ RelTask \notin timers /\ sending # 0 /\ sending \in Msgs /\ sending \in 1 .. Len(kind)
      /\ kind[sending].reliable /\ status[sending] = "accepted" /\ reports[sending] = <<>>
  BY <1>1, Shape DEF TimersOK, SlotOK
<1>4. ~Posting(Handler) /\ ~Retrying /\ Posting(Handler)' /\ Retrying' /\ At' # RelTask /\ RelTask \notin SegmentTasks
      /\ \A task \in SegmentTasks : At # task /\ At' # task
  BY <1>2, <1>3 DEF Posting, Retrying, At, RelTask, SegmentTasks, Tasks
<1>5. /\ retry' \in [Msgs -> 0 .. RetryCnt]
      /\ \A m \in Msgs : retry[m] = 0 => retry'[m] = 0
  <2>1. retry \in [Msgs -> 0 .. RetryCnt] /\ RetryCnt \in Nat
    BY <1>1, ReliableMessageAssumption DEF Typed
  <2>2. retry[sending] - 1 \in 0 .. RetryCnt
    BY <1>2, <1>3, <2>1
  <2> QED
    BY <1>2, <1>3, <2>1, <2>2
<1>6. /\ \/ segBusy /\ kind[sending].segmented /\ ClearSegmentSendingState("failure")
            /\ timers' = timers \ SegmentTasks
         \/ /\ ~(segBusy /\ kind[sending].segmented)
            /\ UNCHANGED <<segBusy, sent, posts, timers>>
      /\ \/ UNCHANGED <<segBusy, sent, posts>>
         \/ SegmentsOver
  <2>1. ClearSegmentSendingState("failure") => SegmentsOver
    BY DEF SegmentsOver
  <2> QED
    BY <2>1 DEF Retry, KeepSegments
<1>7. /\ posts' \in Seq(Post) /\ DOMAIN posts' = DOMAIN posts
      /\ \A p \in DOMAIN posts : posts'[p].msg = posts[p].msg
      /\ segBusy' \in BOOLEAN /\ sent' \in {0, Len(posts')} /\ timers' \subseteq Tasks
  <2>1. CASE UNCHANGED <<segBusy, sent, posts>>
    BY <1>1, <1>6, <2>1, Shape DEF Typed
  <2>2. CASE SegmentsOver
    BY <1>1, <1>6, <2>2, SegmentsEnd DEF SegmentsOver, Typed
  <2> QED
    BY <1>6, <2>1, <2>2
<1>8. ReportsInv'
  <2>1. TrueSegments /\ TrueReport
    BY <1>2, <1>6 DEF TrueSegments, TrueReport
  <2> QED
    BY <1>5, <2>1, NothingHeard, ReportsStayTrue
<1>9. Typed'
  <2>1. msg' \in [Threads -> 0 .. Len(kind')]
    BY <1>1, <1>2 DEF Typed
  <2> QED
    BY <1>1, <1>2, <1>5, <1>7, <2>1 DEF Typed, Labels, Post
<1>10. Numbered'
  BY <1>1, <1>2, <1>7 DEF Numbered
<1>11. PostingOK'
  <2>1. kind[sending].segmented => ~segBusy'
    BY <1>6 DEF ClearSegmentSendingState
  <2>2. segBusy' => segBusy
    BY <1>6 DEF ClearSegmentSendingState
  <2>3. pc'[Handler] = "check" /\ msg'[Handler] = sending
    BY <1>2 DEF At, Posted
  <2>4. \A u \in Threads \ {Handler} : Posting(u)' <=> Posting(u)
    BY <1>2 DEF Posting
  <2>5. \A u \in Threads \ {Handler} : Posting(u) => status[msg[u]] = "new" /\ msg[u] # sending
    BY <1>1, <1>3 DEF PostingOK
  <2> QED
    BY <1>1, <1>2, <1>3, <2>1, <2>2, <2>3, <2>4, <2>5 DEF PostingOK
<1>12. SlotOK'
  <2>1. ASSUME NEW m \in 1 .. Len(kind'), Waiting(m)' PROVE sending' = m
    BY <1>1, <1>2, <2>1 DEF SlotOK, Waiting
  <2> QED
    BY <1>2, <1>4, <2>1 DEF SlotOK
<1>13. TimersOK'
  <2>1. RelTask \notin timers'
    BY <1>3, <1>6
  <2>2. CASE UNCHANGED <<segBusy, sent, timers>>
    BY <1>1, <1>2, <1>4, <2>1, <2>2 DEF TimersOK
  <2>3. CASE segBusy' = FALSE /\ sent' = 0 /\ timers' = timers \ SegmentTasks
    BY <1>2, <1>4, <2>1, <2>3 DEF TimersOK
  <2> QED
    BY <1>6, <2>2, <2>3 DEF ClearSegmentSendingState
<1>14. SegmentsOK'
  <2>1. sent # 0 => ~kind[posts[sent].msg].reliable
    BY <1>1 DEF SegmentsOK
  <2> QED
    BY <1>1, <1>6, <2>1 DEF SegmentsOK, ClearSegmentSendingState
<1>15. HeardOK'
  BY <1>1, <1>2, <1>3, <1>4 DEF HeardOK
<1> QED
  BY <1>8, <1>9, <1>10, <1>11, <1>12, <1>13, <1>14, <1>15 DEF RelInv, ReportsInv

\* The reliable timer: a reception goes on, the message is posted again, or it has failed.
LEMMA ReliableTimeoutInv ==
  ASSUME RelInv, NEW t \in Threads, ReliableMessageTimeout(t)
  PROVE  RelInv'
<1>1. Typed /\ TimersOK /\ SegmentsOK /\ SlotOK /\ PostingOK
  BY DEF RelInv
<1>2. t = Handler /\ At = RelTask /\ ~Posting(Handler) /\ ~Retrying
      /\ UNCHANGED <<kind, sending, receiving, status, heard, acked, receptions>>
  BY <1>1, TaskRuns DEF ReliableMessageTimeout, RelTask, Tasks
<1>3. /\ relBusy /\ RelTask \notin timers /\ sending \in 1 .. Len(kind)
      /\ reports[sending] = <<>> /\ RelTask \notin SegmentTasks
      /\ \A task \in SegmentTasks : At # task
      /\ sent # 0 => ~kind[posts[sent].msg].reliable
  BY <1>1, <1>2, Shape DEF TimersOK, SlotOK, SegmentsOK, RelTask, SegmentTasks, Tasks
<1>4. CASE receiving
  <2>1. /\ At' = "idle" /\ pc' \in [Threads -> Labels] /\ timers' = timers \cup {RelTask}
        /\ \A u \in Threads : pc'[u] = pc[u] \/ (u = Handler /\ ~Posting(u)')
        /\ ~Retrying'
        /\ UNCHANGED <<retry, msg, relBusy, responses, reports, segBusy, sent, posts>>
    BY <1>1, <1>2, <1>4, HandlerGoes
       DEF ReliableMessageTimeout, WaitForReception, KeepReliable, KeepSegments, Labels, RelTask
  <2>2. At' # RelTask /\ timers' \subseteq Tasks /\ \A task \in SegmentTasks : At' # task
    BY <1>1, <2>1 DEF RelTask, SegmentTasks, Tasks, Typed
  <2>3. TimersOK'
    <3>1. \A task \in SegmentTasks : task \in timers' <=> task \in timers
      BY <1>3, <2>1
    <3> QED
      BY <1>1, <1>3, <2>1, <2>2, <3>1 DEF TimersOK
  <2>4. SegmentsOK'
    BY <1>1, <1>2, <1>3, <2>1 DEF SegmentsOK
  <2> QED
    BY <1>2, <1>3, <2>1, <2>2, <2>3, <2>4, NothingHeard, Completion
<1>5. CASE ~receiving /\ Retry(t)
  BY <1>2, <1>5, RetryInv
<1>6. CASE ~receiving /\ GiveUp(t)
  <2>1. /\ At' = "idle" /\ pc' \in [Threads -> Labels] /\ retry[sending] = 0
        /\ \A u \in Threads : pc'[u] = pc[u] \/ (u = Handler /\ ~Posting(u)')
        /\ ~Retrying'
        /\ relBusy' = FALSE /\ responses' = {} /\ reports' = [reports EXCEPT ![sending] = Append(@, FALSE)]
        /\ timers' = timers \ {RelTask} /\ UNCHANGED <<retry, msg, segBusy, sent, posts>>
    BY <1>1, <1>2, <1>6, HandlerGoes
       DEF GiveUp, OnReliableMessageComplete, ClearReliable, KeepSegments, Labels, RelTask
  <2>2. At' # RelTask /\ timers' \subseteq Tasks /\ \A task \in SegmentTasks : At' # task
    BY <1>1, <2>1 DEF RelTask, SegmentTasks, Tasks, Typed
  <2>3. Tells
    BY <1>3, <2>1 DEF Tells
  <2>4. TimersOK'
    <3>1. RelTask \notin timers' /\ \A task \in SegmentTasks : task \in timers' <=> task \in timers
      BY <1>3, <2>1
    <3> QED
      BY <1>1, <1>3, <2>1, <2>2, <3>1 DEF TimersOK
  <2>5. SegmentsOK'
    BY <1>1, <1>2, <1>3, <2>1 DEF SegmentsOK
  <2> QED
    BY <1>2, <1>3, <2>1, <2>2, <2>3, <2>4, <2>5, NothingHeard, Completion
<1> QED
  BY <1>4, <1>5, <1>6 DEF ReliableMessageTimeout

\* The segments did not get through in time: the message that waits for them has failed.
LEMMA SegmentedTimeoutInv ==
  ASSUME RelInv, NEW t \in Threads, SegmentedMessageTimeout(t)
  PROVE  RelInv'
<1>1. Typed /\ TimersOK /\ SegmentsOK /\ SlotOK /\ PostingOK
  BY DEF RelInv
<1>0. t = Handler /\ At = "segmentedMessageTimeoutTask" /\ ~Posting(Handler) /\ ~Retrying
  BY <1>1, TaskRuns DEF SegmentedMessageTimeout, Tasks
<1>2. /\ At' = "idle" /\ pc' \in [Threads -> Labels]
      /\ \A u \in Threads : pc'[u] = pc[u] \/ (u = Handler /\ ~Posting(u)')
      /\ ~Retrying'
      /\ UNCHANGED <<kind, retry, sending, receiving, msg, status, heard, acked, receptions>>
      /\ OnSegmentedMessageComplete(FALSE)
  <2>1. /\ Become(Handler, "idle") /\ "idle" \in Labels
        /\ UNCHANGED <<kind, retry, sending, receiving, msg, status, heard, acked, receptions>>
        /\ OnSegmentedMessageComplete(FALSE)
    BY <1>0 DEF SegmentedMessageTimeout, Labels
  <2> QED
    BY <1>1, <2>1, HandlerGoes
<1>3. /\ RelTask \notin SegmentTasks /\ At \in SegmentTasks
      /\ At # RelTask /\ At' # RelTask /\ \A task \in SegmentTasks : At' # task
  BY <1>0, <1>2 DEF RelTask, SegmentTasks, Tasks
<1>4. segBusy /\ sent # 0 /\ sent \in DOMAIN posts
  BY <1>1, <1>3, Shape DEF TimersOK
<1>5. ClearSegmentSendingState("failure") /\ segBusy' = FALSE /\ sent' = 0
  BY <1>2 DEF OnSegmentedMessageComplete, ClearSegmentSendingState
<1>6. SegmentsOver /\ SegmentsOK' /\ posts'[sent].result = "failure"
  BY <1>1, <1>4, <1>5, SegmentsEnd DEF SegmentsOver, SegmentsOK
<1>7. CASE ~relBusy
  <2>1. UNCHANGED <<relBusy, responses, reports>> /\ timers' = timers \ SegmentTasks
    BY <1>2, <1>7 DEF OnSegmentedMessageComplete, KeepReliable
  <2>2. timers' \subseteq Tasks
    BY <1>1, <2>1 DEF Typed
  <2>3. TimersOK'
    BY <1>1, <1>3, <1>5, <1>7, <2>1 DEF TimersOK
  <2> QED
    BY <1>0, <1>2, <1>3, <1>6, <1>7, <2>1, <2>2, <2>3, NothingHeard, Completion
<1>8. CASE relBusy
  <2>1. /\ relBusy' = FALSE /\ responses' = {} /\ reports' = [reports EXCEPT ![sending] = Append(@, FALSE)]
        /\ timers' = {}
    BY <1>2, <1>8 DEF OnSegmentedMessageComplete, ClearReliable
  <2>2. Tells
    <3>1. sending \in 1 .. Len(kind) /\ reports[sending] = <<>>
      BY <1>1, <1>8, Shape DEF SlotOK
    <3>2. posts[sent].msg = sending \/ ~kind[posts[sent].msg].reliable
      BY <1>1, <1>4 DEF SegmentsOK
    <3> QED
      BY <1>4, <1>6, <2>1, <3>1, <3>2 DEF Tells
  <2>3. TimersOK'
    BY <1>3, <1>5, <2>1 DEF TimersOK
  <2> QED
    BY <1>0, <1>2, <1>3, <1>6, <1>8, <2>1, <2>2, <2>3, NothingHeard, Completion
<1> QED
  BY <1>7, <1>8

\* All segments are sent again.
LEMMA BlockWaitingInv ==
  ASSUME RelInv, NEW t \in Threads, SegmentBlockWaiting(t)
  PROVE  RelInv'
<1>1. Typed /\ TimersOK /\ SegmentsOK /\ PostingOK
  BY DEF RelInv
<1>0. t = Handler /\ At = "mSegmentBlockWaitingTask" /\ ~Posting(Handler) /\ ~Retrying
  BY <1>1, TaskRuns DEF SegmentBlockWaiting, Tasks
<1>2. /\ At' = "idle" /\ pc' \in [Threads -> Labels]
      /\ \A u \in Threads : pc'[u] = pc[u] \/ (u = Handler /\ ~Posting(u)')
      /\ ~Retrying'
      /\ timers' = IF sent # 0 THEN timers \cup {At} ELSE timers
      /\ UNCHANGED <<kind, retry, relBusy, sending, responses, segBusy, sent, receiving, msg, status,
                     reports, heard, posts, acked, receptions>>
  BY <1>0, <1>1, HandlerGoes DEF SegmentBlockWaiting, Labels, slots, history
<1>3. /\ RelTask \notin SegmentTasks /\ At \in SegmentTasks
      /\ At # RelTask /\ At' # RelTask /\ \A task \in SegmentTasks : At' # task
      /\ SegmentTasks \subseteq Tasks
  BY <1>0, <1>2 DEF RelTask, SegmentTasks, Tasks
<1>4. segBusy /\ sent # 0 /\ timers' = timers \cup {At} /\ timers' \subseteq Tasks
  BY <1>1, <1>2, <1>3 DEF TimersOK, Typed
<1>5. TimersOK' /\ SegmentsOK'
  BY <1>1, <1>2, <1>3, <1>4 DEF TimersOK, SegmentsOK
<1> QED
  BY <1>0, <1>2, <1>3, <1>4, <1>5, NothingHeard, Completion

\* clear() gives up what waits.
LEMMA ClearInv ==
  ASSUME RelInv, NEW t \in Threads, Clear(t), ~raced'
  PROVE  RelInv'
<1>1. Typed /\ Numbered /\ HeardOK /\ PostingOK /\ TimersOK
  BY DEF RelInv
<1>2. /\ At' = At /\ Idle(t) /\ \A u \in Threads : pc'[u] = pc[u]
      /\ timers' = {} /\ segBusy' = FALSE /\ sent' = 0 /\ relBusy' = FALSE /\ responses' = {} /\ receiving' = FALSE
      /\ status' = [m \in Msgs |-> IF status[m] = "accepted" /\ reports[m] = <<>> THEN "cleared" ELSE status[m]]
      /\ UNCHANGED <<kind, retry, sending, pc, msg, reports, heard, posts, acked, receptions>>
  BY <1>1 DEF Clear, At
<1>3. ~Retrying /\ \A task \in Tasks : At # task
  <2>1. CASE t = Handler
    BY <1>2, <2>1 DEF Retrying, Posting, Idle, At, Tasks
  <2>2. CASE t # Handler
    <3>1. slots' # slots => ~Retrying /\ \A task \in Tasks : At # task
      BY <1>1, <2>2, Undisturbed DEF Clear
    <3>2. (\E task \in Tasks : At = task) => relBusy \/ segBusy
      BY <1>1 DEF TimersOK, Tasks, SegmentTasks, RelTask
    <3>3. relBusy \/ segBusy => slots' # slots
      BY <1>2 DEF slots
    <3>4. ~Retrying
      <4> SUFFICES ASSUME Retrying PROVE FALSE
        OBVIOUS
      <4>1. Posting(Handler) /\ status[msg[Handler]] = "accepted" /\ Handler \in Threads \ {t}
        BY <2>2, ReliableMessageAssumption DEF Retrying, Posted
      <4>2. msg[Handler] \in Msgs /\ reports[msg[Handler]] = <<>>
        BY <1>1, <4>1, PostedIs DEF PostingOK
      <4>3. status'[msg[Handler]] = "cleared"
        BY <1>2, <4>1, <4>2
      <4>4. Exposed(Handler) /\ Disturbed(Handler)
        BY <4>1, <4>3 DEF Exposed, Disturbed, Posting, Idle
      <4>5. Watch(t)
        BY DEF Clear
      <4> QED
        BY <4>1, <4>4, <4>5 DEF Watch
    <3> QED
      BY <3>1, <3>2, <3>3, <3>4
  <2> QED
    BY <2>1, <2>2
<1>4. Typed'
  <2>1. status' \in [Msgs -> {"new", "refused", "accepted", "cleared"}]
    BY <1>1, <1>2 DEF Typed
  <2> QED
    BY <1>1, <1>2, <2>1 DEF Typed
<1>5. Numbered'
  BY <1>1, <1>2 DEF Numbered
<1>9. \A u \in Threads : Posting(u) => status[msg[u]] = "new" /\ status'[msg[u]] = "new"
  <2> SUFFICES ASSUME NEW u \in Threads, Posting(u) PROVE status[msg[u]] = "new" /\ status'[msg[u]] = "new"
    OBVIOUS
  <2>1. msg[u] \in Msgs
    BY <1>1, PostedIs
  <2>2. status[msg[u]] = "new"
    BY <1>1, <1>3 DEF PostingOK, Retrying, Posted
  <2> QED
    BY <1>2, <2>1, <2>2
<1>10. ~Retrying'
  <2>1. Retrying' => Posting(Handler) /\ status'[msg[Handler]] = "accepted"
    BY <1>2, ReliableMessageAssumption DEF Retrying, Posting, Posted
  <2> QED
    BY <1>9, <2>1, ReliableMessageAssumption
<1>6. SlotOK'
  <2>1. \A m \in 1 .. Len(kind) : m \in Msgs /\ ~Waiting(m)'
    BY <1>1, <1>2, Shape DEF Waiting
  <2> QED
    BY <1>2, <2>1 DEF SlotOK
<1>7. TimersOK' /\ SegmentsOK' /\ HeardOK'
  <2>1. At' # RelTask /\ \A task \in SegmentTasks : At' # task
    BY <1>2, <1>3 DEF RelTask, SegmentTasks, Tasks
  <2> QED
    BY <1>1, <1>2, <1>10, <2>1 DEF TimersOK, SegmentsOK, HeardOK
<1>11. PostingOK'
  <2>1. \A u \in Threads : Posting(u)' <=> Posting(u)
    BY <1>2 DEF Posting
  <2> QED
    BY <1>1, <1>2, <1>9, <2>1 DEF PostingOK
<1>8. ReportsInv'
  BY <1>2, ToldTheSame
<1> QED
  BY <1>4, <1>5, <1>6, <1>7, <1>8, <1>11 DEF RelInv, ReportsInv

-----------------------------------------------------------------------------
(* The theorems *)

\* The invariant holds when the controller has sent nothing.
LEMMA InitInv ==
  ASSUME Init
  PROVE  RelInv
<1>1. /\ kind = <<>> /\ posts = <<>> /\ Len(kind) = 0 /\ Len(posts) = 0 /\ DOMAIN posts = {}
      /\ kind \in Seq(Kinds) /\ posts \in Seq(Post)
  BY DEF Init
<1>2. /\ retry = [m \in Msgs |-> RetryCnt] /\ relBusy = FALSE /\ sending = 0 /\ responses = {}
      /\ segBusy = FALSE /\ sent = 0 /\ timers = {} /\ receiving = FALSE
      /\ pc = [t \in Threads |-> "idle"] /\ msg = [t \in Threads |-> 0]
      /\ status = [m \in Msgs |-> "new"] /\ reports = [m \in Msgs |-> <<>>]
      /\ heard = [m \in Msgs |-> {}] /\ acked = {} /\ receptions = 0
  BY DEF Init
<1>3. /\ At = "idle" /\ At # RelTask /\ ~Retrying /\ \A task \in SegmentTasks : At # task
      /\ \A t \in Threads : ~Posting(t) /\ pc[t] \notin Tasks
  BY <1>2, ReliableMessageAssumption DEF At, Posting, Retrying, RelTask, SegmentTasks, Tasks
<1>4. Typed
  <2>1. retry \in [Msgs -> 0 .. RetryCnt] /\ Len(kind) <= MaxMsgs /\ receptions \in 0 .. MaxReceptions
    BY <1>1, <1>2, ReliableMessageAssumption
  <2>2. <<>> \in Seq(BOOLEAN)
    OBVIOUS
  <2>3. reports \in [Msgs -> Seq(BOOLEAN)] /\ heard \in [Msgs -> SUBSET Nodes]
    BY <1>2, <2>2
  <2>4. /\ pc \in [Threads -> {"idle", "check", "post"} \cup Tasks] /\ msg \in [Threads -> 0 .. Len(kind)]
        /\ status \in [Msgs -> {"new", "refused", "accepted", "cleared"}]
    BY <1>1, <1>2
  <2>5. sending \in 0 .. Len(kind) /\ sent \in {0, Len(posts)} /\ acked \subseteq DOMAIN posts
    BY <1>1, <1>2
  <2>6. /\ relBusy \in BOOLEAN /\ segBusy \in BOOLEAN /\ receiving \in BOOLEAN
        /\ responses \subseteq Nodes /\ timers \subseteq Tasks
    BY <1>2
  <2> QED
    BY <1>1, <2>1, <2>3, <2>4, <2>5, <2>6 DEF Typed, Post
<1>5. Numbered /\ PostingOK /\ SlotOK
  BY <1>1, <1>2, <1>3 DEF Numbered, PostingOK, SlotOK
<1>6. TimersOK /\ SegmentsOK /\ HeardOK
  BY <1>2, <1>3, FS_EmptySet DEF TimersOK, SegmentsOK, HeardOK
<1>7. Once /\ SuccessMeansAnswered /\ SegmentSuccessMeansReceived /\ FailureMeansGaveUp
  BY <1>1, <1>2
     DEF Once, SuccessMeansAnswered, SegmentSuccessMeansReceived, FailureMeansGaveUp
<1> QED
  BY <1>4, <1>5, <1>6, <1>7 DEF RelInv

\* Every step keeps the invariant, except one that races.
LEMMA StepInv ==
  ASSUME RelInv, [Next]_vars, ~raced'
  PROVE  RelInv'
<1>1. CASE UNCHANGED vars
  <2>1. receiving' \in BOOLEAN /\ receptions' \in 0 .. MaxReceptions
    BY <1>1 DEF vars, RelInv, Typed
  <2> QED
    BY <1>1, <2>1, Untouched DEF vars
<1>2. ASSUME NEW t \in Threads, Send(t) PROVE RelInv'
  BY <1>2, SendInv
<1>3. ASSUME NEW t \in Threads, Advance(t) PROVE RelInv'
  BY <1>3, CheckInv, PostInv, ReliableTimeoutInv, SegmentedTimeoutInv, BlockWaitingInv DEF Advance
<1>4. ASSUME NEW t \in Threads, BeginReception(t) \/ EndReception(t) PROVE RelInv'
  <2>1. /\ UNCHANGED <<kind, retry, slots, timers, pc, msg, history>>
        /\ receiving' \in BOOLEAN
        /\ \/ receptions' = receptions
           \/ receptions < MaxReceptions /\ receptions' = receptions + 1
    <3>1. CASE BeginReception(t)
      BY <3>1 DEF BeginReception
    <3>2. CASE EndReception(t)
      BY <3>2 DEF EndReception
    <3> QED
      BY <1>4, <3>1, <3>2
  <2>2. receptions' \in 0 .. MaxReceptions
    BY <2>1, ReliableMessageAssumption DEF RelInv, Typed
  <2> QED
    BY <2>1, <2>2, Untouched
<1>5. ASSUME NEW t \in Threads, Clear(t) PROVE RelInv'
  BY <1>5, ClearInv
<1>6. ASSUME NEW t \in Threads, NEW p \in DOMAIN posts, NEW all \in BOOLEAN,
             OnSegmentAckMessageReceived(t, p, all)
      PROVE  RelInv'
  BY <1>6, AckInv
<1>7. ASSUME NEW t \in Threads, NEW n \in Nodes, UpdateReliableMessage(t, n) PROVE RelInv'
  BY <1>7, AnswerInv
<1>8. ASSUME NEW t \in Threads, NEW task \in Tasks, Dequeue(t, task) PROVE RelInv'
  BY <1>8, DequeueInv DEF Dequeue
<1> QED
  BY <1>1, <1>2, <1>3, <1>4, <1>5, <1>6, <1>7, <1>8 DEF Next

\* A race stays one.
LEMMA RacedForEver ==
  [Next]_vars /\ raced => raced'
<1>1. ASSUME NEW t \in Threads, Watch(t), raced PROVE raced'
  BY <1>1 DEF Watch
<1> QED
  BY <1>1 DEF Next, vars, Send, Advance, BeginReception, EndReception, Clear, OnSegmentAckMessageReceived,
              UpdateReliableMessage, Dequeue

\* So it holds as long as there is no race.
LEMMA Invariant ==
  Spec => [](raced \/ RelInv)
<1>1. Init => RelInv
  BY InitInv
<1>2. (raced \/ RelInv) /\ [Next]_vars => (raced \/ RelInv)'
  <2>1. RelInv /\ [Next]_vars /\ ~raced' => RelInv'
    BY StepInv
  <2> QED
    BY <2>1, RacedForEver
<1> QED
  BY <1>1, <1>2, PTL DEF Spec

\* Between two operations, the message that was accepted and not yet reported is the one
\* in the slot, and the timers that will come back to it are armed.
THEOREM AcceptedTracked ==
  Spec => []AcceptedIsTracked
<1>1. raced \/ RelInv => AcceptedIsTracked
  <2> SUFFICES ASSUME RelInv, Quiet
               PROVE  /\ \A m \in 1 .. Len(kind) : Waiting(m) => relBusy /\ sending = m
                      /\ relBusy => RelTask \in timers \/ (segBusy /\ SegmentTasks \subseteq timers)
                      /\ segBusy => SegmentTasks \subseteq timers /\ sent # 0
    BY DEF AcceptedIsTracked, RelTask
  <2>1. At = "idle"
    BY ReliableMessageAssumption DEF Quiet, Idle, At
  <2>2. At # RelTask /\ ~Retrying /\ \A task \in SegmentTasks : At # task
    BY <2>1 DEF RelTask, SegmentTasks, Tasks, Retrying, Posting, At
  <2>3. SlotOK /\ TimersOK
    BY DEF RelInv
  <2>4. segBusy => SegmentTasks \subseteq timers /\ sent # 0
    BY <2>2, <2>3 DEF TimersOK
  <2> QED
    BY <2>2, <2>3, <2>4 DEF SlotOK, TimersOK
<1> QED
  BY <1>1, Invariant, PTL

\* The application is not told twice of the same message.
THEOREM ToldOnce ==
  Spec => []ReportedOnce
<1>1. raced \/ RelInv => ReportedOnce
  BY DEF RelInv, Once, ReportedOnce
<1> QED
  BY <1>1, Invariant, PTL

\* What the application is told is true: of a message that was accepted and not cleared,
\* success when enough nodes have answered, failure after the last retry or when segments
\* did not get through; and segments are reported as sent when they were received.
THEOREM ToldTruly ==
  Spec => []ReportsAreTrue
<1>1. raced \/ RelInv => ReportsAreTrue
  BY DEF RelInv, ReportsAreTrue, NoLateReport, Numbered
<1> QED
  BY <1>1, Invariant, PTL

-----------------------------------------------------------------------------
(* The shape of the state, with races or without *)

\* No message has the number 0: what is posted, waits or is waited for is a message.
Numbers ==
  /\ \A t \in Threads : (Posting(t) => msg[t] # 0) /\ (pc[t] = RelTask => sending # 0)
  /\ relBusy \/ RelTask \in timers => sending # 0

\* What a completion leaves.
LEMMA ShapeOfSegments ==
  ASSUME Typed, NEW r \in {"success", "failure"}, ClearSegmentSendingState(r) \/ KeepSegments
  PROVE  /\ segBusy' \in BOOLEAN /\ posts' \in Seq(Post) /\ DOMAIN posts' = DOMAIN posts
         /\ sent' \in {0, Len(posts')}
<1>1. CASE KeepSegments
  BY <1>1, Shape DEF KeepSegments, Typed
<1>2. CASE ClearSegmentSendingState(r)
  BY <1>2, SegmentsEnd
<1> QED
  BY <1>1, <1>2

LEMMA ShapeOfReports ==
  ASSUME Typed, NEW b \in BOOLEAN, NEW m, ClearReliable(b, m) \/ KeepReliable
  PROVE  relBusy' \in BOOLEAN /\ responses' \subseteq Nodes /\ reports' \in [Msgs -> Seq(BOOLEAN)]
<1>1. reports \in [Msgs -> Seq(BOOLEAN)] /\ relBusy \in BOOLEAN /\ responses \subseteq Nodes
  BY DEF Typed
<1>2. ASSUME reports' = [reports EXCEPT ![m] = Append(@, b)] PROVE reports' \in [Msgs -> Seq(BOOLEAN)]
  <2>1. reports' = [n \in Msgs |-> IF n = m THEN Append(reports[m], b) ELSE reports[n]]
    BY <1>1, <1>2
  <2>2. m \in Msgs => Append(reports[m], b) \in Seq(BOOLEAN)
    <3>1. \A q \in Seq(BOOLEAN) : Append(q, b) \in Seq(BOOLEAN)
      BY AppendProperties
    <3> QED
      BY <1>1, <3>1
  <2> DEFINE e == Append(reports[m], b)
  <2>3. reports' = [n \in Msgs |-> IF n = m THEN e ELSE reports[n]] /\ (m \in Msgs => e \in Seq(BOOLEAN))
    BY <2>1, <2>2
  <2> HIDE DEF e
  <2> QED
    BY <1>1, <2>3
<1> QED
  BY <1>1, <1>2 DEF ClearReliable, KeepReliable

\* The actions of a post.
LEMMA PostShape ==
  ASSUME Typed, Numbers, NEW t \in Threads, PostMeshMessage(t)
  PROVE  Typed' /\ Numbers'
<1> DEFINE m == msg[t]
           k == kind[m]
<1>1. /\ pc[t] = "post" /\ m # 0 /\ m \in 0 .. Len(kind) /\ Len(kind) \in Nat
      /\ UNCHANGED <<kind, retry, responses, receiving, msg, reports, heard, acked, receptions>>
  BY Shape DEF PostMeshMessage, Numbers, Posting, Typed
<1>2. m \in 1 .. Len(kind)
  BY <1>1
<1>3. m \in Msgs /\ k \in Kinds /\ k.reliable \in BOOLEAN
  BY <1>2, Shape, ReliableMessageAssumption
<1>4. Become(t, "idle")
  BY DEF PostMeshMessage, Refuse
<1>5. /\ pc' \in [Threads -> Labels] /\ pc'[t] = "idle" /\ \A u \in Threads \ {t} : pc'[u] = pc[u]
  BY <1>4, Goes DEF Labels
<1>6. status' \in [Msgs -> {"new", "refused", "accepted", "cleared"}]
  BY <1>3 DEF PostMeshMessage, Refuse, Typed
<1>7. /\ relBusy' \in BOOLEAN
      /\ sending' \in {sending, m} /\ (relBusy' => relBusy \/ sending' = m)
      /\ timers \subseteq timers' /\ timers' \subseteq Tasks
      /\ RelTask \in timers' => RelTask \in timers \/ sending' = m
  <2>1. timers \subseteq Tasks /\ SegmentTasks \subseteq Tasks /\ RelTask \in Tasks /\ RelTask \notin SegmentTasks
    BY DEF Typed, SegmentTasks, Tasks, RelTask
  <2>2. relBusy \in BOOLEAN
    BY DEF Typed
  <2>3. CASE k.reliable /\ relBusy
    BY <1>1, <2>1, <2>2, <2>3 DEF PostMeshMessage
  <2>4. CASE ~(k.reliable /\ relBusy)
    <3>1. /\ relBusy' = (relBusy \/ k.reliable) /\ sending' = IF k.reliable THEN m ELSE sending
          /\ \/ timers' = timers \cup SegmentTasks
             \/ timers' = IF k.reliable THEN timers \cup {RelTask} ELSE timers
      BY <2>4 DEF PostMeshMessage, RelTask
    <3> HIDE DEF m, k
    <3>2. CASE k.reliable
      BY <1>3, <2>1, <2>2, <3>1, <3>2
    <3>3. CASE ~k.reliable
      BY <1>3, <2>1, <2>2, <3>1, <3>3
    <3> QED
      BY <3>2, <3>3
  <2> QED
    BY <2>3, <2>4
<1>8. /\ segBusy' \in BOOLEAN /\ posts' \in Seq(Post) /\ sent' \in {0, Len(posts')}
      /\ acked \subseteq DOMAIN posts'
  <2>1. CASE UNCHANGED <<segBusy, sent, posts>>
    BY <2>1, Shape DEF Typed
  <2>2. CASE /\ segBusy' = TRUE /\ sent' = Len(posts) + 1
             /\ posts' = Append(posts, [msg |-> m, result |-> "none"])
    <3> DEFINE e == [msg |-> m, result |-> "none"]
    <3>1. e \in Post /\ posts \in Seq(Post) /\ Len(posts) \in Nat /\ DOMAIN posts = 1 .. Len(posts)
          /\ acked \subseteq DOMAIN posts
      BY <1>3, Shape DEF Post, Typed
    <3>2. posts' = Append(posts, e)
      BY <2>2
    <3> HIDE DEF e
    <3>3. posts' \in Seq(Post) /\ Len(posts') = Len(posts) + 1
      BY <3>1, <3>2, AppendProperties
    <3>4. DOMAIN posts' = 1 .. Len(posts')
      BY <3>3, LenProperties
    <3> QED
      BY <2>2, <3>1, <3>3, <3>4
  <2> QED
    BY <2>1, <2>2 DEF PostMeshMessage
<1> HIDE DEF m, k
<1>9. Typed'
  <2>1. sending' \in 0 .. Len(kind')
    BY <1>1, <1>7 DEF Typed
  <2> QED
    BY <1>1, <1>5, <1>6, <1>7, <1>8, <2>1 DEF Typed, Labels, Post
<1>10. Numbers'
  BY <1>1, <1>5, <1>7 DEF Numbers, Posting, RelTask
<1> QED
  BY <1>9, <1>10

\* The others that change the slots.
LEMMA CompletionShape ==
  ASSUME Typed, Numbers, NEW r \in {"success", "failure"}, NEW b \in BOOLEAN,
         ClearSegmentSendingState(r) \/ KeepSegments,
         ClearReliable(b, sending) \/ KeepReliable,
         UNCHANGED <<kind, sending, status>>, retry' \in [Msgs -> 0 .. RetryCnt],
         receiving' \in BOOLEAN, receptions' \in 0 .. MaxReceptions,
         acked' \subseteq DOMAIN posts, heard' \in [Msgs -> SUBSET Nodes],
         timers' \subseteq Tasks, RelTask \in timers' => RelTask \in timers \/ relBusy \/ sending # 0,
         pc' \in [Threads -> Labels], msg' \in [Threads -> 0 .. Len(kind)],
         \A t \in Threads : /\ pc'[t] \in {pc[t], "idle"} \/ pc'[t] \in SegmentTasks \/ sending # 0
                            /\ msg'[t] \in {msg[t], sending}
                            /\ Posting(t)' => \/ Posting(t) /\ msg'[t] = msg[t]
                                              \/ msg'[t] = sending /\ sending # 0
  PROVE  Typed' /\ Numbers'
<1>1. /\ segBusy' \in BOOLEAN /\ posts' \in Seq(Post) /\ DOMAIN posts' = DOMAIN posts
      /\ sent' \in {0, Len(posts')}
  BY ShapeOfSegments
<1>2. relBusy' \in BOOLEAN /\ responses' \subseteq Nodes /\ reports' \in [Msgs -> Seq(BOOLEAN)]
  BY ShapeOfReports
<1>3. Typed'
  BY <1>1, <1>2 DEF Typed, Labels, Post
<1>4. relBusy' => relBusy
  BY DEF ClearReliable, KeepReliable
<1>5. \A t \in Threads : (Posting(t)' => msg'[t] # 0) /\ (pc'[t] = RelTask => sending # 0)
  <2> SUFFICES ASSUME NEW t \in Threads
               PROVE  (Posting(t)' => msg'[t] # 0) /\ (pc'[t] = RelTask => sending # 0)
    OBVIOUS
  <2>1. (Posting(t) => msg[t] # 0) /\ (pc[t] = RelTask => sending # 0)
    BY DEF Numbers
  <2>2. pc'[t] = RelTask => sending # 0
    BY <2>1 DEF RelTask, SegmentTasks
  <2>3. Posting(t)' => msg'[t] # 0
    <3>1. CASE Posting(t) /\ msg'[t] = msg[t]
      BY <2>1, <3>1
    <3>2. CASE ~(Posting(t) /\ msg'[t] = msg[t]) /\ Posting(t)'
      BY <2>1, <3>2
    <3> QED
      BY <3>1, <3>2
  <2> QED
    BY <2>2, <2>3
<1> QED
  BY <1>3, <1>4, <1>5 DEF Numbers

\* What a step that is neither a post nor a completion leaves alone.
LEMMA ShapeKept ==
  ASSUME Typed, Numbers
  PROVE  /\ retry \in [Msgs -> 0 .. RetryCnt] /\ receiving \in BOOLEAN /\ receptions \in 0 .. MaxReceptions
         /\ acked \subseteq DOMAIN posts /\ heard \in [Msgs -> SUBSET Nodes] /\ timers \subseteq Tasks
         /\ pc \in [Threads -> Labels] /\ msg \in [Threads -> 0 .. Len(kind)]
         /\ RelTask \in Tasks /\ SegmentTasks \subseteq Tasks /\ RelTask \notin SegmentTasks
         /\ relBusy => sending # 0
BY DEF Typed, Numbers, Labels, RelTask, SegmentTasks, Tasks

LEMMA SendShape ==
  ASSUME Typed, Numbers, NEW t \in Threads, Send(t)
  PROVE  Typed' /\ Numbers'
<1>1. PICK k \in Kinds : kind' = Append(kind, k)
  BY DEF Send
<1>2. /\ pc'[t] = "check" /\ pc' \in [Threads -> Labels] /\ \A u \in Threads \ {t} : pc'[u] = pc[u]
      /\ msg' = [msg EXCEPT ![t] = Len(kind) + 1] /\ Len(kind) < MaxMsgs
      /\ UNCHANGED <<retry, relBusy, sending, responses, segBusy, sent, timers, receiving, status,
                     reports, heard, posts, acked, receptions>>
  BY Goes DEF Send, slots, history, Labels
<1>3. Len(kind) \in Nat /\ kind \in Seq(Kinds) /\ MaxMsgs \in Nat
  BY Shape DEF Typed
<1>4. kind' \in Seq(Kinds) /\ Len(kind') = Len(kind) + 1
  BY <1>1, <1>3, AppendProperties
<1>5. sending' \in 0 .. Len(kind') /\ msg' \in [Threads -> 0 .. Len(kind')] /\ Len(kind') <= MaxMsgs
  BY <1>2, <1>3, <1>4 DEF Typed
<1>6. msg'[t] # 0 /\ \A u \in Threads \ {t} : msg'[u] = msg[u]
  BY <1>2, <1>3 DEF Typed
<1>7. Typed'
  BY <1>2, <1>4, <1>5 DEF Typed, Labels
<1>8. Numbers'
  BY <1>2, <1>6 DEF Numbers, Posting, RelTask
<1> QED
  BY <1>7, <1>8

LEMMA CheckShape ==
  ASSUME Typed, Numbers, NEW t \in Threads, CheckSegmentedBusy(t)
  PROVE  Typed' /\ Numbers'
<1>1. /\ pc[t] = "check"
      /\ Become(t, "idle") \/ Become(t, "post")
      /\ UNCHANGED <<kind, retry, relBusy, sending, responses, segBusy, sent, timers, receiving, msg,
                     reports, heard, posts, acked, receptions>>
  BY DEF CheckSegmentedBusy, Refuse, slots
<1>2. /\ pc[t] = "check" /\ pc'[t] \in {"idle", "post"} /\ pc' \in [Threads -> Labels]
      /\ \A u \in Threads \ {t} : pc'[u] = pc[u]
  BY <1>1, Goes DEF CheckSegmentedBusy, Labels
<1>3. status' \in [Msgs -> {"new", "refused", "accepted", "cleared"}]
  BY DEF CheckSegmentedBusy, Refuse, Typed
<1>4. Typed'
  BY <1>1, <1>2, <1>3 DEF Typed, Labels
<1>5. Numbers'
  BY <1>1, <1>2 DEF Numbers, Posting, RelTask
<1> QED
  BY <1>4, <1>5

LEMMA AckShape ==
  ASSUME Typed, Numbers, NEW t \in Threads, NEW p \in DOMAIN posts, NEW all \in BOOLEAN,
         OnSegmentAckMessageReceived(t, p, all)
  PROVE  Typed' /\ Numbers'
<1>1. /\ UNCHANGED <<kind, retry, sending, receiving, pc, msg, status, heard, receptions>>
      /\ acked' = IF all THEN acked \cup {p} ELSE acked
  BY DEF OnSegmentAckMessageReceived
<1>2. acked' \subseteq DOMAIN posts
  BY <1>1, ShapeKept
<1>3. /\ ClearSegmentSendingState("success") \/ KeepSegments
      /\ KeepReliable
      /\ \/ timers' = timers \ SegmentTasks
         \/ relBusy /\ timers' = (timers \ SegmentTasks) \cup {RelTask}
         \/ timers' = timers \cup {"mSegmentBlockWaitingTask"}
         \/ timers' = timers
  BY DEF OnSegmentAckMessageReceived, OnSegmentedMessageComplete, RelTask
<1>4. timers' \subseteq Tasks /\ (RelTask \in timers' => RelTask \in timers \/ relBusy)
  BY <1>3, ShapeKept DEF Tasks, RelTask
<1> QED
  BY <1>1, <1>2, <1>3, <1>4, ShapeKept, CompletionShape DEF Posting

LEMMA AnswerShape ==
  ASSUME Typed, Numbers, NEW t \in Threads, NEW n \in Nodes, UpdateReliableMessage(t, n)
  PROVE  Typed' /\ Numbers'
<1>1. /\ UNCHANGED <<kind, retry, sending, receiving, pc, msg, status, acked, receptions>>
      /\ heard' = [heard EXCEPT ![sending] = @ \cup {n}]
  BY DEF UpdateReliableMessage
<1>2. heard' \in [Msgs -> SUBSET Nodes]
  BY <1>1, ShapeKept
<1>3. CASE OnReliableMessageComplete(TRUE)
  <2>1. /\ ClearSegmentSendingState("success") \/ KeepSegments
        /\ ClearReliable(TRUE, sending)
        /\ timers' = {} \/ timers' = timers \ {RelTask}
    BY <1>3 DEF OnReliableMessageComplete, RelTask
  <2>2. timers' \subseteq Tasks /\ (RelTask \in timers' => RelTask \in timers \/ relBusy)
    BY <2>1, ShapeKept
  <2> QED
    BY <1>1, <1>2, <2>1, <2>2, ShapeKept, CompletionShape DEF Posting
<1>4. CASE ~OnReliableMessageComplete(TRUE)
  <2>1. /\ responses' = responses \cup {n}
        /\ UNCHANGED <<relBusy, reports, timers, segBusy, sent, posts>>
    BY <1>4 DEF UpdateReliableMessage, KeepSegments
  <2> QED
    BY <1>1, <1>2, <2>1, ShapeKept DEF Typed, Numbers, Posting
<1> QED
  BY <1>3, <1>4

LEMMA TaskShape ==
  ASSUME Typed, Numbers, NEW t \in Threads,
         ReliableMessageTimeout(t) \/ SegmentedMessageTimeout(t) \/ SegmentBlockWaiting(t)
  PROVE  Typed' /\ Numbers'
<1>0. \A label \in {"idle", "check"} : Become(t, label) =>
        pc' \in [Threads -> Labels] /\ pc'[t] = label /\ \A u \in Threads \ {t} : pc'[u] = pc[u]
  BY Goes DEF Labels
<1>1. CASE ReliableMessageTimeout(t)
  <2>1. /\ pc[t] = RelTask /\ UNCHANGED <<kind, sending, receiving, status, heard, acked, receptions>>
        /\ sending # 0
    BY <1>1 DEF ReliableMessageTimeout, RelTask, Numbers
  <2>2. CASE WaitForReception(t)
    <3>1. /\ Become(t, "idle") /\ KeepSegments /\ KeepReliable /\ UNCHANGED <<retry, msg>>
          /\ timers' = timers \cup {RelTask}
      BY <2>2 DEF WaitForReception, RelTask
    <3>2. timers' \subseteq Tasks
      BY <3>1, ShapeKept
    <3> QED
      BY <1>0, <2>1, <3>1, <3>2, ShapeKept, CompletionShape DEF Posting
  <2>3. CASE Retry(t)
    <3>1. /\ Become(t, "check") /\ msg' = [msg EXCEPT ![t] = sending]
          /\ retry[sending] > 0 /\ retry' = [retry EXCEPT ![sending] = @ - 1]
          /\ relBusy' = FALSE /\ UNCHANGED <<responses, reports>>
          /\ ClearSegmentSendingState("failure") \/ KeepSegments
          /\ timers' = timers \/ timers' = timers \ SegmentTasks
      BY <2>3 DEF Retry
    <3>2. sending \in Msgs /\ sending \in 0 .. Len(kind)
      BY <2>1, Shape DEF Typed
    <3>3. retry' \in [Msgs -> 0 .. RetryCnt]
      <4>1. retry \in [Msgs -> 0 .. RetryCnt] /\ RetryCnt \in Nat
        BY ShapeKept, ReliableMessageAssumption
      <4>2. retry[sending] - 1 \in 0 .. RetryCnt
        BY <3>1, <3>2, <4>1
      <4> QED
        BY <3>1, <4>1, <4>2
    <3>4. /\ segBusy' \in BOOLEAN /\ posts' \in Seq(Post) /\ DOMAIN posts' = DOMAIN posts
          /\ sent' \in {0, Len(posts')}
      BY <3>1, ShapeOfSegments
    <3>5. pc' \in [Threads -> Labels] /\ pc'[t] = "check" /\ \A u \in Threads \ {t} : pc'[u] = pc[u]
      BY <1>0, <3>1
    <3>6. /\ msg' \in [Threads -> 0 .. Len(kind)] /\ msg'[t] = sending
          /\ \A u \in Threads \ {t} : msg'[u] = msg[u]
      BY <3>1, <3>2, ShapeKept
    <3>7. timers' \subseteq Tasks
      BY <3>1, ShapeKept
    <3>8. Typed'
      BY <2>1, <3>1, <3>3, <3>4, <3>5, <3>6, <3>7 DEF Typed, Labels, Post
    <3>9. Numbers'
      BY <2>1, <3>1, <3>5, <3>6 DEF Numbers, Posting, RelTask
    <3> QED
      BY <3>8, <3>9
  <2>4. CASE GiveUp(t)
    <3>1. /\ Become(t, "idle") /\ UNCHANGED <<retry, msg>>
          /\ ClearSegmentSendingState("success") \/ KeepSegments
          /\ ClearReliable(FALSE, sending)
          /\ timers' = {} \/ timers' = timers \ {RelTask}
      BY <2>4 DEF GiveUp, OnReliableMessageComplete, RelTask
    <3>2. timers' \subseteq Tasks
      BY <3>1, ShapeKept
    <3> QED
      BY <1>0, <2>1, <3>1, <3>2, ShapeKept, CompletionShape DEF Posting
  <2> QED
    BY <1>1, <2>2, <2>3, <2>4 DEF ReliableMessageTimeout
<1>2. CASE SegmentedMessageTimeout(t)
  <2>1. /\ UNCHANGED <<kind, retry, sending, receiving, msg, status, heard, acked, receptions>>
        /\ OnSegmentedMessageComplete(FALSE) /\ Become(t, "idle")
    BY <1>2 DEF SegmentedMessageTimeout
  <2>2. /\ ClearSegmentSendingState("failure")
        /\ ClearReliable(FALSE, sending) \/ KeepReliable
        /\ timers' = {} \/ timers' = timers \ SegmentTasks
    BY <2>1 DEF OnSegmentedMessageComplete
  <2>3. timers' \subseteq Tasks /\ (RelTask \in timers' => RelTask \in timers)
    BY <2>2, ShapeKept
  <2> QED
    BY <1>0, <2>1, <2>2, <2>3, ShapeKept, CompletionShape DEF Posting
<1>3. CASE SegmentBlockWaiting(t)
  <2>1. /\ UNCHANGED <<kind, retry, slots, receiving, msg, history, receptions>> /\ Become(t, "idle")
        /\ timers' = IF sent # 0 THEN timers \cup {"mSegmentBlockWaitingTask"} ELSE timers
    BY <1>3 DEF SegmentBlockWaiting
  <2>2. UNCHANGED <<kind, retry, sending, receiving, msg, status, heard, acked, receptions>>
        /\ KeepSegments /\ KeepReliable
    BY <2>1 DEF slots, history, KeepSegments, KeepReliable
  <2>3. timers' \subseteq Tasks /\ (RelTask \in timers' => RelTask \in timers)
    BY <2>1, ShapeKept DEF Tasks, RelTask
  <2> QED
    BY <1>0, <2>1, <2>2, <2>3, ShapeKept, CompletionShape DEF Posting
<1> QED
  BY <1>1, <1>2, <1>3

LEMMA RestShape ==
  ASSUME Typed, Numbers, NEW t \in Threads,
         BeginReception(t) \/ EndReception(t) \/ Clear(t) \/ \E task \in Tasks : Dequeue(t, task)
  PROVE  Typed' /\ Numbers'
<1>1. CASE BeginReception(t) \/ EndReception(t)
  <2>1. /\ UNCHANGED <<kind, retry, relBusy, sending, responses, segBusy, sent, timers, pc, msg, status,
                       reports, heard, posts, acked>>
        /\ receiving' \in BOOLEAN
        /\ receptions' = receptions \/ (receptions < MaxReceptions /\ receptions' = receptions + 1)
    BY <1>1 DEF BeginReception, EndReception, slots, history
  <2>2. receptions' \in 0 .. MaxReceptions
    BY <2>1, ShapeKept, ReliableMessageAssumption
  <2> QED
    BY <2>1, <2>2 DEF Typed, Numbers, Posting
<1>2. CASE Clear(t)
  <2>1. /\ timers' = {} /\ segBusy' = FALSE /\ sent' = 0 /\ relBusy' = FALSE /\ responses' = {}
        /\ receiving' = FALSE
        /\ UNCHANGED <<kind, retry, sending, pc, msg, reports, heard, posts, acked, receptions>>
    BY <1>2 DEF Clear
  <2>2. status' \in [Msgs -> {"new", "refused", "accepted", "cleared"}]
    BY <1>2 DEF Clear, Typed
  <2> QED
    BY <2>1, <2>2 DEF Typed, Numbers, Posting
<1>3. ASSUME NEW task \in Tasks, Dequeue(t, task) PROVE Typed' /\ Numbers'
  <2>1. /\ UNCHANGED <<kind, retry, relBusy, sending, responses, segBusy, sent, receiving, msg, status,
                       reports, heard, posts, acked, receptions>>
        /\ timers' = timers \ {task} /\ task \in timers /\ Become(t, task)
    BY <1>3 DEF Dequeue, slots, history
  <2>2. pc' \in [Threads -> Labels] /\ pc'[t] = task /\ \A u \in Threads \ {t} : pc'[u] = pc[u]
    BY <2>1, Goes DEF Labels
  <2>3. task \notin {"check", "post"}
    BY DEF Tasks
  <2> QED
    BY <2>1, <2>2, <2>3 DEF Typed, Numbers, Labels, Posting
<1> QED
  BY <1>1, <1>2, <1>3

\* The shape of the state is kept by any threads, whether they race or not.
THEOREM TypeCorrect ==
  Spec => []TypeOK
<1> DEFINE B == raced \in BOOLEAN
<1>1. Init => Typed /\ Numbers /\ B
  <2>1. Init => RelInv /\ raced \in BOOLEAN
    BY InitInv DEF Init
  <2>2. Init => Numbers
    BY DEF Init, Numbers, Posting, RelTask
  <2> QED
    BY <2>1, <2>2 DEF RelInv
<1>2. Typed /\ Numbers /\ [Next]_vars => Typed' /\ Numbers'
  <2> SUFFICES ASSUME Typed, Numbers, [Next]_vars PROVE Typed' /\ Numbers'
    OBVIOUS
  <2>1. CASE UNCHANGED vars
    BY <2>1 DEF vars, slots, history, Typed, Numbers, Posting
  <2>2. ASSUME NEW t \in Threads, Advance(t) PROVE Typed' /\ Numbers'
    BY <2>2, CheckShape, PostShape, TaskShape DEF Advance
  <2> QED
    BY <2>1, <2>2, SendShape, AckShape, AnswerShape, RestShape DEF Next
<1>3. [Next]_vars /\ B => B'
  <2>1. ASSUME NEW t \in Threads, Watch(t) PROVE raced' \in BOOLEAN
    BY <2>1 DEF Watch
  <2> QED
    BY <2>1 DEF Next, vars, Send, Advance, BeginReception, EndReception, Clear, OnSegmentAckMessageReceived,
                UpdateReliableMessage, Dequeue
<1>4. Typed /\ B => TypeOK
  BY DEF TypeOK
<1> HIDE DEF B
<1> QED
  BY <1>1, <1>2, <1>3, <1>4, PTL DEF Spec

-----------------------------------------------------------------------------
(* Liveness: the segmented slot.  The provers reason about WF and SF, not   *)
(* about the ENABLED in them, so that the theorems assume GuardsSuffice.    *)

SegTask == "segmentedMessageTimeoutTask"

\* What a thread does, apart from going on with what it has begun.
Begins(t) ==
  \/ Send(t) \/ BeginReception(t) \/ EndReception(t) \/ Clear(t)
  \/ \E p \in DOMAIN posts, all \in BOOLEAN : OnSegmentAckMessageReceived(t, p, all)
  \/ \E n \in Nodes : UpdateReliableMessage(t, n)
  \/ \E task \in Tasks : Dequeue(t, task)

\* A thread is at rest, or goes on; the steps of the others leave it where it is.
LEMMA OneAtATime ==
  ASSUME Typed, NEW t \in Threads, Advance(t) \/ Begins(t)
  PROVE  /\ Idle(t) <=> ~Advance(t)
         /\ t # Handler => At' = At
<1>1. Advance(t) => ~Idle(t)
  BY DEF Idle, Advance, CheckSegmentedBusy, PostMeshMessage, ReliableMessageTimeout,
         SegmentedMessageTimeout, SegmentBlockWaiting
<1>2. Begins(t) => Idle(t)
  BY DEF Begins, Send, BeginReception, EndReception, Clear, OnSegmentAckMessageReceived,
         UpdateReliableMessage, Dequeue
<1>3. \A label \in Labels : Become(t, label) /\ t # Handler => At' = At
  BY Goes DEF At
<1>4. Advance(t) => \E label \in Labels : Become(t, label)
  BY DEF Advance, CheckSegmentedBusy, PostMeshMessage, Refuse, ReliableMessageTimeout, WaitForReception,
         Retry, GiveUp, SegmentedMessageTimeout, SegmentBlockWaiting, Labels
<1>5. Begins(t) => UNCHANGED pc \/ \E label \in Labels : Become(t, label)
  BY DEF Begins, Send, BeginReception, EndReception, Clear, OnSegmentAckMessageReceived,
         UpdateReliableMessage, Dequeue, Labels
<1> QED
  BY <1>1, <1>2, <1>3, <1>4, <1>5 DEF At

\* A step is one of some thread.
LEMMA SomeThread ==
  ASSUME [Next]_vars
  PROVE  UNCHANGED vars \/ \E t \in Threads : Advance(t) \/ Begins(t)
BY DEF Next, Begins

\* What the thread has begun is over after three steps at most.
LEMMA Advances ==
  ASSUME Typed, Advance(Handler)
  PROVE  /\ At = "check" => At' \in {"idle", "post"}
         /\ At = "post" => At' = "idle"
         /\ At = RelTask => At' \in {"idle", "check"}
         /\ At \in SegmentTasks => At' = "idle"
<1>0. \A label \in Labels : Become(Handler, label) => At' = label
  BY HandlerGoes
<1>1. ASSUME CheckSegmentedBusy(Handler) PROVE At = "check" /\ At' \in {"idle", "post"}
  BY <1>0, <1>1 DEF CheckSegmentedBusy, Refuse, At, Labels
<1>2. ASSUME PostMeshMessage(Handler) PROVE At = "post" /\ At' = "idle"
  BY <1>0, <1>2 DEF PostMeshMessage, Refuse, At, Labels
<1>3. ASSUME ReliableMessageTimeout(Handler) PROVE At = RelTask /\ At' \in {"idle", "check"}
  BY <1>0, <1>3 DEF ReliableMessageTimeout, WaitForReception, Retry, GiveUp, At, RelTask, Labels
<1>4. ASSUME SegmentedMessageTimeout(Handler) PROVE At = SegTask /\ At' = "idle"
  BY <1>0, <1>4 DEF SegmentedMessageTimeout, At, SegTask, Labels
<1>5. ASSUME SegmentBlockWaiting(Handler) PROVE At = "mSegmentBlockWaitingTask" /\ At' = "idle"
  BY <1>0, <1>5 DEF SegmentBlockWaiting, At, Labels
<1> QED
  BY <1>1, <1>2, <1>3, <1>4, <1>5 DEF Advance, SegmentTasks, Tasks, RelTask, SegTask

\* The handler thread comes back to its queue again and again.
LEMMA ComesBack ==
  Spec /\ []GuardsSuffice => []<>Idle(Handler)
<1> DEFINE I == Idle(Handler)
           C == At = "check"
           P == At = "post"
           R == At = RelTask
           S == At \in SegmentTasks
<1>1. TypeOK => I \/ C \/ P \/ R \/ S
  BY ReliableMessageAssumption DEF TypeOK, Typed, At, Idle, RelTask, SegmentTasks
<1>2. TypeOK /\ [Next]_vars /\ ~I => Advance(Handler) \/ ((C => C') /\ (P => P') /\ (R => R') /\ (S => S'))
  <2> SUFFICES ASSUME Typed, [Next]_vars, ~I, ~Advance(Handler)
               PROVE  (C => C') /\ (P => P') /\ (R => R') /\ (S => S')
    BY DEF TypeOK
  <2>1. At' = At
    <3>1. CASE UNCHANGED vars
      BY <3>1 DEF vars, At
    <3>2. ASSUME NEW t \in Threads, Advance(t) \/ Begins(t) PROVE At' = At
      BY <3>2, OneAtATime
    <3> QED
      BY <3>1, <3>2, SomeThread
  <2> QED
    BY <2>1
<1>3. TypeOK /\ Advance(Handler) => /\ C => I' \/ P'
                                    /\ P => I'
                                    /\ R => I' \/ C'
                                    /\ S => I'
  BY Advances DEF TypeOK, Idle, At
<1>4. GuardsSuffice /\ ~I => ENABLED <<Advance(Handler)>>_vars
  BY DEF GuardsSuffice
<1> HIDE DEF I, C, P, R, S
<1> QED
  BY <1>1, <1>2, <1>3, <1>4, TypeCorrect, PTL DEF Spec, Fairness, I

\* SegmentedEnds: whatever block acks come and whatever is sent meanwhile, the segmented slot
\* is free again in the end.  The task that gives the segments up is posted all the time.
LEMMA SegmentsAreThrough ==
  Spec /\ []GuardsSuffice => SegmentedEnds
<1> DEFINE I == Idle(Handler)
           X == At = SegTask
           Q == SegTask \in timers
<1>1. (raced \/ RelInv) /\ segBusy => X \/ Q \/ raced
  BY DEF RelInv, TimersOK, SegmentTasks, Tasks, SegTask
<1>2. TypeOK /\ X /\ Advance(Handler) => ~segBusy'
  BY DEF Advance, SegTask, At, CheckSegmentedBusy, PostMeshMessage, ReliableMessageTimeout,
         SegmentBlockWaiting, SegmentedMessageTimeout, OnSegmentedMessageComplete,
         ClearSegmentSendingState
<1>3. TypeOK /\ X /\ [Next]_vars => X' \/ ~segBusy'
  <2> SUFFICES ASSUME TypeOK, X, [Next]_vars, ~Advance(Handler) PROVE X'
    BY <1>2
  <2>1. CASE UNCHANGED vars
    BY <2>1 DEF vars, At
  <2>2. ASSUME NEW t \in Threads, Advance(t) \/ Begins(t) PROVE X'
    <3>1. CASE t = Handler
      BY <2>2, <3>1, OneAtATime DEF TypeOK, Idle, At, SegTask
    <3>2. CASE t # Handler
      BY <2>2, <3>2, OneAtATime DEF TypeOK
    <3> QED
      BY <3>1, <3>2
  <2> QED
    BY <2>1, <2>2, SomeThread
<1>4. TypeOK /\ <<Dequeue(Handler, "segmentedMessageTimeoutTask")>>_vars => X'
  BY HandlerGoes DEF TypeOK, Dequeue, Labels, Tasks, SegTask
<1>5. GuardsSuffice => /\ X => ENABLED <<Advance(Handler)>>_vars
                       /\ I /\ Q => ENABLED <<Dequeue(Handler, "segmentedMessageTimeoutTask")>>_vars
  BY DEF GuardsSuffice, Idle, At, SegTask, Tasks
<1>6. X => ~I
  BY DEF At, Idle, SegTask
<1> HIDE DEF I, X, Q
<1> QED
  BY <1>1, <1>2, <1>3, <1>4, <1>5, <1>6, ComesBack, Invariant, TypeCorrect, PTL
     DEF Spec, Fairness, SegmentedEnds, I

-----------------------------------------------------------------------------
(* Liveness: the reliable slot *)

Waits(m) == m \in 1 .. Len(kind) /\ Waiting(m)

\* What can still put off the end of a message: its retries, and the receptions during
\* which its timer is only started again.
Left(m) == retry[m] + 2 * (MaxReceptions - receptions) + (IF receiving THEN 1 ELSE 0)

\* The reliable timer is armed, or its task is running.
Pending == RelTask \in timers \/ At = RelTask

\* What is left of a message is a number.
LEMMA LeftIsNat ==
  ASSUME Typed, NEW m \in Msgs
  PROVE  Left(m) \in 0 .. RetryCnt + 2 * MaxReceptions + 1
<1>1. /\ retry[m] \in 0 .. RetryCnt /\ receptions \in 0 .. MaxReceptions
      /\ RetryCnt \in Nat /\ MaxReceptions \in Nat
  BY ReliableMessageAssumption DEF Typed
<1>2. (IF receiving THEN 1 ELSE 0) \in 0 .. 1
  OBVIOUS
<1> QED
  BY <1>1, <1>2 DEF Left

\* While a message waits no step puts its end off, and the timer stays armed until its task
\* has sent the message again or has found that a reception is under way.
Nearer(m) ==
  \/ Left(m)' < Left(m)
  \/ /\ Left(m)' = Left(m) /\ receiving' = receiving
     /\ relBusy => relBusy'
     /\ relBusy /\ Pending => Pending'
     /\ At = RelTask /\ At' # RelTask => receiving

\* A step of the handler thread does not put off the end of a message.
LEMMA AdvanceNears ==
  ASSUME RelInv, NEW m \in 1 .. Len(kind), Waits(m), Waits(m)', Advance(Handler)
  PROVE  Nearer(m)
<1>0. /\ Typed /\ SlotOK /\ TimersOK /\ PostingOK /\ m \in Msgs /\ Handler \in Threads
      /\ \A label \in Labels : Become(Handler, label) => At' = label
  BY Shape, HandlerGoes, ReliableMessageAssumption DEF RelInv
<1>1. sending = m /\ (relBusy \/ Retrying)
  BY <1>0 DEF SlotOK, Waits
<1>2. CASE CheckSegmentedBusy(Handler)
  <2>1. At = "check" /\ UNCHANGED <<retry, receptions, receiving, relBusy, timers>>
    BY <1>2 DEF CheckSegmentedBusy, slots, At
  <2> QED
    BY <2>1 DEF Nearer, Left, Pending, RelTask
<1>3. CASE PostMeshMessage(Handler)
  <2>1. /\ At = "post" /\ UNCHANGED <<retry, receptions, receiving>>
        /\ timers \subseteq timers' /\ (relBusy => relBusy')
    BY <1>3 DEF PostMeshMessage, Refuse, At
  <2> QED
    BY <2>1 DEF Nearer, Left, Pending, RelTask
<1>4. CASE ReliableMessageTimeout(Handler)
  <2>1. At = RelTask /\ relBusy /\ UNCHANGED <<receptions, receiving>>
    BY <1>0, <1>4 DEF ReliableMessageTimeout, At, RelTask, TimersOK
  <2>2. CASE receiving
    <3>1. RelTask \in timers' /\ UNCHANGED <<retry, relBusy>>
      BY <1>4, <2>2 DEF ReliableMessageTimeout, WaitForReception, KeepReliable, RelTask
    <3> QED
      BY <2>1, <2>2, <3>1 DEF Nearer, Left, Pending
  <2>3. CASE Retry(Handler)
    <3>1. retry'[m] = retry[m] - 1
      BY <1>0, <1>1, <2>3 DEF Retry, Typed
    <3>2. Left(m)' < Left(m)
      BY <1>0, <2>1, <3>1, ReliableMessageAssumption DEF Left, Typed
    <3> QED
      BY <3>2 DEF Nearer
  <2>4. CASE GiveUp(Handler)
    <3>1. reports'[m] = Append(reports[m], FALSE)
      BY <1>0, <1>1, <2>4 DEF GiveUp, OnReliableMessageComplete, ClearReliable, Typed
    <3>2. reports[m] = <<>> /\ reports'[m] = <<>>
      BY DEF Waits, Waiting
    <3> QED
      BY <3>1, <3>2
  <2> QED
    BY <1>4, <2>2, <2>3, <2>4 DEF ReliableMessageTimeout
<1>5. CASE SegmentedMessageTimeout(Handler)
  <2>1. At = SegTask
    BY <1>5 DEF SegmentedMessageTimeout, At, SegTask
  <2>2. relBusy
    BY <1>1, <2>1 DEF Retrying, Posting, At, SegTask
  <2>3. reports'[m] = Append(reports[m], FALSE)
    BY <1>0, <1>1, <1>5, <2>2 DEF SegmentedMessageTimeout, OnSegmentedMessageComplete, ClearReliable, Typed
  <2>4. reports[m] = <<>> /\ reports'[m] = <<>>
    BY DEF Waits, Waiting
  <2> QED
    BY <2>3, <2>4
<1>6. CASE SegmentBlockWaiting(Handler)
  <2>1. /\ At # RelTask /\ UNCHANGED <<retry, receptions, receiving, relBusy>>
        /\ timers \subseteq timers'
    BY <1>6 DEF SegmentBlockWaiting, slots, At, RelTask
  <2> QED
    BY <2>1 DEF Nearer, Left, Pending
<1> QED
  BY <1>2, <1>3, <1>4, <1>5, <1>6 DEF Advance

\* No step does.
LEMMA StepNears ==
  ASSUME RelInv, NEW m \in 1 .. Len(kind), Waits(m), Waits(m)', [Next]_vars
  PROVE  Nearer(m)
<1>0. /\ Typed /\ SlotOK /\ TimersOK /\ PostingOK /\ m \in Msgs /\ Handler \in Threads
      /\ RelTask \notin SegmentTasks
  BY Shape, ReliableMessageAssumption DEF RelInv, RelTask, SegmentTasks
<1>1. sending = m /\ (relBusy \/ Retrying)
  BY <1>0 DEF SlotOK, Waits
<1>2. CASE UNCHANGED vars
  BY <1>2 DEF vars, slots, Nearer, Left, Pending, At
<1>3. CASE Advance(Handler)
  BY <1>3, AdvanceNears
<1>4. ASSUME NEW t \in Threads, t # Handler, Advance(t) PROVE Nearer(m)
  <2>1. At' = At
    BY <1>0, <1>4, OneAtATime
  <2>2. CheckSegmentedBusy(t) \/ PostMeshMessage(t)
    BY <1>0, <1>4, TaskRuns
       DEF Advance, ReliableMessageTimeout, SegmentedMessageTimeout, SegmentBlockWaiting, Tasks
  <2>3. UNCHANGED <<retry, receptions, receiving>> /\ timers \subseteq timers' /\ (relBusy => relBusy')
    <3>1. CASE CheckSegmentedBusy(t)
      BY <3>1 DEF CheckSegmentedBusy, slots
    <3>2. CASE PostMeshMessage(t)
      BY <3>2 DEF PostMeshMessage
    <3> QED
      BY <2>2, <3>1, <3>2
  <2> QED
    BY <2>1, <2>3 DEF Nearer, Left, Pending
<1>5. ASSUME NEW t \in Threads, Begins(t) PROVE Nearer(m)
  <2>2. CASE Send(t)
    <3>1. At' # RelTask => At # RelTask
      BY <1>0, <2>2, OneAtATime DEF Send, Begins, Idle, At, RelTask
    <3>2. At = RelTask => At' = RelTask
      BY <3>1
    <3> QED
      BY <2>2, <3>2 DEF Send, slots, Nearer, Left, Pending
  <2>3. CASE BeginReception(t)
    <3>1. retry'[m] = retry[m] /\ receptions' = receptions + 1 /\ receiving' /\ ~receiving
      BY <2>3 DEF BeginReception
    <3>2. Left(m)' < Left(m)
      BY <1>0, <3>1, ReliableMessageAssumption DEF Left, Typed
    <3> QED
      BY <3>2 DEF Nearer
  <2>4. CASE EndReception(t)
    <3>1. retry'[m] = retry[m] /\ receptions' = receptions /\ ~receiving' /\ receiving
      BY <2>4 DEF EndReception
    <3>2. Left(m)' < Left(m)
      BY <1>0, <3>1, ReliableMessageAssumption DEF Left, Typed
    <3> QED
      BY <3>2 DEF Nearer
  <2>5. CASE Clear(t)
    <3>1. status'[m] = "cleared"
      BY <1>0, <2>5 DEF Clear, Waits, Waiting
    <3> QED
      BY <3>1 DEF Waits, Waiting
  <2>6. ASSUME NEW p \in DOMAIN posts, NEW all \in BOOLEAN, OnSegmentAckMessageReceived(t, p, all)
        PROVE  Nearer(m)
    <3>1. UNCHANGED <<retry, receptions, receiving, pc>>
      BY <2>6 DEF OnSegmentAckMessageReceived
    <3>2. /\ UNCHANGED relBusy
          /\ RelTask \in timers => RelTask \in timers'
      BY <1>0, <2>6 DEF OnSegmentAckMessageReceived, OnSegmentedMessageComplete, KeepReliable, RelTask
    <3> QED
      BY <3>1, <3>2 DEF Nearer, Left, Pending, At
  <2>7. ASSUME NEW n \in Nodes, UpdateReliableMessage(t, n) PROVE Nearer(m)
    <3>1. CASE OnReliableMessageComplete(TRUE)
      <4>1. reports'[m] = Append(reports[m], TRUE)
        BY <1>0, <1>1, <3>1 DEF OnReliableMessageComplete, ClearReliable, Typed
      <4>2. reports[m] = <<>> /\ reports'[m] = <<>>
        BY DEF Waits, Waiting
      <4> QED
        BY <4>1, <4>2
    <3>2. CASE ~OnReliableMessageComplete(TRUE)
      <4>1. UNCHANGED <<retry, receptions, receiving, relBusy, pc, timers>>
        BY <2>7, <3>2 DEF UpdateReliableMessage
      <4> QED
        BY <4>1 DEF Nearer, Left, Pending, At
    <3> QED
      BY <3>1, <3>2
  <2>8. ASSUME NEW task \in Tasks, Dequeue(t, task) PROVE Nearer(m)
    <3>1. /\ UNCHANGED <<retry, receptions, receiving, relBusy>>
          /\ timers' = timers \ {task} /\ At' = task /\ At # RelTask
      BY <1>0, <2>8, HandlerGoes DEF Dequeue, slots, Labels, Idle, At, RelTask
    <3> QED
      BY <3>1 DEF Nearer, Left, Pending
  <2> QED
    BY <1>5, <2>2, <2>3, <2>4, <2>5, <2>6, <2>7, <2>8 DEF Begins
<1> QED
  BY <1>2, <1>3, <1>4, <1>5, SomeThread

\* While a message waits, its end comes nearer.
LEMMA WaitsOn ==
  ASSUME NEW m \in Msgs, NEW n \in Nat
  PROVE  Spec /\ []GuardsSuffice => ((Waits(m) /\ Left(m) = n) ~> (~Waits(m) \/ Left(m) < n \/ raced))
<1> DEFINE A == Waits(m)
           P == Left(m) = n
           L == Left(m) < n
           I == Idle(Handler)
           B == relBusy
           Q == Pending
           R == receiving
           X == At = RelTask
           T == RelTask \in timers
           E == \E t \in Threads : EndReception(t)
<1>1. ASSUME RelInv, A, A', P, [Next]_vars
      PROVE  L' \/ (P' /\ (R <=> R') /\ (B => B') /\ (B /\ Q => Q') /\ (X /\ ~R => X'))
  <2>1. Nearer(m)
    BY <1>1, StepNears DEF Waits
  <2>2. Left(m) \in Nat
    BY <1>1, LeftIsNat, ReliableMessageAssumption DEF RelInv
  <2> QED
    BY <1>1, <2>1, <2>2 DEF Nearer
<1>2. RelInv /\ A /\ P /\ [Next]_vars
        => ~A' \/ L' \/ (P' /\ (R <=> R') /\ (B => B') /\ (B /\ Q => Q') /\ (X /\ ~R => X'))
  BY <1>1
<1>3. RelInv /\ A /\ I => B
  BY DEF RelInv, SlotOK, Waits, Retrying, Posting, Idle
<1>4. RelInv /\ B /\ ~segBusy => Q
  BY DEF RelInv, TimersOK, Pending
<1>5. Q <=> T \/ X
  BY DEF Pending
<1>6. <<E>>_vars => R /\ ~R'
  BY DEF EndReception
<1>7. RelInv /\ X /\ <<Advance(Handler)>>_vars => ~X'
  BY Advances DEF RelInv, RelTask
<1>8. RelInv /\ <<Dequeue(Handler, "reliableMessageTimeoutTask")>>_vars => X'
  BY HandlerGoes DEF RelInv, Dequeue, Labels, Tasks, RelTask
<1>9. GuardsSuffice => /\ X => ENABLED <<Advance(Handler)>>_vars
                       /\ I /\ R => ENABLED <<E>>_vars
                       /\ I /\ T => ENABLED <<Dequeue(Handler, "reliableMessageTimeoutTask")>>_vars
  BY DEF GuardsSuffice, Idle, At, RelTask
<1>10. Spec /\ []GuardsSuffice => []<>I
  BY ComesBack
<1> HIDE DEF A, P, L, I, B, Q, R, X, T
<1> QED
  BY <1>2, <1>3, <1>4, <1>5, <1>6, <1>7, <1>8, <1>9, <1>10, SegmentsAreThrough, Invariant, PTL
     DEF Spec, Fairness, SegmentedEnds, A, P, L

\* Induction over the natural numbers, for what is the case of those where a function is 1.
LEMMA Induction ==
  ASSUME NEW F, F[0] = 1, \A n \in Nat : F[n] = 1 => F[n + 1] = 1
  PROVE  \A n \in Nat : F[n] = 1
<1> SUFFICES ASSUME NEW k \in Nat, F[k] # 1 PROVE FALSE
  OBVIOUS
<1> DEFINE S == {n \in Nat : F[n] # 1}
<1>1. PICK m \in S : \A j \in S : <<j, m>> \notin OpToRel(<, Nat)
  BY NatLessThanWellFounded, WFMin
<1>2. m \in Nat /\ m # 0
  BY <1>1
<1> HIDE DEF S
<1>3. m - 1 \in Nat /\ m - 1 < m /\ (m - 1) + 1 = m
  BY <1>2
<1>4. m - 1 \notin S
  BY <1>1, <1>2, <1>3 DEF OpToRel
<1> QED
  BY <1>1, <1>3, <1>4 DEF S

\* Says nothing of f, and lets a proof name it.
Named(f) == TRUE


Leaves(m, n) == (Waits(m) /\ Left(m) < n) ~> (~Waits(m) \/ raced)

\* EveryMessageEnds: unless the threads race, neither slot stays taken, whatever they send and
\* receive meanwhile, after any number of retries and of receptions.
THEOREM MessagesEnd ==
  Spec /\ []GuardsSuffice => EveryMessageEnds
<1> DEFINE Most == RetryCnt + 2 * MaxReceptions + 2
<1>1. ASSUME NEW m \in Msgs
      PROVE  Spec /\ []GuardsSuffice => (Waits(m) ~> (~Waits(m) \/ raced))
  <2>1. RelInv => Left(m) \in Nat /\ ~(Left(m) < 0) /\ Left(m) < Most
    BY LeftIsNat, ReliableMessageAssumption DEF RelInv
  <2>2. Spec => [](raced \/ RelInv)
    BY Invariant
  <2>3. Spec => Leaves(m, 0)
    BY <2>1, <2>2, PTL DEF Leaves
  <2>4. ASSUME NEW n \in Nat
        PROVE  Spec /\ []GuardsSuffice /\ Leaves(m, n) => Leaves(m, n + 1)
    <3>1. Spec /\ []GuardsSuffice => ((Waits(m) /\ Left(m) = n) ~> (~Waits(m) \/ Left(m) < n \/ raced))
      BY WaitsOn
    <3>2. RelInv /\ Left(m) < n + 1 => Left(m) = n \/ Left(m) < n
      BY <2>1
    <3> QED
      BY <2>2, <3>1, <3>2, PTL DEF Leaves
  <2>5. Spec /\ []GuardsSuffice => Leaves(m, Most)
    <3> SUFFICES ASSUME Spec /\ []GuardsSuffice PROVE Leaves(m, Most)
      OBVIOUS
    <3>1. PICK F : Named(F) /\ \A n \in Nat : F[n] = 1 <=> Leaves(m, n)
      <4>1. Named([n \in Nat |-> IF Leaves(m, n) THEN 1 ELSE 0])
        BY DEF Named
      <4> QED
        BY <4>1
    <3>2. F[0] = 1
      BY <2>3, <3>1
    <3>3. \A n \in Nat : F[n] = 1 => F[n + 1] = 1
      BY <2>4, <3>1
    <3>4. \A n \in Nat : F[n] = 1
      BY <3>2, <3>3, Induction
    <3>5. Most \in Nat
      BY ReliableMessageAssumption
    <3> QED
      BY <3>1, <3>4, <3>5
  <2> QED
    BY <2>1, <2>2, <2>5, PTL DEF Leaves
<1>2. ASSUME NEW m \in Msgs
      PROVE  Spec /\ []GuardsSuffice => ((m <= Len(kind) /\ Waiting(m)) ~> (~Waiting(m) \/ raced))
  <2>1. RelInv /\ m <= Len(kind) /\ Waiting(m) => Waits(m)
    BY Shape DEF RelInv, Waits, Msgs
  <2>2. RelInv /\ ~Waits(m) => ~Waiting(m)
    <3>1. RelInv => Len(kind) \in Nat /\ (m \notin 1 .. Len(kind) => status[m] = "new")
      BY Shape DEF RelInv, Numbered, Msgs
    <3> QED
      BY <3>1 DEF Waits, Waiting
  <2> QED
    BY <1>1, <2>1, <2>2, Invariant, PTL
<1>3. Spec /\ []GuardsSuffice => ReliableEnds
  BY <1>2 DEF ReliableEnds
<1> QED
  BY <1>3, SegmentsAreThrough DEF EveryMessageEnds
=============================================================================
