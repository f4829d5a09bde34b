-------------------------- MODULE Telegram_proofs ---------------------------
(***************************************************************************)
(* Proofs about the Telegram bot: its life cycle under the page, the tick  *)
(* and the worker (TelegramApp), and the service's two connections and the *)
(* updates that come over one of them (TelegramLink); for queues of any    *)
(* length, any number of retries, saves, batches, alerts and restarts, and *)
(* however often a request fails.  Then who is answered and what is        *)
(* repeated: the strangers the service tells their number                  *)
(* (TelegramDispatch), and the bulletins the station routes once a window  *)
(* (NoticeRoutes).                                                         *)
(***************************************************************************)
EXTENDS TelegramApp, TelegramLink, TelegramDispatch, NoticeRoutes, FiniteSetTheorems, TLAPS

-----------------------------------------------------------------------------
(* The application: the queue of lines and the notice of the start *)

AppTypes ==
  /\ {busy, stranded} \subseteq BOOLEAN
  /\ {queue, asking, kicks, sent} \subseteq Nat
  /\ notice \in [owed : BOOLEAN, pending : BOOLEAN, done : BOOLEAN, wait : Nat, giveup : Nat]

\* One worker, and it or its creation holds the slot.
OneWorker ==
  /\ creating # "no" => busy /\ wk = "none"
  /\ wk # "none" => busy

\* Of the one notice a boot has, none is left once it was sent.
NoticeLeft ==
  /\ sent = 0 \/ (sent = 1 /\ ~notice.pending /\ ~notice.owed)
  /\ notice.owed => ~notice.pending
  /\ ~notice.done => sent = 0 /\ ~notice.pending /\ ~notice.owed

AppInv == AppTypes /\ OneWorker /\ NoticeLeft /\ NothingStranded

LEMMA NoticeLeftIsOnce == AppTypes /\ NoticeLeft => NoticeOnce
<1> SUFFICES ASSUME AppTypes, NoticeLeft PROVE NoticeOnce
  OBVIOUS
<1>1. notice.pending \in BOOLEAN /\ notice.owed \in BOOLEAN
  BY DEF AppTypes
<1>2. CASE sent = 0
  <2>1. CASE notice.pending
    BY <1>1, <1>2, <2>1 DEF NoticeLeft, NoticeOnce
  <2>2. CASE ~notice.pending
    BY <1>1, <1>2, <2>2 DEF NoticeLeft, NoticeOnce
  <2> QED
    BY <1>1, <2>1, <2>2
<1>3. CASE sent = 1 /\ ~notice.pending /\ ~notice.owed
  BY <1>1, <1>3 DEF NoticeOnce
<1> QED
  BY <1>2, <1>3 DEF NoticeLeft

LEMMA AppInit == Init => AppInv
<1> SUFFICES ASSUME Init PROVE AppInv
  OBVIOUS
<1>1. /\ busy = FALSE /\ stranded = FALSE /\ creating = "no" /\ wk = "none"
      /\ queue = 0 /\ asking = 0 /\ kicks = 0 /\ sent = 0 /\ notice = NoNotice
  BY DEF Init
<1>2. notice \in [owed : BOOLEAN, pending : BOOLEAN, done : BOOLEAN, wait : Nat, giveup : Nat]
  BY <1>1 DEF NoNotice
<1>3. ~notice.owed /\ ~notice.pending /\ ~notice.done
  BY <1>1 DEF NoNotice
<1>4. AppTypes
  <2>1. busy \in BOOLEAN /\ stranded \in BOOLEAN
    BY <1>1
  <2>2. {busy, stranded} \subseteq BOOLEAN
    BY <2>1, Zenon
  <2>3. {queue, asking, kicks, sent} \subseteq Nat
    BY <1>1
  <2> QED
    BY <1>2, <2>2, <2>3 DEF AppTypes
<1>5. OneWorker /\ NoticeLeft
  BY <1>1, <1>3 DEF OneWorker, NoticeLeft
<1>6. NothingStranded
  BY <1>1 DEF NothingStranded
<1> QED
  BY <1>4, <1>5, <1>6 DEF AppInv

\* A claim takes the slot, or finds a worker that has it.
LEMMA ClaimKeeps ==
  ASSUME NEW what, what # "no", AppTypes, OneWorker, Claim(what), UNCHANGED wk
  PROVE  busy' = TRUE /\ OneWorker'
<1>1. busy \in BOOLEAN
  BY DEF AppTypes
<1>2. CASE busy
  BY <1>1, <1>2 DEF Claim, OneWorker
<1>3. CASE ~busy
  BY <1>3 DEF Claim, OneWorker
<1> QED
  BY <1>2, <1>3

LEMMA AppStep == AppInv /\ [Next]_vars => AppInv'
<1> SUFFICES ASSUME AppInv, [Next]_vars PROVE AppInv'
  OBVIOUS
<1> USE AppAssumption
<1> DEFINE Slot == <<busy, creating, wk>>
           Rest == <<queue, asking, kicks, stranded>>
           Left == <<sent, notice>>
<1>a. UNCHANGED Slot => OneWorker'
  BY DEF AppInv, OneWorker
<1>b. UNCHANGED Left => NoticeLeft'
  BY DEF AppInv, NoticeLeft
<1>c. UNCHANGED Rest /\ (busy' = busy \/ busy' = TRUE) => NothingStranded'
  BY DEF AppInv, NothingStranded
<1>d. UNCHANGED <<Slot, Rest, Left>> => AppInv'
  BY <1>a, <1>b, <1>c DEF AppInv, AppTypes
<1>e. /\ busy \in BOOLEAN /\ stranded \in BOOLEAN
      /\ queue \in Nat /\ asking \in Nat /\ kicks \in Nat /\ sent \in Nat
      /\ notice \in [owed : BOOLEAN, pending : BOOLEAN, done : BOOLEAN, wait : Nat, giveup : Nat]
  BY DEF AppInv, AppTypes
<1>f. wk # "none" => busy /\ creating = "no"
  BY DEF AppInv, OneWorker
\* a worker on its way keeps the slot
<1>g. ASSUME wk # "none", UNCHANGED <<busy, creating, Rest, Left>> PROVE AppInv'
  <2>1. OneWorker'
    BY <1>f, <1>g DEF OneWorker
  <2> QED
    BY <1>b, <1>c, <1>g, <2>1 DEF AppInv, AppTypes
<1>1. ASSUME NEW enable \in BOOLEAN, NEW token \in Tokens, Publish(enable, token) PROVE AppInv'
  BY <1>d, <1>1 DEF Publish, spawning, worker, ghosts
<1>2. CASE Unreadable
  BY <1>d, <1>2 DEF Unreadable, spawning, worker, ghosts
<1>3. CASE Order
  BY <1>d, <1>3 DEF Order, spawning, worker
<1>4. CASE Ask
  <2>1. busy' = TRUE /\ OneWorker'
    BY <1>4, ClaimKeeps DEF Ask, worker, AppInv
  <2>2. NothingStranded'
    BY <2>1 DEF NothingStranded
  <2>3. NoticeLeft'
    BY <1>4, <1>b DEF Ask, ghosts
  <2>4. asking' \in Nat /\ UNCHANGED <<queue, kicks, sent, notice, stranded>>
    BY <1>4, <1>e DEF Ask, ghosts, worker
  <2> QED
    BY <1>e, <2>1, <2>2, <2>3, <2>4 DEF AppInv, AppTypes
<1>5. CASE Created
  <2>1. busy' = busy /\ busy /\ creating' = "no" /\ stranded' = FALSE
    BY <1>5 DEF Created, AppInv, OneWorker
  <2>2. OneWorker'
    BY <2>1 DEF OneWorker
  <2>3. NothingStranded'
    BY <2>1 DEF NothingStranded
  <2>4. NoticeLeft' /\ UNCHANGED <<queue, asking, kicks, sent, notice>>
    BY <1>5, <1>b DEF Created
  <2> QED
    BY <1>e, <2>1, <2>2, <2>3, <2>4 DEF AppInv, AppTypes
<1>6. CASE NotCreated
  <2>1. busy' = FALSE /\ creating' = "no" /\ stranded' = TRUE /\ wk' = wk /\ wk = "none"
    BY <1>6 DEF NotCreated, worker, AppInv, OneWorker
  <2>2. OneWorker'
    BY <2>1 DEF OneWorker
  <2>3. NothingStranded'
    BY <2>1 DEF NothingStranded
  <2>4. NoticeLeft' /\ UNCHANGED <<queue, asking, kicks, sent, notice>>
    BY <1>6, <1>b DEF NotCreated, worker
  <2> QED
    BY <1>e, <2>1, <2>2, <2>3, <2>4 DEF AppInv, AppTypes
<1>7. CASE TickOrder
  BY <1>d, <1>7 DEF TickOrder, worker, ghosts
<1>8. CASE TickClaims
  <2>1. CASE tickAction = "no"
    <3>1. creating # "no" => busy
      BY DEF AppInv, OneWorker
    <3>2. OneWorker' /\ busy' = TRUE
      BY <1>8, <1>e, <2>1, <3>1 DEF TickClaims, Claim, worker, AppInv, OneWorker
    <3>3. NothingStranded'
      BY <3>2 DEF NothingStranded
    <3>4. NoticeLeft' /\ UNCHANGED <<queue, asking, kicks, sent, notice, stranded>>
      BY <1>8, <1>b DEF TickClaims, ghosts, worker
    <3> QED
      BY <1>e, <3>2, <3>3, <3>4 DEF AppInv, AppTypes
  <2>2. CASE tickAction # "no"
    <3>1. busy' = TRUE /\ OneWorker'
      BY <1>8, <2>2, ClaimKeeps DEF TickClaims, worker, AppInv
    <3>2. NothingStranded'
      BY <3>1 DEF NothingStranded
    <3>3. NoticeLeft' /\ UNCHANGED <<queue, asking, kicks, sent, notice, stranded>>
      BY <1>8, <1>b DEF TickClaims, ghosts, worker
    <3> QED
      BY <1>e, <3>1, <3>2, <3>3 DEF AppInv, AppTypes
  <2> QED
    BY <2>1, <2>2
<1>9. CASE TickClears
  BY <1>d, <1>9 DEF TickClears, worker, ghosts
<1>10. CASE TickService
  BY <1>d, <1>10 DEF TickService, worker, ghosts
<1>11. CASE TickNotice
  <2> DEFINE less == IF notice.giveup > 0 THEN notice.giveup - 1 ELSE 0
  <2>1. less \in Nat
    BY <1>e
  <2>2. notice.owed /\ ~notice.pending /\ notice.done /\ sent = 0
    BY <1>11, <1>e DEF TickNotice, AppInv, NoticeLeft
  <2>3. \/ notice' = [notice EXCEPT !.giveup = 0, !.owed = FALSE]
        \/ notice.wait > 0 /\ notice' = [notice EXCEPT !.giveup = less, !.wait = @ - 1]
        \/ notice' = [notice EXCEPT !.giveup = less]
        \/ notice' = [notice EXCEPT !.giveup = less, !.owed = FALSE, !.pending = TRUE]
    BY <1>11 DEF TickNotice
  <2>4. UNCHANGED <<Slot, Rest, sent>>
    BY <1>11 DEF TickNotice, worker, ghosts
  <2>5. /\ notice' \in [owed : BOOLEAN, pending : BOOLEAN, done : BOOLEAN, wait : Nat, giveup : Nat]
        /\ notice'.done /\ (notice'.owed => ~notice'.pending)
    <3>1. CASE notice' = [notice EXCEPT !.giveup = 0, !.owed = FALSE]
      BY <1>e, <2>2, <3>1, Zenon
    <3>2. CASE notice.wait > 0 /\ notice' = [notice EXCEPT !.giveup = less, !.wait = @ - 1]
      <4>1. notice.wait - 1 \in Nat
        BY <1>e, <3>2
      <4> HIDE DEF less
      <4> QED
        BY <1>e, <2>1, <2>2, <3>2, <4>1, Zenon
    <3>3. CASE notice' = [notice EXCEPT !.giveup = less]
      <4> HIDE DEF less
      <4> QED
        BY <1>e, <2>1, <2>2, <3>3, Zenon
    <3>4. CASE notice' = [notice EXCEPT !.giveup = less, !.owed = FALSE, !.pending = TRUE]
      <4> HIDE DEF less
      <4> QED
        BY <1>e, <2>1, <2>2, <3>4, Zenon
    <3> QED
      BY <2>3, <3>1, <3>2, <3>3, <3>4
  <2>6. NoticeLeft'
    BY <2>2, <2>4, <2>5 DEF NoticeLeft
  <2> QED
    BY <1>a, <1>c, <1>e, <2>4, <2>5, <2>6 DEF AppInv, AppTypes
<1>12. CASE TickRetry
  BY <1>d, <1>12 DEF TickRetry, worker, ghosts
<1>13. CASE Teardown
  BY <1>d, <1>13 DEF Teardown, spawning, worker, ghosts
<1>14. CASE Stopped
  BY <1>g, <1>14 DEF Stopped, spawning, ghosts
<1>15. CASE Snapshot
  BY <1>g, <1>15 DEF Snapshot, spawning, ghosts
<1>16. CASE Connect
  BY <1>g, <1>16 DEF Connect, spawning, ghosts
<1>17. CASE Verify
  BY <1>g, <1>17 DEF Verify, spawning, ghosts
<1>18. CASE Start
  <2>1. UNCHANGED <<busy, creating, Rest, sent>> /\ wk # "none"
    BY <1>18 DEF Start, spawning, ghosts
  <2>2. OneWorker' /\ NothingStranded'
    BY <1>c, <1>f, <2>1 DEF OneWorker
  <2>3. CASE notice.done
    <3>1. notice' = notice
      BY <1>18, <2>3 DEF Start, Armed
    <3> QED
      BY <1>b, <1>e, <2>1, <2>2, <3>1 DEF AppInv, AppTypes
  <2>4. CASE ~notice.done
    <3>1. notice' = [notice EXCEPT !.owed = TRUE, !.done = TRUE, !.wait = NoticeWait,
                                   !.giveup = NoticeGiveUp]
      BY <1>18, <2>4 DEF Start, Armed
    <3>2. NoticeWait \in Nat /\ NoticeGiveUp \in Nat
      BY DEF AppAssumption
    <3>3. /\ notice' \in [owed : BOOLEAN, pending : BOOLEAN, done : BOOLEAN, wait : Nat, giveup : Nat]
          /\ notice'.done /\ notice'.pending = notice.pending
      BY <1>e, <3>1, <3>2, Zenon
    <3>4. sent = 0 /\ ~notice.pending
      BY <2>4 DEF AppInv, NoticeLeft
    <3>5. NoticeLeft'
      BY <2>1, <3>3, <3>4 DEF NoticeLeft
    <3> QED
      BY <1>e, <2>1, <2>2, <3>3, <3>5 DEF AppInv, AppTypes
  <2> QED
    BY <2>3, <2>4
<1>19. CASE SendNotice
  <2>1. notice.pending /\ notice' = [notice EXCEPT !.pending = FALSE] /\ sent' = sent + 1
    BY <1>19 DEF SendNotice
  <2>2. sent = 0 /\ ~notice.owed /\ notice.done
    BY <1>e, <2>1 DEF AppInv, NoticeLeft
  <2>3. /\ notice' \in [owed : BOOLEAN, pending : BOOLEAN, done : BOOLEAN, wait : Nat, giveup : Nat]
        /\ ~notice'.pending /\ ~notice'.owed /\ notice'.done /\ sent' = 1
    <3>1. /\ notice' \in [owed : BOOLEAN, pending : BOOLEAN, done : BOOLEAN, wait : Nat, giveup : Nat]
          /\ ~notice'.pending /\ ~notice'.owed /\ notice'.done
      BY <1>e, <2>1, <2>2, Zenon
    <3>2. sent' = 1
      BY <2>1, <2>2
    <3> QED
      BY <3>1, <3>2
  <2>4. NoticeLeft'
    BY <2>3 DEF NoticeLeft
  <2>5. UNCHANGED <<Slot, Rest>>
    BY <1>19 DEF SendNotice, spawning, worker
  <2> QED
    BY <1>a, <1>c, <1>e, <2>3, <2>4, <2>5 DEF AppInv, AppTypes
<1>20. CASE Drain
  <2>1. UNCHANGED <<busy, creating, asking, kicks, stranded, Left>> /\ wk # "none" /\ wk' # "none"
    BY <1>20 DEF Drain, spawning, ghosts
  <2>2. queue' \in Nat
    BY <1>20, <1>e DEF Drain
  <2>3. OneWorker'
    BY <1>f, <2>1 DEF OneWorker
  <2>4. NothingStranded'
    BY <1>f, <2>1 DEF NothingStranded
  <2> QED
    BY <1>b, <1>e, <2>1, <2>2, <2>3, <2>4 DEF AppInv, AppTypes
<1>21. CASE Release
  <2>1. wk' = "none" /\ busy' = FALSE /\ kicks' = kicks + 1 /\ creating' = creating /\ creating = "no"
    BY <1>f, <1>21 DEF Release
  <2>2. UNCHANGED <<queue, asking, stranded, Left>>
    BY <1>21 DEF Release, ghosts
  <2>3. OneWorker'
    BY <2>1 DEF OneWorker
  <2>4. kicks' > 0 /\ kicks' \in Nat
    BY <1>e, <2>1
  <2>5. NothingStranded'
    BY <2>4 DEF NothingStranded
  <2> QED
    BY <1>b, <1>e, <2>1, <2>2, <2>3, <2>4, <2>5 DEF AppInv, AppTypes
<1>22. CASE Kick
  <2>1. kicks > 0 /\ kicks' = kicks - 1 /\ asking' = IF queue > 0 THEN asking + 1 ELSE asking
    BY <1>22 DEF Kick, Kicks
  <2>2. UNCHANGED <<Slot, queue, stranded, Left>>
    BY <1>22 DEF Kick, ghosts
  <2>3. asking' \in Nat /\ kicks' \in Nat /\ (queue > 0 => asking' > 0)
    BY <1>e, <2>1
  <2>4. NothingStranded'
    BY <2>2, <2>3 DEF NothingStranded
  <2> QED
    BY <1>a, <1>b, <1>e, <2>2, <2>3, <2>4 DEF AppInv, AppTypes
<1>23. CASE ConnectFails
  <2>1. wk # "none"
    BY <1>23 DEF ConnectFails
  <2> QED
    BY <1>g, <1>23, <2>1 DEF ConnectFails, spawning, ghosts
<1>24. CASE StartFails
  BY <1>g, <1>24 DEF StartFails, spawning, ghosts
<1>25. CASE Notify
  <2>1. UNCHANGED <<Slot, kicks, stranded, Left>>
    BY <1>25 DEF Notify, worker, ghosts
  <2>2. CASE queue < QueueLen
    <3>1. queue' = queue + 1 /\ asking' = asking + 1
      BY <1>25, <2>2 DEF Notify
    <3>2. queue' \in Nat /\ asking' \in Nat /\ asking' > 0
      BY <1>e, <3>1
    <3>3. NothingStranded'
      BY <3>2 DEF NothingStranded
    <3> QED
      BY <1>a, <1>b, <1>e, <2>1, <3>2, <3>3 DEF AppInv, AppTypes
  <2>3. CASE ~(queue < QueueLen)
    BY <1>d, <1>25, <2>1, <2>3 DEF Notify
  <2> QED
    BY <2>2, <2>3
<1>26. CASE PollingEnds
  BY <1>d, <1>26 DEF PollingEnds, spawning, worker, ghosts
<1>27. CASE UNCHANGED vars
  BY <1>d, <1>27 DEF vars, spawning, worker, ghosts
<1> QED
  BY <1>1, <1>2, <1>3, <1>4, <1>5, <1>6, <1>7, <1>8, <1>9, <1>10, <1>11, <1>12, <1>13, <1>14,
     <1>15, <1>16, <1>17, <1>18, <1>19, <1>20, <1>21, <1>22, <1>23, <1>24, <1>25, <1>26, <1>27
     DEF Next, Tick, Work

\* No line of the queue is forgotten and no notice is sent twice, whoever saves the page,
\* starts, stops or releases the bot in between (telegram_app.c:482-580, 1946-1984).
THEOREM AppKept == Spec => []AppSound
<1>1. AppInv => AppSound
  BY NoticeLeftIsOnce DEF AppInv, AppSound
<1> QED
  BY AppInit, AppStep, <1>1, PTL DEF Spec

-----------------------------------------------------------------------------
(* The two connections *)

Places == {"none", "idle", "starting", "top", "drain", "redrain", "reclaim", "poll", "polling",
           "handle", "next", "send", "sending", "upload", "uploading", "sent", "stopping"}

LinkTypes ==
  /\ at \in [Tasks -> Places]
  /\ then \in {"reply", "drain", "redrain"}
  /\ owner \in [Clients -> Tasks \cup {"none"}]
  /\ open \in [Clients -> BOOLEAN]
  /\ attempt \in [Clients -> Nat]
  /\ left \in [Tasks -> Int]
  /\ depth \in Int /\ paid \in Nat /\ excused \in Nat /\ late \in Nat
  /\ running \in BOOLEAN /\ up \in BOOLEAN /\ whole \in BOOLEAN /\ torn \in BOOLEAN

\* Nothing of an earlier attempt waits in a buffer.
NothingKept == answer = [c \in Clients |-> <<>>] /\ cut = [c \in Clients |-> FALSE]

\* The flag is up as long as there is a task, and there is one only with the handles.
FlagTells ==
  /\ at["service"] # "none" => running /\ up
  /\ at["worker"] \in {"idle", "stopping", "next", "send", "sending", "upload", "uploading", "sent"}

\* The batches that are open: the worker's, the service's pass, and an alert's inside it.
Group == {"next", "send", "sending", "upload", "uploading", "sent"}
WorkerDepth(w) == IF w \in Group THEN 1 ELSE 0
ServiceDepth(s, goal) ==
  IF s \in {"drain", "redrain"} THEN 1 ELSE IF s \in Group /\ goal # "reply" THEN 2 ELSE 0
DepthIs == depth = WorkerDepth(at["worker"]) + ServiceDepth(at["service"], then)

\* A session that is open was paid for once; one that was lost is excused.
Paid == depth > 0 => paid <= excused + (IF open["tx"] THEN 1 ELSE 0)

LinkInv ==
  /\ LinkTypes /\ NothingKept /\ whole
  /\ late = 0 => FlagTells /\ DepthIs /\ Paid /\ ~torn

\* What a request collects came with one attempt, and is cut only for room.
LEMMA CollectedIsWhole ==
  ASSUME NothingKept, LinkTypes, NEW c \in Clients, NEW n \in 0 .. Pieces
  PROVE  WholeAnswer(c, n)
<1> DEFINE f == [i \in 1 .. n |-> attempt[c]]
           w == Collected(c, n)
           k == IF Len(w) < Room THEN Len(w) ELSE Room
<1>1. n \in Nat /\ Room \in Nat
  BY LinkAssumption DEF LinkAssumption
<1>2. f \in Seq(Nat) /\ Len(f) = n /\ \A i \in 1 .. n : f[i] = attempt[c]
  BY <1>1 DEF LinkTypes
<1>3. w = f
  <2>1. w = <<>> \o f
    BY DEF Collected, NothingKept
  <2> HIDE DEF f, w
  <2> QED
    BY <1>2, <2>1
<1> HIDE DEF f, w
<1>4. k \in Nat /\ k <= n
  BY <1>1, <1>2, <1>3
<1>5. Kept(w) = SubSeq(w, 1, k)
  BY DEF Kept
<1> HIDE DEF k
<1>6. Len(Kept(w)) = k /\ DOMAIN Kept(w) = 1 .. k /\ \A i \in 1 .. k : Kept(w)[i] = w[i]
  BY <1>1, <1>2, <1>3, <1>4, <1>5
<1>7. \A i \in DOMAIN Kept(w) : Kept(w)[i] = attempt[c]
  BY <1>2, <1>3, <1>4, <1>6
<1>8. (cut[c] \/ Len(w) > Room) <=> n > Room
  BY <1>2, <1>3 DEF NothingKept
<1> QED
  BY <1>7, <1>8 DEF WholeAnswer, w

LEMMA LinkFirst == LinkInit => LinkInv
<1> SUFFICES ASSUME LinkInit PROVE LinkInv
  OBVIOUS
<1>1. LinkTypes
  <2>1. at \in [Tasks -> Places] /\ left \in [Tasks -> Int]
    BY DEF LinkInit, Tasks, Places
  <2>2. /\ owner \in [Clients -> Tasks \cup {"none"}] /\ open \in [Clients -> BOOLEAN]
        /\ attempt \in [Clients -> Nat]
    BY DEF LinkInit
  <2>3. then \in {"reply", "drain", "redrain"} /\ depth \in Int /\ paid \in Nat /\ excused \in Nat
    BY DEF LinkInit
  <2>4. late \in Nat /\ running \in BOOLEAN /\ up \in BOOLEAN /\ whole \in BOOLEAN /\ torn \in BOOLEAN
    BY DEF LinkInit
  <2> QED
    BY <2>1, <2>2, <2>3, <2>4 DEF LinkTypes
<1>2. NothingKept /\ whole
  BY DEF LinkInit, NothingKept
<1>3. FlagTells
  BY DEF LinkInit, FlagTells, Tasks
<1>4. DepthIs
  BY DEF LinkInit, DepthIs, WorkerDepth, ServiceDepth, Group, Tasks
<1>5. Paid /\ ~torn
  BY DEF LinkInit, Paid
<1> QED
  BY <1>1, <1>2, <1>3, <1>4, <1>5 DEF LinkInv

WorkerPlaces == {"idle", "stopping"} \cup Group

\* A task that goes on inside a group, or outside any batch.
LEMMA PlacesGoOn ==
  ASSUME LinkTypes, FlagTells, DepthIs, NEW t \in Tasks, NEW p \in Places,
         at' = [at EXCEPT ![t] = p], UNCHANGED <<then, depth, running, up>>,
         at[t] # "none", t = "worker" => p \in WorkerPlaces,
         \/ at[t] \in Group /\ p \in Group
         \/ {at[t], p} \cap (Group \cup {"drain", "redrain"}) = {}
  PROVE  FlagTells' /\ DepthIs'
<1>1. CASE t = "service"
  <2>1. at'["service"] = p /\ at'["worker"] = at["worker"]
    BY <1>1 DEF LinkTypes, Tasks
  <2>2. FlagTells'
    BY <1>1, <2>1 DEF FlagTells
  <2>3. ServiceDepth(p, then) = ServiceDepth(at["service"], then)
    BY <1>1 DEF ServiceDepth, Group
  <2> QED
    BY <2>1, <2>2, <2>3 DEF DepthIs
<1>2. CASE t = "worker"
  <2>1. at'["worker"] = p /\ at'["service"] = at["service"]
    BY <1>2 DEF LinkTypes, Tasks
  <2>2. FlagTells'
    BY <1>2, <2>1 DEF FlagTells, WorkerPlaces, Group
  <2>3. WorkerDepth(p) = WorkerDepth(at["worker"])
    BY <1>2 DEF WorkerDepth, Group
  <2> QED
    BY <2>1, <2>2, <2>3 DEF DepthIs
<1> QED
  BY <1>1, <1>2 DEF Tasks

\* The service at another step of its loop, and the depth that goes with it.
LEMMA ServiceGoes ==
  ASSUME LinkTypes, FlagTells, DepthIs, NEW p \in Places, at' = [at EXCEPT !["service"] = p],
         depth' - depth = ServiceDepth(p, then') - ServiceDepth(at["service"], then),
         depth' \in Int, p # "none" => running' /\ up'
  PROVE  FlagTells' /\ DepthIs'
<1>1. at'["service"] = p /\ at'["worker"] = at["worker"]
  BY DEF LinkTypes, Tasks
<1>2. FlagTells'
  BY <1>1 DEF FlagTells
<1>3. ServiceDepth(p, then') \in Int /\ ServiceDepth(at["service"], then) \in Int
      /\ WorkerDepth(at["worker"]) \in Int /\ depth \in Int
  BY DEF ServiceDepth, WorkerDepth, LinkTypes
<1>4. depth = WorkerDepth(at["worker"]) + ServiceDepth(at["service"], then)
  BY DEF DepthIs
<1>5. depth' = WorkerDepth(at["worker"]) + ServiceDepth(p, then')
  BY <1>3, <1>4
<1> QED
  BY <1>1, <1>2, <1>5 DEF DepthIs

\* One batch more, and one less.
LEMMA BeginKeeps ==
  ASSUME LinkTypes, Paid, BatchBegin, UNCHANGED open
  PROVE  Paid' /\ depth' = depth + 1 /\ depth' \in Int /\ paid' \in Nat /\ excused' \in Nat
<1>1. depth \in Int /\ paid \in Nat /\ excused \in Nat /\ open["tx"] \in BOOLEAN
  BY DEF LinkTypes, Clients
<1>2. CASE depth = 0
  BY <1>1, <1>2 DEF BatchBegin, Paid
<1>3. CASE depth # 0
  BY <1>1, <1>3 DEF BatchBegin, Paid
<1> QED
  BY <1>2, <1>3

LEMMA EndKeeps ==
  ASSUME LinkTypes, Paid, BatchEnd, UNCHANGED open, depth > 0
  PROVE  Paid' /\ depth' = depth - 1 /\ depth' \in Int /\ paid' = paid /\ excused' = excused
BY DEF LinkTypes, BatchEnd, Paid

LEMMA CallStep ==
  ASSUME LinkInv, NEW t \in Tasks, Call(t)
  PROVE  LinkInv'
<1> DEFINE c == Client(t)
<1>0. /\ LinkTypes /\ NothingKept /\ whole /\ c \in Clients
      /\ c = "tx" \/ c = "poll"
      /\ "tx" \in Clients /\ "poll" \in Clients
  BY DEF LinkInv, Client, Clients
<1>n. /\ depth \in Int /\ paid \in Nat /\ excused \in Nat /\ open["tx"] \in BOOLEAN
  BY <1>0 DEF LinkTypes
<1>1. UNCHANGED <<then, batch, life, late, torn>>
  BY DEF Call, Begin, NoTurn, FailForGood, Succeed, FailAndRetry, bounds, linkGhosts
<1>2. /\ at[t] \in {"poll", "polling", "send", "sending", "upload", "uploading"}
      /\ at[t] \in {"poll", "polling"} <=> c = "poll"
      /\ c # "poll" => c = "tx"
  BY DEF Call, Begin, NoTurn, FailForGood, Succeed, FailAndRetry, Asking, Performing, Client
<1>3. ASSUME NEW p \in Places, at' = [at EXCEPT ![t] = p],
             at[t] \in Group => p \in Group, at[t] \notin Group => p \in {"poll", "polling", "handle"},
             late' = 0
      PROVE  FlagTells' /\ DepthIs'
  <2>1. FlagTells /\ DepthIs
    BY <1>1, <1>3 DEF LinkInv
  <2>2. t = "worker" => at[t] \in WorkerPlaces
    BY <2>1 DEF FlagTells, WorkerPlaces, Group
  <2>3. t = "worker" => at[t] \in Group
    BY <1>2, <2>2 DEF WorkerPlaces
  <2>4. UNCHANGED <<then, depth, running, up>>
    BY <1>1 DEF batch, life
  <2>5. at[t] \notin Group => {at[t], p} \cap (Group \cup {"drain", "redrain"}) = {}
    BY <1>2, <1>3 DEF Group
  <2> QED
    BY <1>0, <1>2, <1>3, <2>1, <2>3, <2>4, <2>5, PlacesGoOn DEF WorkerPlaces
<1>4. ASSUME \E p \in Places : /\ at' = [at EXCEPT ![t] = p]
                               /\ at[t] \in Group => p \in Group
                               /\ at[t] \notin Group => p \in {"poll", "polling", "handle"},
             LinkTypes', NothingKept', whole', late' = 0 => Paid'
      PROVE  LinkInv'
  <2>1. late' = 0 => ~torn'
    BY <1>1 DEF LinkInv
  <2> QED
    BY <1>3, <1>4, <2>1 DEF LinkInv
<1>5. ASSUME AfterSend(t), at[t] \in Group
      PROVE  \E p \in Places : /\ at' = [at EXCEPT ![t] = p]
                               /\ at[t] \in Group => p \in Group
                               /\ at[t] \notin Group => p \in {"poll", "polling", "handle"}
  BY <1>5 DEF AfterSend, Goes, Places, Group
<1>6. ASSUME NEW m, AfterPoll(t, m), at[t] = "polling"
      PROVE  \E p \in Places : /\ at' = [at EXCEPT ![t] = p]
                               /\ at[t] \in Group => p \in Group
                               /\ at[t] \notin Group => p \in {"poll", "polling", "handle"}
  BY <1>6 DEF AfterPoll, Goes, Places, Group
\* what holds of the tables whenever a request of c begins or ends
<1>7. ASSUME NEW o \in Tasks \cup {"none"}, owner' = [owner EXCEPT ![c] = o],
             NEW b \in BOOLEAN, open' = [open EXCEPT ![c] = b],
             NEW k \in Nat, attempt' = [attempt EXCEPT ![c] = k],
             answer' = [answer EXCEPT ![c] = <<>>], cut' = [cut EXCEPT ![c] = FALSE]
      PROVE  /\ owner' \in [Clients -> Tasks \cup {"none"}] /\ open' \in [Clients -> BOOLEAN]
             /\ attempt' \in [Clients -> Nat] /\ NothingKept'
             /\ open'["tx"] = IF c = "tx" THEN b ELSE open["tx"]
  BY <1>0, <1>7 DEF LinkTypes, NothingKept
<1>8. ASSUME AfterSend(t) PROVE left' \in [Tasks -> Int] /\ at' \in [Tasks -> Places]
  BY <1>0, <1>8 DEF AfterSend, Goes, LinkTypes, Places
<1>9. ASSUME NEW m \in Int, AfterPoll(t, m) PROVE left' \in [Tasks -> Int] /\ at' \in [Tasks -> Places]
  BY <1>0, <1>9 DEF AfterPoll, Goes, LinkTypes, Places
<1>10. ASSUME at' \in [Tasks -> Places], left' \in [Tasks -> Int],
              owner' \in [Clients -> Tasks \cup {"none"}], open' \in [Clients -> BOOLEAN],
              attempt' \in [Clients -> Nat], paid' \in Nat, excused' \in Nat, whole'
       PROVE  LinkTypes'
  BY <1>0, <1>1, <1>10 DEF LinkTypes, batch, life
<1>11. CASE Begin(t)
  <2> DEFINE p == CASE at[t] = "poll" -> "polling" [] at[t] = "send" -> "sending" [] OTHER -> "uploading"
  <2>1. at' = [at EXCEPT ![t] = p] /\ at[t] \in {"poll", "send", "upload"}
    BY <1>11 DEF Begin, Goes, Asking
  <2>2. p \in Places /\ (at[t] \in Group => p \in Group)
        /\ (at[t] \notin Group => p \in {"poll", "polling", "handle"})
    BY <2>1 DEF Places, Group
  <2> HIDE DEF p
  <2>3. /\ owner' \in [Clients -> Tasks \cup {"none"}] /\ open' \in [Clients -> BOOLEAN]
        /\ attempt' \in [Clients -> Nat] /\ NothingKept'
        /\ open'["tx"] = IF c = "tx" THEN TRUE ELSE open["tx"]
    BY <1>7, <1>11 DEF Begin
  <2>4. left' = left /\ at' \in [Tasks -> Places] /\ excused' = excused /\ whole' = whole
    BY <1>0, <1>11, <2>1, <2>2 DEF Begin, LinkTypes
  <2>5. paid' = IF c = "tx" /\ ~open["tx"] THEN paid + 1 ELSE paid
    BY <1>11 DEF Begin
  <2>6. paid' \in Nat
    BY <1>n, <2>5
  <2>7. LinkTypes'
    BY <1>0, <1>n, <1>10, <2>3, <2>4, <2>6 DEF LinkTypes
  <2>8. late' = 0 => Paid'
    <3> SUFFICES ASSUME late' = 0, depth' > 0
                 PROVE  paid' <= excused' + (IF open'["tx"] THEN 1 ELSE 0)
      BY DEF Paid
    <3>1. paid <= excused + (IF open["tx"] THEN 1 ELSE 0)
      BY <1>1 DEF LinkInv, Paid, batch
    <3>2. CASE c = "tx" /\ ~open["tx"]
      BY <1>n, <2>3, <2>4, <2>5, <3>1, <3>2
    <3>3. CASE c = "tx" /\ open["tx"]
      BY <1>n, <2>3, <2>4, <2>5, <3>1, <3>3
    <3>4. CASE c # "tx"
      BY <1>n, <2>3, <2>4, <2>5, <3>1, <3>4
    <3> QED
      BY <3>2, <3>3, <3>4
  <2> QED
    BY <1>0, <1>4, <2>1, <2>2, <2>3, <2>4, <2>7, <2>8
<1>12. CASE NoTurn(t)
  <2>1. AfterSend(t) /\ at[t] \in Group /\ UNCHANGED <<request, linkGhosts>>
    BY <1>12 DEF NoTurn, Group
  <2>2. LinkTypes'
    BY <1>0, <1>8, <1>10, <2>1 DEF LinkTypes, request, linkGhosts
  <2>3. NothingKept' /\ whole'
    BY <1>0, <2>1 DEF NothingKept, request, linkGhosts
  <2>4. late' = 0 => Paid'
    BY <1>1, <2>1 DEF LinkInv, Paid, request, batch, linkGhosts
  <2> QED
    BY <1>4, <1>5, <2>1, <2>2, <2>3, <2>4
<1>13. CASE FailForGood(t)
  <2>1. /\ owner' \in [Clients -> Tasks \cup {"none"}] /\ open' \in [Clients -> BOOLEAN]
        /\ attempt' \in [Clients -> Nat] /\ NothingKept'
        /\ open'["tx"] = IF c = "tx" THEN FALSE ELSE open["tx"]
    BY <1>7, <1>13 DEF FailForGood
  <2>2. /\ excused' = (IF c = "tx" THEN excused + 1 ELSE excused) /\ paid' = paid /\ whole' = whole
        /\ at[t] \in {"polling", "sending", "uploading"}
        /\ IF at[t] = "polling" THEN AfterPoll(t, 0) ELSE AfterSend(t)
    BY <1>13 DEF FailForGood, Performing
  <2>3. left' \in [Tasks -> Int] /\ at' \in [Tasks -> Places]
    BY <1>8, <1>9, <2>2
  <2>4. LinkTypes' /\ whole'
    BY <1>0, <1>n, <1>10, <2>1, <2>2, <2>3
  <2>5. late' = 0 => Paid'
    <3> SUFFICES ASSUME late' = 0, depth' > 0
                 PROVE  paid' <= excused' + (IF open'["tx"] THEN 1 ELSE 0)
      BY DEF Paid
    <3>1. paid <= excused + (IF open["tx"] THEN 1 ELSE 0)
      BY <1>1 DEF LinkInv, Paid, batch
    <3>2. CASE c = "tx"
      BY <1>n, <2>1, <2>2, <3>1, <3>2
    <3>3. CASE c # "tx"
      BY <1>n, <2>1, <2>2, <3>1, <3>3
    <3> QED
      BY <3>2, <3>3
  <2>6. at[t] # "polling" => at[t] \in Group
    BY <2>2 DEF Group
  <2> QED
    BY <1>4, <1>5, <1>6, <2>1, <2>2, <2>4, <2>5, <2>6
<1>14. CASE \E n \in 0 .. Pieces : Succeed(t, n)
  <2>1. PICK n \in 0 .. Pieces : Succeed(t, n)
    BY <1>14
  <2>2. /\ owner' \in [Clients -> Tasks \cup {"none"}] /\ open' \in [Clients -> BOOLEAN]
        /\ attempt' \in [Clients -> Nat] /\ NothingKept'
        /\ open'["tx"] = IF c = "tx" THEN at[t] # "uploading" ELSE open["tx"]
    BY <1>7, <2>1 DEF Succeed
  <2>3. /\ excused' = (IF at[t] = "uploading" THEN excused + 1 ELSE excused) /\ paid' = paid
        /\ at[t] \in {"polling", "sending", "uploading"}
        /\ at[t] = "polling" => \E m \in 0 .. Replies : AfterPoll(t, m)
        /\ at[t] # "polling" => AfterSend(t)
    BY <2>1 DEF Succeed, Performing
  <2>4. whole'
    BY <1>0, <2>1, CollectedIsWhole DEF Succeed
  <2>5. left' \in [Tasks -> Int] /\ at' \in [Tasks -> Places]
    <3>1. \A m \in 0 .. Replies : m \in Int
      OBVIOUS
    <3> QED
      BY <1>8, <1>9, <2>3, <3>1
  <2>6. LinkTypes'
    BY <1>0, <1>n, <1>10, <2>2, <2>3, <2>4, <2>5
  <2>7. late' = 0 => Paid'
    <3> SUFFICES ASSUME late' = 0, depth' > 0
                 PROVE  paid' <= excused' + (IF open'["tx"] THEN 1 ELSE 0)
      BY DEF Paid
    <3>1. paid <= excused + (IF open["tx"] THEN 1 ELSE 0)
      BY <1>1 DEF LinkInv, Paid, batch
    <3>2. CASE c = "tx" /\ at[t] = "uploading"
      BY <1>n, <2>2, <2>3, <3>1, <3>2
    <3>3. CASE c = "tx" /\ at[t] # "uploading"
      BY <1>n, <2>2, <2>3, <3>1, <3>3
    <3>4. CASE c # "tx"
      BY <1>n, <1>2, <2>2, <2>3, <3>1, <3>4
    <3> QED
      BY <3>2, <3>3, <3>4
  <2>8. at[t] # "polling" => at[t] \in Group
    BY <2>3 DEF Group
  <2> QED
    BY <1>4, <1>5, <1>6, <2>2, <2>3, <2>4, <2>6, <2>7, <2>8
<1>15. CASE \E n \in 0 .. Pieces : FailAndRetry(t, n)
  <2>1. PICK n \in 0 .. Pieces : FailAndRetry(t, n)
    BY <1>15
  <2>2. /\ attempt' = [attempt EXCEPT ![c] = @ + 1]
        /\ answer' = [answer EXCEPT ![c] = <<>>] /\ cut' = [cut EXCEPT ![c] = FALSE]
        /\ UNCHANGED <<at, left, owner, open, whole>>
        /\ paid' = (IF c = "tx" THEN paid + 1 ELSE paid)
        /\ excused' = (IF c = "tx" THEN excused + 1 ELSE excused)
    BY <2>1 DEF FailAndRetry, Retry
  <2>3. attempt' \in [Clients -> Nat] /\ NothingKept'
    <3>1. attempt \in [Clients -> Nat] /\ NothingKept
      BY <1>0 DEF LinkTypes
    <3>2. c \in Clients => attempt[c] + 1 \in Nat
      BY <3>1
    <3>3. attempt' \in [Clients -> Nat]
      BY <2>2, <3>1, <3>2, Zenon
    <3>4. NothingKept'
      BY <2>2, <3>1, Zenon DEF NothingKept
    <3> QED
      BY <3>3, <3>4
  <2>4. LinkTypes'
    BY <1>0, <1>n, <1>10, <2>2, <2>3 DEF LinkTypes
  <2>5. late' = 0 => Paid'
    <3> SUFFICES ASSUME late' = 0, depth' > 0
                 PROVE  paid' <= excused' + (IF open'["tx"] THEN 1 ELSE 0)
      BY DEF Paid
    <3>1. paid <= excused + (IF open["tx"] THEN 1 ELSE 0)
      BY <1>1 DEF LinkInv, Paid, batch
    <3>2. CASE c = "tx"
      BY <1>n, <2>2, <3>1, <3>2
    <3>3. CASE c # "tx"
      BY <1>n, <2>2, <3>1, <3>3
    <3> QED
      BY <3>2, <3>3
  <2>6. late' = 0 => FlagTells' /\ DepthIs' /\ ~torn'
    BY <1>1, <2>2 DEF LinkInv, FlagTells, DepthIs, batch, life
  <2> QED
    BY <1>0, <2>2, <2>3, <2>4, <2>5, <2>6 DEF LinkInv
<1> QED
  BY <1>11, <1>12, <1>13, <1>14, <1>15 DEF Call

LEMMA PrepareStep ==
  ASSUME LinkInv, NEW t \in Tasks, NEW how \in {"send", "upload"}, Prepare(t, how)
  PROVE  LinkInv'
<1>0. LinkTypes /\ NothingKept /\ whole /\ how \in Group /\ how \in Places /\ "tx" \in Clients
  BY DEF LinkInv, Group, Places, Clients
<1>1. /\ at[t] = "next" /\ at' = [at EXCEPT ![t] = how]
      /\ UNCHANGED <<left, then, owner, attempt, answer, cut, depth, life, bounds, linkGhosts>>
      /\ open' = open \/ open' = Disconnected("poll")
  BY DEF Prepare, Goes
<1>2. open' \in [Clients -> BOOLEAN] /\ open'["tx"] = open["tx"]
  BY <1>0, <1>1 DEF Disconnected, LinkTypes
<1>3. LinkTypes' /\ NothingKept' /\ whole'
  BY <1>0, <1>1, <1>2 DEF LinkTypes, NothingKept, life, bounds, linkGhosts
<1>4. late' = 0 => FlagTells' /\ DepthIs'
  BY <1>0, <1>1, PlacesGoOn DEF LinkInv, WorkerPlaces, Group, life, bounds
<1>5. late' = 0 => Paid' /\ ~torn'
  BY <1>1, <1>2 DEF LinkInv, Paid, bounds, linkGhosts
<1> QED
  BY <1>3, <1>4, <1>5 DEF LinkInv

LEMMA ServiceStep ==
  ASSUME LinkInv, Service
  PROVE  LinkInv'
<1>0. /\ LinkTypes /\ NothingKept /\ whole /\ "service" \in Tasks
      /\ depth \in Int /\ paid \in Nat /\ excused \in Nat /\ open["tx"] \in BOOLEAN
  BY DEF LinkInv, LinkTypes, Tasks, Clients
\* a step of the loop that leaves the connections alone
<1>a. ASSUME UNCHANGED <<request, bounds, whole, torn>>,
             NEW p \in Places, at' = [at EXCEPT !["service"] = p],
             left' \in [Tasks -> Int], then' \in {"reply", "drain", "redrain"},
             running' \in BOOLEAN, up' = up,
             depth' \in Int, paid' \in Nat, excused' \in Nat,
             late = 0 => FlagTells' /\ DepthIs' /\ Paid'
      PROVE  LinkInv'
  BY <1>0, <1>a DEF LinkInv, LinkTypes, NothingKept, request, bounds
<1>b. late = 0 => FlagTells /\ DepthIs /\ Paid
  BY DEF LinkInv
<1>c. ASSUME at["service"] \in {"drain", "redrain"} PROVE late = 0 => depth > 0
  BY <1>0, <1>b, <1>c DEF DepthIs, WorkerDepth, ServiceDepth
<1>d. ASSUME BatchBegin, UNCHANGED open
      PROVE  depth' \in Int /\ paid' \in Nat /\ excused' \in Nat /\ depth' = depth + 1 /\ (late = 0 => Paid')
  <2>1. depth' \in Int /\ paid' \in Nat /\ excused' \in Nat /\ depth' = depth + 1
    BY <1>0, <1>d DEF BatchBegin
  <2> QED
    BY <1>0, <1>b, <1>d, <2>1, BeginKeeps
<1>1. CASE Started
  <2>1. /\ at["service"] = "starting" /\ at' = [at EXCEPT !["service"] = "top"] /\ running' = TRUE
        /\ UNCHANGED <<left, then, request, batch, up, bounds, linkGhosts>>
    BY <1>1 DEF Started, Goes
  <2>2. late = 0 => FlagTells'
    BY <1>0, <1>b, <2>1 DEF FlagTells, LinkTypes, Tasks
  <2>3. late = 0 => DepthIs'
    BY <1>0, <1>b, <2>1 DEF DepthIs, LinkTypes, Tasks, ServiceDepth, Group, batch
  <2>4. late = 0 => Paid'
    BY <1>b, <2>1 DEF Paid, batch, request, linkGhosts
  <2>5. "top" \in Places
    BY DEF Places
  <2> QED
    BY <1>0, <1>a, <2>1, <2>2, <2>3, <2>4, <2>5 DEF LinkTypes, batch, linkGhosts
<1>2. CASE Top
  <2>1. at["service"] = "top" /\ UNCHANGED <<left, then, request, up, bounds, whole, torn>>
    BY <1>2 DEF Top
  <2>2. CASE stop
    <3>1. running' = FALSE /\ at' = [at EXCEPT !["service"] = "none"]
          /\ UNCHANGED <<depth, paid, excused>>
      BY <1>2, <2>2 DEF Top, Goes, batch
    <3>2. late = 0 => FlagTells' /\ DepthIs'
      <4>1. depth' - depth = ServiceDepth("none", then') - ServiceDepth(at["service"], then)
        BY <1>0, <2>1, <3>1 DEF ServiceDepth, Group
      <4> QED
        BY <1>0, <1>b, <3>1, <4>1, ServiceGoes DEF Places
    <3>3. late = 0 => Paid'
      BY <1>b, <2>1, <3>1 DEF Paid, request
    <3> QED
      BY <1>0, <1>a, <2>1, <3>1, <3>2, <3>3 DEF LinkTypes, Places
  <2>3. CASE ~stop
    <3>1. BatchBegin /\ at' = [at EXCEPT !["service"] = "drain"] /\ running' = running
      BY <1>2, <2>3 DEF Top, Goes
    <3>2. open' = open
      BY <2>1 DEF request
    <3>3. depth' \in Int /\ paid' \in Nat /\ excused' \in Nat /\ depth' = depth + 1 /\ (late = 0 => Paid')
      BY <1>d, <3>1, <3>2
    <3>4. late = 0 => FlagTells' /\ DepthIs'
      <4>1. depth' - depth = ServiceDepth("drain", then') - ServiceDepth(at["service"], then)
        BY <1>0, <2>1, <3>3 DEF ServiceDepth, Group
      <4>2. late = 0 => running' /\ up'
        BY <1>b, <2>1, <3>1 DEF FlagTells
      <4> QED
        BY <1>0, <1>b, <3>1, <3>3, <4>1, <4>2, ServiceGoes DEF Places
    <3> QED
      BY <1>0, <1>a, <2>1, <3>1, <3>3, <3>4 DEF LinkTypes, Places
  <2> QED
    BY <2>2, <2>3
<1>3. CASE Deliver
  <2>1. /\ at["service"] \in {"drain", "redrain"}
        /\ UNCHANGED <<request, life, bounds, whole, torn>>
    BY <1>3 DEF Deliver
  <2>2. CASE alertsOn /\ Recipients > 0
    <3>1. /\ left' = [left EXCEPT !["service"] = Recipients] /\ then' = at["service"] /\ BatchBegin
          /\ at' = [at EXCEPT !["service"] = "next"]
      BY <1>3, <2>2 DEF Deliver, Goes
    <3>2. open' = open /\ running' = running /\ up' = up
      BY <2>1 DEF request, life
    <3>3. depth' \in Int /\ paid' \in Nat /\ excused' \in Nat /\ depth' = depth + 1 /\ (late = 0 => Paid')
      BY <1>d, <3>1, <3>2
    <3>4. late = 0 => FlagTells' /\ DepthIs'
      <4>1. depth' - depth = ServiceDepth("next", then') - ServiceDepth(at["service"], then)
        BY <1>0, <2>1, <3>1, <3>3 DEF ServiceDepth, Group
      <4>2. late = 0 => running' /\ up'
        BY <1>b, <2>1, <3>2 DEF FlagTells
      <4> QED
        BY <1>0, <1>b, <3>1, <3>3, <4>1, <4>2, ServiceGoes DEF Places
    <3>5. left' \in [Tasks -> Int]
      BY <1>0, <3>1, LinkAssumption DEF LinkTypes, LinkAssumption
    <3> QED
      BY <1>0, <1>a, <2>1, <3>1, <3>2, <3>3, <3>4, <3>5 DEF LinkTypes, Places
  <2>3. CASE ~(alertsOn /\ Recipients > 0)
    <3>1. UNCHANGED <<at, left, then, depth, paid, excused, late, request, life, whole, torn>>
      BY <1>3, <2>1, <2>3 DEF Deliver, batch, bounds
    <3> QED
      BY <3>1 DEF LinkInv, LinkTypes, NothingKept, FlagTells, DepthIs, Paid, request, life
  <2> QED
    BY <2>2, <2>3
<1>4. CASE Drained
  <2> DEFINE p == IF at["service"] = "drain" THEN "reclaim" ELSE "top"
  <2>1. /\ at["service"] \in {"drain", "redrain"} /\ BatchEnd /\ at' = [at EXCEPT !["service"] = p]
        /\ UNCHANGED <<left, then, request, life, bounds, whole, torn>>
    BY <1>4 DEF Drained, Goes
  <2>2. open' = open /\ running' = running /\ up' = up
    BY <2>1 DEF request, life
  <2>3. p \in Places /\ p \notin Group \cup {"drain", "redrain", "none"}
    BY DEF Places, Group
  <2> HIDE DEF p
  <2>4. CASE late = 0
    <3>1. Paid' /\ depth' = depth - 1 /\ depth' \in Int /\ paid' = paid /\ excused' = excused
      BY <1>0, <1>b, <1>c, <2>1, <2>2, <2>4, EndKeeps
    <3>2. depth' - depth = ServiceDepth(p, then') - ServiceDepth(at["service"], then)
      BY <1>0, <2>1, <2>3, <3>1 DEF ServiceDepth
    <3>3. running' /\ up'
      BY <1>b, <2>1, <2>2, <2>4 DEF FlagTells
    <3>4. FlagTells' /\ DepthIs'
      BY <1>0, <1>b, <2>1, <2>3, <2>4, <3>1, <3>2, <3>3, ServiceGoes
    <3> QED
      BY <1>0, <1>a, <2>1, <2>2, <2>3, <3>1, <3>4 DEF LinkTypes
  <2>5. CASE late # 0
    <3>1. depth' \in Int /\ paid' \in Nat /\ excused' \in Nat
      BY <1>0, <2>1 DEF BatchEnd
    <3>2. left' \in [Tasks -> Int] /\ then' \in {"reply", "drain", "redrain"} /\ running' \in BOOLEAN
      BY <1>0, <2>1, <2>2 DEF LinkTypes
    <3> QED
      BY <1>a, <2>1, <2>2, <2>3, <2>5, <3>1, <3>2
  <2> QED
    BY <2>4, <2>5
<1>5. CASE Reclaim
  <2>1. /\ at["service"] = "reclaim" /\ at' = [at EXCEPT !["service"] = "poll"]
        /\ open' = Disconnected("tx")
        /\ UNCHANGED <<left, then, owner, attempt, answer, cut, batch, life, late, paid, whole, torn>>
    BY <1>5 DEF Reclaim, Goes, Reclaimed
  <2>2. (depth = 0 /\ excused' = excused) \/ excused' = excused + 1
    BY <1>5 DEF Reclaim, BatchOver
  <2>3. open' \in [Clients -> BOOLEAN]
    BY <1>0, <2>1 DEF Disconnected, LinkTypes
  <2>4. LinkTypes' /\ NothingKept' /\ whole'
    <3>1. excused' \in Nat /\ at' \in [Tasks -> Places]
      BY <1>0, <2>1, <2>2 DEF LinkTypes, Places
    <3> QED
      BY <1>0, <2>1, <2>3, <3>1 DEF LinkTypes, NothingKept, batch, life
  <2>5. late' = 0 => FlagTells' /\ DepthIs'
    <3>1. {at["service"], "poll"} \cap (Group \cup {"drain", "redrain"}) = {} /\ "poll" \in Places
      BY <2>1 DEF Group, Places
    <3>2. UNCHANGED <<then, depth, running, up>>
      BY <2>1 DEF batch, life
    <3> QED
      BY <1>0, <1>b, <2>1, <3>1, <3>2, PlacesGoOn
  <2>6. late' = 0 => Paid' /\ ~torn'
    <3> SUFFICES ASSUME late' = 0 PROVE Paid' /\ ~torn'
      OBVIOUS
    <3>1. depth' = depth /\ paid' = paid /\ torn' = torn /\ late = 0 /\ open'["tx"] \in BOOLEAN
      BY <1>0, <2>1, <2>3 DEF batch, Clients
    <3>2. CASE depth = 0
      BY <3>1, <3>2 DEF Paid, LinkInv
    <3>3. CASE depth # 0
      <4>1. depth > 0 => paid <= excused + 1
        BY <1>0, <1>b, <3>1 DEF Paid
      <4>2. excused' = excused + 1
        BY <2>2, <3>3
      <4>3. depth > 0 => paid <= excused'
        BY <1>0, <4>1, <4>2
      <4> QED
        BY <1>0, <3>1, <4>2, <4>3 DEF Paid, LinkInv
    <3> QED
      BY <3>2, <3>3
  <2> QED
    BY <2>4, <2>5, <2>6 DEF LinkInv
<1>6. CASE Handle
  <2>1. /\ at["service"] = "handle" /\ then' = "reply"
        /\ UNCHANGED <<left, request, life, bounds, whole, torn>>
    BY <1>6 DEF Handle
  <2>2. open' = open /\ running' = running /\ up' = up
    BY <2>1 DEF request, life
  <2>3. late = 0 => running' /\ up'
    BY <1>b, <2>1, <2>2 DEF FlagTells
  <2>4. CASE left["service"] > 0
    <3>1. at' = [at EXCEPT !["service"] = "next"] /\ UNCHANGED <<depth, paid, excused>>
      BY <1>6, <2>4 DEF Handle, Goes, batch
    <3>2. late = 0 => FlagTells' /\ DepthIs'
      <4>1. depth' - depth = ServiceDepth("next", then') - ServiceDepth(at["service"], then)
        BY <1>0, <2>1, <3>1 DEF ServiceDepth, Group
      <4> QED
        BY <1>0, <1>b, <2>3, <3>1, <4>1, ServiceGoes DEF Places
    <3>3. late = 0 => Paid'
      BY <1>b, <2>2, <3>1 DEF Paid
    <3> QED
      BY <1>0, <1>a, <2>1, <2>2, <3>1, <3>2, <3>3 DEF LinkTypes, Places
  <2>5. CASE ~(left["service"] > 0)
    <3>1. BatchBegin /\ at' = [at EXCEPT !["service"] = "redrain"]
      BY <1>6, <2>5 DEF Handle, Goes
    <3>2. depth' \in Int /\ paid' \in Nat /\ excused' \in Nat /\ depth' = depth + 1 /\ (late = 0 => Paid')
      BY <1>d, <2>2, <3>1
    <3>3. late = 0 => FlagTells' /\ DepthIs'
      <4>1. depth' - depth = ServiceDepth("redrain", then') - ServiceDepth(at["service"], then)
        BY <1>0, <2>1, <3>2 DEF ServiceDepth, Group
      <4> QED
        BY <1>0, <1>b, <2>3, <3>1, <3>2, <4>1, ServiceGoes DEF Places
    <3> QED
      BY <1>0, <1>a, <2>1, <2>2, <3>1, <3>2, <3>3 DEF LinkTypes, Places
  <2> QED
    BY <2>4, <2>5
<1>7. CASE Sent
  <2>1. at["service"] = "sent" /\ UNCHANGED <<left, then, request, life, bounds, whole, torn>>
    BY <1>7 DEF Sent
  <2>2. open' = open /\ running' = running /\ up' = up
    BY <2>1 DEF request, life
  <2>3. late = 0 => running' /\ up'
    BY <1>b, <2>1, <2>2 DEF FlagTells
  <2>4. CASE then = "reply"
    <3>1. BatchBegin /\ at' = [at EXCEPT !["service"] = "redrain"]
      BY <1>7, <2>4 DEF Sent, Goes
    <3>2. depth' \in Int /\ paid' \in Nat /\ excused' \in Nat /\ depth' = depth + 1 /\ (late = 0 => Paid')
      BY <1>d, <2>2, <3>1
    <3>3. late = 0 => FlagTells' /\ DepthIs'
      <4>1. depth' - depth = ServiceDepth("redrain", then') - ServiceDepth(at["service"], then)
        BY <1>0, <2>1, <2>4, <3>2 DEF ServiceDepth, Group
      <4> QED
        BY <1>0, <1>b, <2>3, <3>1, <3>2, <4>1, ServiceGoes DEF Places
    <3> QED
      BY <1>0, <1>a, <2>1, <2>2, <3>1, <3>2, <3>3 DEF LinkTypes, Places
  <2>5. CASE then # "reply"
    <3>1. BatchEnd /\ at' = [at EXCEPT !["service"] = then] /\ then \in {"drain", "redrain"}
      BY <1>0, <1>7, <2>5 DEF Sent, Goes, LinkTypes
    <3>2. depth' = depth - 1 /\ paid' = paid /\ excused' = excused
      BY <3>1 DEF BatchEnd
    <3>3. late = 0 => FlagTells' /\ DepthIs'
      <4>1. depth' - depth = ServiceDepth(then, then') - ServiceDepth(at["service"], then)
        BY <1>0, <2>1, <2>5, <3>1, <3>2 DEF ServiceDepth, Group
      <4>2. then \in Places /\ depth' \in Int
        BY <1>0, <3>1, <3>2 DEF Places
      <4> QED
        BY <1>0, <1>b, <2>3, <3>1, <4>1, <4>2, ServiceGoes
    <3>4. late = 0 => Paid'
      BY <1>0, <1>b, <2>2, <3>2 DEF Paid
    <3>5. /\ then \in Places /\ then' \in {"reply", "drain", "redrain"} /\ left' \in [Tasks -> Int]
          /\ running' \in BOOLEAN /\ depth' \in Int /\ paid' \in Nat /\ excused' \in Nat
      BY <1>0, <2>1, <2>2, <3>1, <3>2 DEF LinkTypes, Places
    <3> QED
      BY <1>a, <2>1, <2>2, <3>1, <3>3, <3>4, <3>5
  <2> QED
    BY <2>4, <2>5
<1>8. CASE Prepare("service", "send")
  BY <1>0, <1>8, PrepareStep
<1>9. CASE Call("service")
  BY <1>0, <1>9, CallStep
<1> QED
  BY <1>1, <1>2, <1>3, <1>4, <1>5, <1>6, <1>7, <1>8, <1>9 DEF Service

LEMMA WorkerStep ==
  ASSUME LinkInv, Worker
  PROVE  LinkInv'
<1>0. /\ LinkTypes /\ NothingKept /\ whole /\ "worker" \in Tasks
      /\ depth \in Int /\ paid \in Nat /\ excused \in Nat /\ open["tx"] \in BOOLEAN /\ late \in Nat
  BY DEF LinkInv, LinkTypes, Tasks, Clients
<1>b. late = 0 => FlagTells /\ DepthIs /\ Paid /\ ~torn
  BY DEF LinkInv
<1>1. CASE StartTask
  <2>1. /\ at["worker"] = "idle" /\ ~up /\ up' = TRUE /\ running' = TRUE
        /\ at' = [at EXCEPT !["service"] = "starting"]
        /\ UNCHANGED <<left, then, request, batch, bounds, linkGhosts>>
    BY <1>1 DEF StartTask, Goes, RaisedFirst
  <2>2. LinkTypes' /\ NothingKept' /\ whole'
    BY <1>0, <2>1 DEF LinkTypes, NothingKept, Places, request, batch, bounds, linkGhosts
  <2>3. late' = 0 => FlagTells' /\ DepthIs'
    <3>1. late = 0 => at["service"] = "none"
      BY <1>b, <2>1 DEF FlagTells
    <3>2. late = 0 => depth' - depth = ServiceDepth("starting", then') - ServiceDepth(at["service"], then)
      BY <1>0, <2>1, <3>1 DEF ServiceDepth, Group, batch
    <3> QED
      BY <1>0, <1>b, <2>1, <3>2, ServiceGoes DEF Places, bounds, batch
  <2>4. late' = 0 => Paid' /\ ~torn'
    BY <1>b, <2>1 DEF Paid, request, batch, bounds, linkGhosts
  <2> QED
    BY <2>2, <2>3, <2>4 DEF LinkInv
<1>2. CASE Pass
  <2>1. /\ at["worker"] = "idle" /\ BatchBegin /\ at' = [at EXCEPT !["worker"] = "next"]
        /\ UNCHANGED <<then, request, life, late, whole, torn>>
        /\ \E n \in 1 .. Lines : left' = [left EXCEPT !["worker"] = n]
    BY <1>2 DEF Pass, Goes
  <2>2. open' = open
    BY <2>1 DEF request
  <2>3. depth' \in Int /\ paid' \in Nat /\ excused' \in Nat /\ depth' = depth + 1
    BY <1>0, <2>1 DEF BatchBegin
  <2>4. late = 0 => Paid'
    BY <1>0, <1>b, <2>1, <2>2, BeginKeeps
  <2>5. left' \in [Tasks -> Int] /\ at' \in [Tasks -> Places]
    BY <1>0, <2>1 DEF LinkTypes, Places
  <2>6. LinkTypes' /\ NothingKept' /\ whole'
    BY <1>0, <2>1, <2>3, <2>5 DEF LinkTypes, NothingKept, request, life
  <2>7. late = 0 => FlagTells' /\ DepthIs'
    <3> SUFFICES ASSUME late = 0 PROVE FlagTells' /\ DepthIs'
      OBVIOUS
    <3>1. at'["worker"] = "next" /\ at'["service"] = at["service"]
      BY <1>0, <2>1 DEF LinkTypes, Tasks
    <3>2. FlagTells'
      BY <1>b, <2>1, <3>1 DEF FlagTells, life
    <3>3. WorkerDepth("next") = 1 /\ WorkerDepth("idle") = 0 /\ ServiceDepth(at["service"], then) \in Int
      BY DEF WorkerDepth, ServiceDepth, Group
    <3> QED
      BY <1>0, <1>b, <2>1, <2>3, <3>1, <3>2, <3>3 DEF DepthIs
  <2> QED
    BY <1>b, <2>1, <2>4, <2>6, <2>7 DEF LinkInv
<1>3. CASE Passed
  <2>1. /\ at["worker"] = "sent" /\ BatchEnd /\ at' = [at EXCEPT !["worker"] = "idle"]
        /\ UNCHANGED <<left, then, request, life, bounds, whole, torn>>
    BY <1>3 DEF Passed, Goes
  <2>2. depth' = depth - 1 /\ paid' = paid /\ excused' = excused /\ open' = open
    BY <2>1 DEF BatchEnd, request
  <2>3. LinkTypes' /\ NothingKept' /\ whole'
    BY <1>0, <2>1, <2>2 DEF LinkTypes, NothingKept, Places, request, life, bounds
  <2>4. late' = 0 => FlagTells' /\ DepthIs'
    <3> SUFFICES ASSUME late = 0 PROVE FlagTells' /\ DepthIs'
      BY <2>1 DEF bounds
    <3>1. at'["worker"] = "idle" /\ at'["service"] = at["service"]
      BY <1>0, <2>1 DEF LinkTypes, Tasks
    <3>2. FlagTells'
      BY <1>b, <2>1, <3>1 DEF FlagTells, life
    <3>3. WorkerDepth("sent") = 1 /\ WorkerDepth("idle") = 0 /\ ServiceDepth(at["service"], then) \in Int
      BY DEF WorkerDepth, ServiceDepth, Group
    <3> QED
      BY <1>0, <1>b, <2>1, <2>2, <3>1, <3>2, <3>3 DEF DepthIs
  <2>5. late' = 0 => Paid' /\ ~torn'
    BY <1>0, <1>b, <2>1, <2>2 DEF Paid, bounds
  <2> QED
    BY <2>3, <2>4, <2>5 DEF LinkInv
<1>4. CASE Stop
  <2>1. /\ at["worker"] = "idle" /\ at' = [at EXCEPT !["worker"] = "stopping"]
        /\ UNCHANGED <<left, then, request, batch, up, running, late, linkGhosts>>
    BY <1>4 DEF Stop, Goes
  <2>2. LinkTypes' /\ NothingKept' /\ whole'
    BY <1>0, <2>1 DEF LinkTypes, NothingKept, Places, request, batch, linkGhosts
  <2>3. late' = 0 => FlagTells' /\ DepthIs'
    <3>1. {at["worker"], "stopping"} \cap (Group \cup {"drain", "redrain"}) = {}
          /\ "stopping" \in Places \cap WorkerPlaces
      BY <2>1 DEF Group, Places, WorkerPlaces
    <3>2. UNCHANGED <<then, depth, running, up>>
      BY <2>1 DEF batch
    <3> QED
      BY <1>0, <1>b, <2>1, <3>1, <3>2, PlacesGoOn
  <2>4. late' = 0 => Paid' /\ ~torn'
    BY <1>b, <2>1 DEF Paid, request, batch, linkGhosts
  <2> QED
    BY <2>2, <2>3, <2>4 DEF LinkInv
<1>5. CASE ReleaseClient
  <2>1. /\ at["worker"] = "stopping" /\ (torn' <=> (torn \/ at["service"] # "none")) /\ up' = FALSE
        /\ owner' = [c \in Clients |-> "none"] /\ open' = [c \in Clients |-> FALSE]
        /\ at' = [service |-> "none", worker |-> "idle"]
        /\ left' = [left EXCEPT !["service"] = 0]
        /\ attempt' = [c \in Clients |-> 0] /\ answer' = [c \in Clients |-> <<>>]
        /\ cut' = [c \in Clients |-> FALSE]
        /\ UNCHANGED <<then, batch, running, paid, excused, whole>>
        /\ (~running /\ late' = late) \/ late' = late + 1
    BY <1>5 DEF ReleaseClient
  <2>2. at' = [t \in Tasks |-> IF t = "worker" THEN "idle" ELSE "none"]
    BY <2>1 DEF Tasks
  <2>3. at' \in [Tasks -> Places] /\ at'["service"] = "none" /\ at'["worker"] = "idle"
    BY <2>2 DEF Tasks, Places
  <2>4. torn' \in BOOLEAN /\ late' \in Nat
    <3>1. torn' \in BOOLEAN
      BY <1>5 DEF ReleaseClient
    <3>2. late' \in Nat
      BY <1>0, <2>1
    <3> QED
      BY <3>1, <3>2
  <2>5. left' \in [Tasks -> Int]
    <3>1. left \in [Tasks -> Int] /\ left' = [left EXCEPT !["service"] = 0]
      BY <1>0, <2>1 DEF LinkTypes
    <3>2. 0 \in Int
      OBVIOUS
    <3> QED
      BY <3>1, <3>2, Zenon
  <2>6. LinkTypes' /\ NothingKept' /\ whole'
    BY <1>0, <2>1, <2>3, <2>4, <2>5 DEF LinkTypes, NothingKept, batch
  <2>7. late' = 0 => FlagTells' /\ DepthIs' /\ Paid' /\ ~torn'
    <3> SUFFICES ASSUME late' = 0 PROVE FlagTells' /\ DepthIs' /\ Paid' /\ ~torn'
      OBVIOUS
    <3>1. ~running /\ late = 0
      BY <1>0, <2>1
    <3>2. at["service"] = "none" /\ ~torn
      BY <1>b, <3>1 DEF FlagTells
    <3>3. depth' = 0
      BY <1>b, <2>1, <3>1, <3>2 DEF DepthIs, WorkerDepth, ServiceDepth, Group, batch
    <3>4. FlagTells' /\ DepthIs'
      BY <2>3, <3>3 DEF FlagTells, DepthIs, WorkerDepth, ServiceDepth, Group
    <3> QED
      BY <2>1, <3>2, <3>3, <3>4 DEF Paid
  <2> QED
    BY <2>6, <2>7 DEF LinkInv
<1>6. CASE Call("worker")
  BY <1>0, <1>6, CallStep
<1>7. CASE \E how \in {"send", "upload"} : Prepare("worker", how)
  BY <1>0, <1>7, PrepareStep
<1> QED
  BY <1>1, <1>2, <1>3, <1>4, <1>5, <1>6, <1>7 DEF Worker

LEMMA LinkStep == LinkInv /\ [LinkNext]_linkVars => LinkInv'
<1> SUFFICES ASSUME LinkInv, [LinkNext]_linkVars PROVE LinkInv'
  OBVIOUS
<1>1. ASSUME UNCHANGED <<at, left, then, request, batch, life, late, linkGhosts>> PROVE LinkInv'
  BY <1>1 DEF LinkInv, LinkTypes, NothingKept, FlagTells, DepthIs, Paid, request, batch, life, linkGhosts
<1>2. CASE SendAlert
  BY <1>1, <1>2 DEF SendAlert
<1>3. CASE UNCHANGED linkVars
  BY <1>1, <1>3 DEF linkVars, bounds
<1> QED
  BY <1>2, <1>3, ServiceStep, WorkerStep DEF LinkNext

\* An answer is one attempt's, no handle is destroyed under the polling task, and the
\* messages of a batch share a handshake: as long as no release stopped waiting for the
\* polling task (esp_telegram_bot.c:306-717, telegram_service.c:3059-3063).
THEOREM LinkKept == LinkSpec => [](late = 0 => LinkSound)
<1>1. LinkInv => (late = 0 => LinkSound)
  <2> SUFFICES ASSUME LinkInv, late = 0 PROVE LinkSound
    OBVIOUS
  <2>1. whole /\ ~torn /\ Paid /\ paid \in Nat /\ excused \in Nat /\ open["tx"] \in BOOLEAN
    BY DEF LinkInv, LinkTypes, Clients
  <2>2. OneHandshake
    BY <2>1 DEF OneHandshake, Paid
  <2> QED
    BY <2>1, <2>2 DEF LinkSound, AnswersWhole, HandlesOutliveRequests
<1> QED
  BY LinkFirst, LinkStep, <1>1, PTL DEF LinkSpec

\* Where the wait for the polling task is long enough, no release stops waiting.
LEMMA NeverLate ==
  ASSUME MaxLateStops = 0
  PROVE  LinkSpec => [](late = 0)
<1>1. LinkInit => late = 0
  BY DEF LinkInit
<1>2. late = 0 /\ [LinkNext]_linkVars => (late = 0)'
  <2> SUFFICES ASSUME late = 0, [LinkNext]_linkVars PROVE (late = 0)'
    OBVIOUS
  <2>1. \A t \in Tasks : Call(t) => late' = late
    BY DEF Call, Begin, NoTurn, FailForGood, Succeed, FailAndRetry, bounds
  <2>2. Service => late' = late
    BY <2>1 DEF Service, Tasks, Started, Top, Deliver, Drained, Prepare, Reclaim, Handle, Sent, bounds
  <2>3. ReleaseClient => late' = late
    BY DEF ReleaseClient
  <2>4. Worker => late' = late
    BY <2>1, <2>3 DEF Worker, Tasks, StartTask, Pass, Passed, Stop, Prepare, bounds
  <2> QED
    BY <2>2, <2>4 DEF LinkNext, SendAlert, linkVars, bounds
<1> QED
  BY <1>1, <1>2, PTL DEF LinkSpec
-----------------------------------------------------------------------------
(* The updates *)

Updates == [id : Nat, size : Nat]

\* A run of updates that ends with the one posted last.
Run(s) ==
  /\ s \in Seq(Updates) /\ Len(s) <= posted
  /\ \A i \in 1 .. Len(s) : s[i].id = posted - Len(s) + i

\* Every update up to n was dispatched or given up.
Gone(n) == 1 .. n \subseteq ever \cup given

\* The answer in hand goes on where the offset is.
InHand ==
  /\ fetched \in Seq(Updates) /\ (task = "handle" <=> fetched # <<>>)
  /\ fetched # <<>> =>
       /\ offset <= fetched[1].id /\ Gone(fetched[1].id - 1)
       /\ \A i \in 1 .. Len(fetched) :
            fetched[i].id = fetched[1].id + i - 1 /\ fetched[i].id <= posted

PollInv ==
  /\ posted \in Nat /\ offset \in 0 .. posted + 1
  /\ Run(server) /\ Gone(posted - Len(server)) /\ Gone(offset - 1)
  /\ InHand
  /\ handled \subseteq 0 .. offset - 1 /\ twice = {}

LEMMA UpdateIs == \A s \in Seq(Updates) : \A i \in 1 .. Len(s) : s[i] \in Updates /\ s[i].id \in Nat
<1> TAKE s \in Seq(Updates)
<1> TAKE i \in 1 .. Len(s)
<1>1. s[i] \in Updates
  OBVIOUS
<1> QED
  BY <1>1 DEF Updates

LEMMA RunIds ==
  ASSUME NEW s, Run(s), posted \in Nat
  PROVE  Ids(s) = posted - Len(s) + 1 .. posted
<1>1. Len(s) \in Nat /\ DOMAIN s = 1 .. Len(s)
  BY DEF Run
<1>2. ToSet(s) = {s[i] : i \in 1 .. Len(s)}
  BY <1>1 DEF ToSet
<1>3. ASSUME NEW x \in Ids(s) PROVE x \in posted - Len(s) + 1 .. posted
  <2>1. PICK i \in 1 .. Len(s) : x = s[i].id
    BY <1>2 DEF Ids
  <2> QED
    BY <1>1, <2>1 DEF Run
<1>4. ASSUME NEW x \in posted - Len(s) + 1 .. posted PROVE x \in Ids(s)
  <2>1. PICK n \in Nat : n = Len(s)
    BY <1>1
  <2>2. x - posted + n \in 1 .. n /\ x = posted - n + (x - posted + n)
    BY <1>4, <2>1
  <2>3. s[x - posted + n].id = x
    BY <2>1, <2>2 DEF Run
  <2> QED
    BY <1>2, <2>1, <2>2, <2>3 DEF Ids
<1> QED
  BY <1>3, <1>4

\* What the server answers with is the end of its queue; what the offset confirms is gone.
LEMMA AskedIs ==
  ASSUME PollInv
  PROVE  /\ Run(Asked) /\ Gone(posted - Len(Asked))
         /\ Asked # <<>> => offset <= posted - Len(Asked) + 1
<1>1. PICK n \in Nat : n = Len(server)
  BY DEF PollInv, Run
<1>2. posted \in Nat /\ offset \in Nat /\ offset <= posted + 1 /\ n <= posted /\ server \in Seq(Updates)
  BY <1>1 DEF PollInv, Run
<1>3. \A i \in 1 .. n : server[i].id = posted - n + i
  BY <1>1 DEF PollInv, Run
<1>4. CASE n = 0
  <2>0. server = <<>>
    <3>1. server \in Seq(Updates) /\ Len(server) = 0
      BY <1>1, <1>2, <1>4
    <3> QED
      BY <3>1
  <2>1. server = <<>> /\ Confirmed = 0
    BY <2>0 DEF Confirmed
  <2>2. Asked = <<>>
    BY <1>1, <1>2, <1>4, <2>1 DEF Asked
  <2> QED
    BY <1>1, <1>2, <1>4, <2>2 DEF Run, PollInv
<1>5. CASE n > 0
  <2>1. server # <<>> /\ Head(server).id = posted - n + 1
    BY <1>1, <1>2, <1>3, <1>5
  <2>2. PICK k \in Nat : /\ k = Confirmed /\ k <= n
                         /\ (k = 0 /\ offset <= posted - n + 1) \/ posted - n + k = offset - 1
    <3>1. CASE offset <= posted - n + 1
      <4>1. Confirmed = 0
        BY <2>1, <3>1 DEF Confirmed
      <4> QED
        BY <1>2, <3>1, <4>1
    <3>2. CASE offset > posted - n + 1
      <4>1. ~(server = <<>> \/ offset <= Head(server).id)
        BY <1>2, <2>1, <3>2
      <4>2. Confirmed = offset - (posted - n + 1)
        BY <2>1, <4>1 DEF Confirmed
      <4>3. Confirmed \in Nat /\ Confirmed <= n
        BY <1>2, <3>2, <4>2
      <4> QED
        BY <1>2, <4>2, <4>3
    <3> QED
      BY <1>2, <3>1, <3>2
  <2>3. Asked = SubSeq(server, k + 1, n)
    BY <1>1, <2>2 DEF Asked
  <2>4. Asked \in Seq(Updates) /\ Len(Asked) = n - k /\ \A i \in 1 .. n - k : Asked[i] = server[k + i]
    BY <1>1, <1>2, <2>2, <2>3
  <2>5. Run(Asked)
    <3>1. \A i \in 1 .. n - k : Asked[i].id = posted - (n - k) + i
      <4> TAKE i \in 1 .. n - k
      <4>1. k + i \in 1 .. n /\ posted - n + (k + i) = posted - (n - k) + i
        BY <1>1, <1>2, <2>2
      <4>2. Asked[i] = server[k + i] /\ server[k + i].id = posted - n + (k + i)
        BY <1>3, <2>4, <4>1
      <4> QED
        BY <4>1, <4>2
    <3> QED
      BY <1>2, <2>2, <2>4, <3>1 DEF Run
  <2>6. posted - Len(Asked) = posted - n + k
    BY <1>2, <2>2, <2>4
  <2>7. Gone(posted - n) /\ Gone(offset - 1)
    BY <1>1 DEF PollInv
  <2>8. CASE k = 0 /\ offset <= posted - n + 1
    BY <1>2, <2>5, <2>6, <2>7, <2>8
  <2>9. CASE posted - n + k = offset - 1
    BY <1>2, <2>5, <2>6, <2>7, <2>9
  <2> QED
    BY <2>2, <2>8, <2>9
<1> QED
  BY <1>4, <1>5

LEMMA AnswerIs ==
  ASSUME PollInv
  PROVE  /\ Answer \in Seq(Updates)
         /\ Answer # <<>> =>
              /\ Asked # <<>> /\ Head(Answer) = Answer[1]
              /\ \A i \in 1 .. Len(Answer) :
                   Answer[i].id = posted - Len(Asked) + i /\ Answer[i].id <= posted
<1>1. PICK n \in Nat : n = Len(Asked)
  BY AskedIs DEF Run
<1>2. Asked \in Seq(Updates) /\ n <= posted /\ posted \in Nat
      /\ \A i \in 1 .. n : Asked[i].id = posted - n + i
  BY <1>1, AskedIs DEF Run, PollInv
<1>3. PICK m \in Nat : m = IF n < BatchLimit THEN n ELSE BatchLimit
  BY UpdatesAssumption DEF UpdatesAssumption
<1>4. m <= n
  BY <1>3, UpdatesAssumption DEF UpdatesAssumption
<1>5. Answer = SubSeq(Asked, 1, m)
  BY <1>1, <1>3 DEF Answer, First
<1>6. Answer \in Seq(Updates) /\ Len(Answer) = m /\ \A i \in 1 .. m : Answer[i] = Asked[i]
  BY <1>1, <1>2, <1>4, <1>5
<1>7. Answer # <<>> => Asked # <<>> /\ Head(Answer) = Answer[1]
  BY <1>1, <1>2, <1>4, <1>6
<1>8. \A i \in 1 .. m : Answer[i].id = posted - n + i /\ Answer[i].id <= posted
  BY <1>2, <1>4, <1>6
<1> QED
  BY <1>1, <1>6, <1>7, <1>8

LEMMA PollFirst == PollInit => PollInv
BY DEF PollInit, PollInv, Run, Gone, InHand

\* What was given up or dispatched stays so.
LEMMA GoneStays ==
  ASSUME NEW n, Gone(n), ever \subseteq ever', given \subseteq given'
  PROVE  1 .. n \subseteq ever' \cup given'
BY DEF Gone

LEMMA PollStep == PollInv /\ [PollNext]_pollVars => PollInv'
<1> SUFFICES ASSUME PollInv, [PollNext]_pollVars PROVE PollInv'
  OBVIOUS
<1>0. /\ posted \in Nat /\ offset \in Nat /\ offset <= posted + 1
      /\ server \in Seq(Updates) /\ Len(server) \in Nat /\ Len(server) <= posted
      /\ fetched \in Seq(Updates)
  BY DEF PollInv, Run, InHand
\* a request that only moves the server on
<1>a. ASSUME server' \in {server, Asked}, UNCHANGED <<posted, offset, ever, given, handled, twice, fetched, task>>
      PROVE  PollInv'
  <2>1. (Run(server) /\ Gone(posted - Len(server)))'
    BY <1>a, AskedIs DEF PollInv, Run, Gone
  <2> QED
    BY <1>a, <2>1 DEF PollInv, Run, Gone, InHand
<1>1. ASSUME NEW size \in Sizes, Send(size) PROVE PollInv'
  <2>1. /\ posted' = posted + 1 /\ server' = Append(server, [id |-> posted + 1, size |-> size])
        /\ UNCHANGED <<offset, task, fetched, handled, twice, ever, given>>
    BY <1>1 DEF Send, bookkeeping
  <2>2. [id |-> posted + 1, size |-> size] \in Updates
    BY <1>0, UpdatesAssumption DEF Updates, UpdatesAssumption
  <2>3. PICK n \in Nat : n = Len(server)
    BY <1>0
  <2>4. /\ server' \in Seq(Updates) /\ Len(server') = n + 1
        /\ \A i \in 1 .. n : server'[i] = server[i]
        /\ server'[n + 1].id = posted + 1
    BY <1>0, <2>1, <2>2, <2>3
  <2>5. Run(server)'
    <3>1. \A i \in 1 .. n : server[i].id = posted - n + i
      BY <2>3 DEF PollInv, Run
    <3>2. \A i \in 1 .. n + 1 : server'[i].id = (posted + 1) - (n + 1) + i
      <4> TAKE i \in 1 .. n + 1
      <4>1. CASE i = n + 1
        BY <1>0, <2>4, <4>1
      <4>2. CASE i # n + 1
        <5>1. i \in 1 .. n
          BY <4>2
        <5> QED
          BY <1>0, <2>3, <2>4, <3>1, <5>1
      <4> QED
        BY <4>1, <4>2
    <3>3. n + 1 <= posted + 1
      BY <1>0, <2>3
    <3> QED
      BY <2>1, <2>4, <3>2, <3>3 DEF Run
  <2>6. posted' - Len(server') = posted - Len(server)
    BY <1>0, <2>1, <2>3, <2>4
  <2>7. Gone(posted - Len(server))' /\ Gone(offset - 1)'
    BY <2>1, <2>6 DEF PollInv, Gone
  <2>8. InHand'
    <3>1. \A i \in 1 .. Len(fetched) : fetched[i].id \in Nat
      BY <1>0, UpdateIs
    <3> QED
      BY <1>0, <2>1, <3>1 DEF PollInv, InHand, Gone
  <2>9. posted' \in Nat /\ offset' \in 0 .. posted' + 1
    BY <1>0, <2>1
  <2> QED
    BY <2>1, <2>5, <2>7, <2>8, <2>9 DEF PollInv
<1>2. CASE Discard
  <2>1. task = "discard" /\ task' = "poll" /\ UNCHANGED <<posted, fetched, handled, twice, ever>>
    BY <1>2 DEF Discard, bookkeeping
  <2>2. fetched = <<>>
    BY <2>1 DEF PollInv, InHand
  <2>3. InHand'
    BY <2>1, <2>2 DEF InHand, PollInv
  <2>4. CASE server = <<>>
    <3>1. UNCHANGED <<server, offset, given>>
      BY <1>2, <2>4 DEF Discard
    <3> QED
      BY <2>1, <2>3, <3>1 DEF PollInv, Run, Gone
  <2>5. CASE server # <<>>
    <3>1. PICK n \in Nat : n = Len(server) /\ n > 0
      BY <1>0, <2>5
    <3>2. Last(server) = server[n] /\ server[n] \in Updates /\ server[n].id = posted
      <4>1. server[n].id = posted - n + n
        BY <3>1 DEF PollInv, Run
      <4> QED
        BY <1>0, <3>1, <4>1 DEF Last
    <3>3. /\ server' = <<server[n]>> /\ offset' = posted + 1
          /\ given' = given \cup (posted - n + 1 .. posted)
      BY <1>0, <1>2, <2>5, <3>1, <3>2, RunIds DEF Discard, PollInv
    <3>4. Gone(posted)'
      <4>1. Gone(posted - n)
        BY <3>1 DEF PollInv
      <4> QED
        BY <1>0, <2>1, <3>1, <3>3, <4>1 DEF Gone
    <3>5. Run(server)' /\ Len(server') = 1
      BY <1>0, <2>1, <3>1, <3>2, <3>3 DEF Run
    <3>6. Gone(posted - Len(server))' /\ Gone(offset - 1)'
      BY <1>0, <2>1, <3>3, <3>4, <3>5 DEF Gone
    <3>7. handled' \subseteq 0 .. offset' - 1 /\ offset' \in 0 .. posted' + 1
      BY <1>0, <2>1, <3>3 DEF PollInv
    <3> QED
      BY <1>0, <2>1, <2>3, <3>5, <3>6, <3>7 DEF PollInv
  <2> QED
    BY <2>4, <2>5
<1>3. CASE DiscardLost
  <2>1. /\ task = "discard" /\ task' = "poll"
        /\ UNCHANGED <<posted, offset, fetched, handled, twice, ever>>
    BY <1>3 DEF DiscardLost, bookkeeping
  <2>2. fetched = <<>>
    BY <2>1 DEF PollInv, InHand
  <2>3. InHand'
    BY <2>1, <2>2 DEF InHand, PollInv
  <2>4. CASE UNCHANGED <<server, given>>
    BY <2>1, <2>3, <2>4 DEF PollInv, Run, Gone
  <2>5. CASE /\ server # <<>> /\ server' = <<Last(server)>>
             /\ given' = given \cup Ids(Front(server))
    <3>1. PICK n \in Nat : n = Len(server) /\ n > 0
      BY <1>0, <2>5
    <3>2. Last(server) = server[n] /\ server[n] \in Updates /\ server[n].id = posted
      <4>1. server[n].id = posted - n + n
        BY <3>1 DEF PollInv, Run
      <4> QED
        BY <1>0, <3>1, <4>1 DEF Last
    <3>3. posted - n + 1 .. posted - 1 \subseteq Ids(Front(server))
      <4>1. /\ Front(server) = SubSeq(server, 1, n - 1)
            /\ DOMAIN Front(server) = 1 .. n - 1
            /\ \A i \in 1 .. n - 1 : Front(server)[i] = server[i]
        BY <1>0, <3>1 DEF Front
      <4>2. ToSet(Front(server)) = {server[i] : i \in 1 .. n - 1}
        BY <4>1 DEF ToSet
      <4>3. \A i \in 1 .. n : server[i].id = posted - n + i
        BY <3>1 DEF PollInv, Run
      <4>4. ASSUME NEW x \in posted - n + 1 .. posted - 1 PROVE x \in Ids(Front(server))
        <5>1. x - posted + n \in 1 .. n - 1 /\ x - posted + n \in 1 .. n
              /\ x = posted - n + (x - posted + n)
          BY <1>0, <3>1, <4>4
        <5>2. server[x - posted + n].id = x
          BY <4>3, <5>1
        <5>3. server[x - posted + n] \in ToSet(Front(server))
          BY <4>2, <5>1
        <5> QED
          BY <5>2, <5>3 DEF Ids
      <4> QED
        BY <4>4
    <3>4. Gone(posted - 1)'
      <4>1. Gone(posted - n)
        BY <3>1 DEF PollInv
      <4> QED
        BY <1>0, <2>1, <2>5, <3>1, <3>3, <4>1 DEF Gone
    <3>5. Run(server)' /\ Len(server') = 1
      BY <1>0, <2>1, <2>5, <3>1, <3>2 DEF Run
    <3>6. Gone(posted - Len(server))'
      BY <1>0, <2>1, <3>4, <3>5 DEF Gone
    <3>7. Gone(offset - 1)'
      BY <2>1, <2>5 DEF PollInv, Gone
    <3> QED
      BY <1>0, <2>1, <2>3, <3>5, <3>6, <3>7 DEF PollInv
  <2> QED
    BY <1>3, <2>4, <2>5 DEF DiscardLost
<1>4. CASE Poll
  <2>1. /\ task = "poll" /\ server' = Asked /\ fetched' = Answer
        /\ task' = (IF Answer = <<>> THEN "poll" ELSE "handle")
        /\ UNCHANGED <<posted, offset, handled, twice, ever, given>>
    BY <1>4 DEF Poll, bookkeeping
  <2>2. (Run(server) /\ Gone(posted - Len(server)))'
    BY <2>1, AskedIs DEF Run, Gone
  <2>3. InHand'
    <3>1. CASE Answer = <<>>
      BY <2>1, <3>1, AnswerIs DEF InHand
    <3>2. CASE Answer # <<>>
      <4>1. PICK k \in Nat : k = posted - Len(Asked)
        BY <1>0, AskedIs DEF Run
      <4>2. /\ offset <= k + 1 /\ Gone(k) /\ Answer \in Seq(Updates) /\ Len(Answer) > 0 /\ Len(Answer) \in Nat
            /\ \A i \in 1 .. Len(Answer) : Answer[i].id = k + i /\ Answer[i].id <= posted
        BY <3>2, <4>1, AskedIs, AnswerIs
      <4>3. Answer[1].id = k + 1
        BY <4>2
      <4>4. \A i \in 1 .. Len(Answer) : Answer[i].id = Answer[1].id + i - 1 /\ Answer[i].id <= posted
        BY <4>2, <4>3
      <4>5. offset <= Answer[1].id /\ Gone(Answer[1].id - 1)
        BY <4>1, <4>2, <4>3
      <4>6. 1 .. Answer[1].id - 1 \subseteq ever' \cup given'
        BY <2>1, <4>5 DEF Gone
      <4>7. /\ fetched' \in Seq(Updates) /\ task' = "handle" /\ fetched' # <<>>
            /\ offset' <= fetched'[1].id /\ Gone(fetched[1].id - 1)'
            /\ \A i \in 1 .. Len(fetched') :
                 fetched'[i].id = fetched'[1].id + i - 1 /\ fetched'[i].id <= posted'
        BY <2>1, <3>2, <4>2, <4>4, <4>5, <4>6 DEF Gone
      <4> QED
        BY <4>7 DEF InHand
    <3> QED
      BY <3>1, <3>2
  <2> QED
    BY <2>1, <2>2, <2>3 DEF PollInv, Gone
<1>5. CASE PollLost
  BY <1>a, <1>5 DEF PollLost, bookkeeping
<1>6. CASE PollCut
  <2>1. /\ task = "poll" /\ Answer # <<>> /\ server' = Asked
        /\ offset' = Head(Answer).id + 1 /\ given' = given \cup {Head(Answer).id}
        /\ UNCHANGED <<posted, task, fetched, handled, twice, ever>>
    BY <1>6 DEF PollCut, bookkeeping, OffsetPastFirst
  <2>2. PICK k \in Nat : k = posted - Len(Asked)
    BY <1>0, AskedIs DEF Run
  <2>3. offset <= k + 1 /\ Gone(k) /\ Head(Answer).id = k + 1 /\ k + 1 <= posted
    <3>1. 1 \in 1 .. Len(Answer)
      BY <2>1, AnswerIs
    <3> QED
      BY <2>1, <2>2, <3>1, AskedIs, AnswerIs
  <2>4. Gone(k + 1)'
    BY <2>1, <2>2, <2>3 DEF Gone
  <2>5. Run(server)'
    BY <2>1, AskedIs DEF Run
  <2>6. Gone(posted - Len(server))'
    BY <2>1, <2>2, <2>3 DEF Gone
  <2>7. Gone(offset - 1)'
    BY <2>1, <2>2, <2>3, <2>4 DEF Gone
  <2>8. InHand'
    BY <2>1 DEF InHand, PollInv
  <2>9. offset' \in 0 .. posted' + 1 /\ handled' \subseteq 0 .. offset' - 1
    BY SMTT(20), <1>0, <2>1, <2>2, <2>3 DEF PollInv
  <2> QED
    BY <1>0, <2>1, <2>5, <2>6, <2>7, <2>8, <2>9 DEF PollInv
<1>7. CASE PollUnreadable
  BY <1>a, <1>7 DEF PollUnreadable, bookkeeping
<1>8. CASE HandleUpdate
  <2>1. task = "handle" /\ fetched # <<>>
    BY <1>8 DEF HandleUpdate, PollInv, InHand
  <2>2. PICK n \in Nat : n = Len(fetched) /\ n > 0
    BY <1>0, <2>1
  <2>3. PICK u \in Nat : u = fetched[1].id
    <3>1. 1 \in 1 .. Len(fetched)
      BY <2>2
    <3> QED
      BY <1>0, <3>1, UpdateIs
  <2>4. /\ offset <= u /\ Gone(u - 1)
        /\ \A i \in 1 .. n : fetched[i].id = u + i - 1 /\ fetched[i].id <= posted
    BY <2>1, <2>2, <2>3 DEF PollInv, InHand
  <2>5. u <= posted
    BY <2>2, <2>3, <2>4
  <2>6. u \notin handled
    BY <1>0, <2>3, <2>4 DEF PollInv
  <2>7. Head(fetched).id = u
    BY <1>0, <2>1, <2>3
  <2>8. /\ offset' = u + 1 /\ twice' = twice /\ handled' = handled \cup {u} /\ ever' = ever \cup {u}
        /\ fetched' = Tail(fetched) /\ task' = (IF n = 1 THEN "poll" ELSE "handle")
        /\ UNCHANGED <<server, posted, given>>
    BY <1>8, <2>2, <2>4, <2>6, <2>7 DEF HandleUpdate, NextOffset
  <2>9. Gone(u)' /\ Gone(offset - 1)'
    <3>1. Gone(u)'
      BY <2>3, <2>4, <2>8 DEF Gone
    <3>2. offset' - 1 = u
      BY <2>3, <2>8
    <3> QED
      BY <3>1, <3>2 DEF Gone
  <2>10. Run(server)' /\ Gone(posted - Len(server))'
    BY <2>8 DEF PollInv, Run, Gone
  <2>11. InHand'
    <3>1. /\ fetched' \in Seq(Updates) /\ Len(fetched') = n - 1
          /\ \A i \in 1 .. n - 1 : fetched'[i] = fetched[i + 1]
      BY <1>0, <2>1, <2>2, <2>8
    <3>2. CASE n = 1
      BY <2>8, <3>1, <3>2 DEF InHand
    <3>3. CASE n > 1
      <4>1. \A i \in 1 .. n - 1 : fetched'[i].id = u + i /\ fetched'[i].id <= posted
        BY <2>2, <2>3, <2>4, <3>1
      <4>2. fetched'[1].id = u + 1 /\ fetched' # <<>> /\ task' = "handle"
        <5>1. 1 \in 1 .. n - 1
          BY <2>2, <3>3
        <5>2. fetched'[1].id = u + 1
          BY <4>1, <5>1
        <5>3. fetched' # <<>>
          BY <3>1, <5>1
        <5>4. task' = "handle"
          BY <2>2, <2>8, <3>3
        <5> QED
          BY <5>2, <5>3, <5>4
      <4>3. offset' <= fetched'[1].id /\ fetched'[1].id - 1 = u
        BY <2>3, <2>8, <4>2
      <4>4. Gone(fetched[1].id - 1)'
        BY <2>9, <4>3 DEF Gone
      <4>5. \A i \in 1 .. Len(fetched') :
              fetched'[i].id = fetched'[1].id + i - 1 /\ fetched'[i].id <= posted'
        <5> TAKE i \in 1 .. Len(fetched')
        <5>1. i \in 1 .. n - 1 /\ i \in Nat
          BY <2>2, <3>1
        <5>2. fetched'[i].id = u + i /\ fetched'[i].id <= posted /\ fetched'[1].id = u + 1
          BY <4>1, <4>2, <5>1
        <5>3. posted' = posted
          BY <2>8
        <5> QED
          BY <2>3, <5>1, <5>2, <5>3
      <4> QED
        BY <3>1, <4>2, <4>3, <4>4, <4>5 DEF InHand
    <3> QED
      BY <2>2, <3>2, <3>3
  <2>12. offset' \in 0 .. posted' + 1 /\ handled' \subseteq 0 .. offset' - 1
    <3>1. offset' = u + 1 /\ posted' = posted /\ handled' = handled \cup {u}
      BY <2>8
    <3>2. handled \subseteq 0 .. offset - 1
      BY DEF PollInv
    <3>3. handled \subseteq 0 .. u
      BY <1>0, <2>3, <2>4, <3>2
    <3>4. u + 1 \in 0 .. posted + 1
      BY <1>0, <2>3, <2>5
    <3>5. offset' - 1 = u /\ u \in 0 .. u
      BY <2>3, <3>1
    <3> QED
      BY <3>1, <3>3, <3>4, <3>5
  <2> QED
    BY <1>0, <2>8, <2>9, <2>10, <2>11, <2>12 DEF PollInv
<1>9. CASE Restart
  <2>1. /\ offset' = 0 /\ task' = "discard" /\ fetched' = <<>> /\ handled' = {} /\ twice' = {}
        /\ UNCHANGED <<server, posted, ever, given>>
    BY <1>9 DEF Restart
  <2>2. InHand'
    BY <2>1 DEF InHand
  <2>3. Gone(offset - 1)'
    BY <2>1 DEF Gone
  <2>4. Run(server)' /\ Gone(posted - Len(server))'
    BY <2>1 DEF PollInv, Run, Gone
  <2> QED
    BY <1>0, <2>1, <2>2, <2>3, <2>4 DEF PollInv
<1>10. CASE UNCHANGED pollVars
  BY <1>a, <1>10 DEF pollVars, bookkeeping
<1> QED
  BY <1>1, <1>2, <1>3, <1>4, <1>5, <1>6, <1>7, <1>8, <1>9, <1>10 DEF PollNext

\* No update is dispatched twice between two starts, and the server only forgets one that
\* was dispatched or given up: however many updates come, however answers are lost, cut or
\* unreadable, and whenever the station restarts (telegram_service.c:2763-2913).
THEOREM UpdatesKept == PollSpec => []PollSound
<1>1. PollInv => PollSound
  <2> SUFFICES ASSUME PollInv PROVE PollSound
    OBVIOUS
  <2>1. Ids(server) = posted - Len(server) + 1 .. posted
    BY RunIds DEF PollInv
  <2>2. PICK n \in Nat : n = Len(server) /\ n <= posted
    BY DEF PollInv, Run
  <2>3. NothingLost
    <3> SUFFICES ASSUME NEW x \in 1 .. posted, x \notin Ids(server) PROVE x \in ever \cup given
      BY DEF NothingLost
    <3>1. x \in 1 .. posted - n
      BY <2>1, <2>2 DEF PollInv
    <3> QED
      BY <2>2, <3>1 DEF PollInv, Gone
  <2> QED
    BY <2>3 DEF PollInv, PollSound, HandledOnce
<1> QED
  BY PollFirst, PollStep, <1>1, PTL DEF PollSpec

\* The service keeps its requests and its updates, where no release stops waiting for the
\* polling task.
THEOREM ServiceKept ==
  ASSUME MaxLateStops = 0
  PROVE  LinkSpec /\ PollSpec => []ServiceSound
<1>1. LinkSpec => []LinkSound
  BY LinkKept, NeverLate, PTL
<1>2. LinkSound /\ PollSound => ServiceSound
  BY DEF ServiceSound
<1> QED
  BY <1>1, <1>2, UpdatesKept, PTL

-----------------------------------------------------------------------------
(* Strangers: who is told a number, and how often *)

Strangers == [id : People, at : Nat]

RefusalTypes ==
  /\ clock \in Nat /\ clock # 0
  /\ told \in [People -> Nat] /\ since \in [People -> SUBSET People]
  /\ \A p \in People : IsFiniteSet(since[p])
  /\ unknown \in Seq(Strangers) /\ Len(unknown) <= MaxUnknown

\* No two strangers are told at the same time, and who was told after whom is known.
ToldInOrder ==
  /\ \A p \in People : told[p] < clock
  /\ \A p, q \in People : told[p] # 0 /\ told[p] = told[q] => p = q
  /\ \A p, q \in People : told[p] # 0 => (q \in since[p] <=> told[p] < told[q])

InTable(p) == \E i \in 1 .. Len(unknown) : unknown[i].id = p

\* An entry is the last time its stranger was told; a stranger who was told and has none gave it
\* up to others who were all told later.
TableRemembers ==
  /\ \A i \in 1 .. Len(unknown) : unknown[i].at # 0 /\ unknown[i].at = told[unknown[i].id]
  /\ \A i, j \in 1 .. Len(unknown) : unknown[i].id = unknown[j].id => i = j
  /\ \A p \in People : told[p] # 0 /\ ~InTable(p) =>
        Len(unknown) = MaxUnknown /\ \A i \in 1 .. Len(unknown) : told[p] < unknown[i].at

RefusalInv == RefusalTypes /\ ToldInOrder /\ TableRemembers

LEMMA UnknownCount == MaxUnknown \in Nat /\ MaxUnknown > 0 /\ Window \in Nat
<1>1. MaxUnknown \in Nat \ {0}
  BY DispatchAssumption
<1>2. Window \in Nat
  BY DispatchAssumption
<1> QED
  BY <1>1, <1>2

LEMMA EntriesAre ==
  ASSUME unknown \in Seq(Strangers)
  PROVE  /\ Len(unknown) \in Nat /\ DOMAIN unknown = 1 .. Len(unknown)
         /\ \A i \in 1 .. Len(unknown) : unknown[i].id \in People /\ unknown[i].at \in Nat
<1>1. \A i \in 1 .. Len(unknown) : unknown[i] \in Strangers
  OBVIOUS
<1>2. \A e \in Strangers : e.id \in People /\ e.at \in Nat
  BY DEF Strangers
<1> QED
  BY <1>1, <1>2

LEMMA MinOf ==
  ASSUME NEW S \in SUBSET Nat, S # {}
  PROVE  Min(S) \in S /\ \A y \in S : Min(S) <= y
<1> DEFINE R == {p \in Nat \X Nat : p[1] < p[2]}
<1>1. IsWellFoundedOn(R, Nat)
  BY NatLessThanWellFounded, Zenon DEF OpToRel
<1>2. PICK x \in S : \A y \in S : ~(<<y, x>> \in R)
  <2> HIDE DEF R
  <2> QED
    BY <1>1, WFMin
<1>3. \A y \in S : x <= y
  <2>1. ASSUME NEW y \in S PROVE x <= y
    <3>1. x \in Nat /\ y \in Nat
      OBVIOUS
    <3>2. ~(y < x)
      BY <1>2, <3>1
    <3> QED
      BY <3>1, <3>2
  <2> QED
    BY <2>1
<1> QED
  BY <1>3, Zenon DEF Min

\* The entry that goes is the one stamped first.
LEMMA OldestIs ==
  ASSUME unknown \in Seq(Strangers), Len(unknown) > 0
  PROVE  Oldest \in 1 .. Len(unknown) /\ \A i \in 1 .. Len(unknown) : unknown[Oldest].at <= unknown[i].at
<1> DEFINE times == {unknown[i].at : i \in DOMAIN unknown}
           firsts == {i \in DOMAIN unknown : unknown[i].at = Min(times)}
<1>1. DOMAIN unknown = 1 .. Len(unknown) /\ Len(unknown) \in Nat /\ \A i \in 1 .. Len(unknown) : unknown[i].at \in Nat
  BY EntriesAre
<1>2. times \in SUBSET Nat /\ times # {}
  <2>1. 1 \in DOMAIN unknown
    BY <1>1
  <2>2. unknown[1].at \in times
    BY <2>1
  <2> QED
    BY <1>1, <2>2
<1>3. Min(times) \in times /\ \A y \in times : Min(times) <= y
  <2> HIDE DEF times
  <2> QED
    BY <1>2, MinOf
<1>4. firsts \in SUBSET Nat /\ firsts # {}
  <2>1. PICK i \in DOMAIN unknown : unknown[i].at = Min(times)
    BY <1>3
  <2>2. i \in firsts
    BY <2>1
  <2>3. firsts \subseteq DOMAIN unknown /\ DOMAIN unknown \subseteq Nat
    BY <1>1
  <2> HIDE DEF firsts
  <2> QED
    BY <2>2, <2>3
<1>5. Min(firsts) \in firsts
  <2> HIDE DEF firsts
  <2> QED
    BY <1>4, MinOf
<1>6. Oldest = Min(firsts)
  BY DEF Oldest
<1>7. Oldest \in DOMAIN unknown /\ unknown[Oldest].at = Min(times)
  <2> HIDE DEF times
  <2> QED
    BY <1>5, <1>6
<1>8. \A i \in DOMAIN unknown : unknown[Oldest].at <= unknown[i].at
  BY <1>3, <1>7
<1> QED
  BY <1>1, <1>7, <1>8

\* telegram_unknown_reply_due() writes over the sender's entry, a free one or the oldest.
LEMMA RememberedIs ==
  ASSUME RefusalTypes, NEW p \in People
  PROVE  LET entry == [id |-> p, at |-> clock] IN
         \/ \E j \in 1 .. Len(unknown) : unknown[j].id = p /\ Remembered(p) = [unknown EXCEPT ![j] = entry]
         \/ ~InTable(p) /\ Len(unknown) < MaxUnknown /\ Remembered(p) = Append(unknown, entry)
         \/ \E j \in 1 .. Len(unknown) :
               /\ ~InTable(p) /\ Len(unknown) = MaxUnknown /\ Remembered(p) = [unknown EXCEPT ![j] = entry]
               /\ \A i \in 1 .. Len(unknown) : unknown[j].at <= unknown[i].at
<1> DEFINE entry == [id |-> p, at |-> clock]
<1>0. unknown \in Seq(Strangers) /\ Len(unknown) <= MaxUnknown /\ Len(unknown) \in Nat
  BY DEF RefusalTypes
<1>1. Entry(unknown, p) = {i \in 1 .. Len(unknown) : unknown[i].id = p}
  BY <1>0 DEF Entry
<1>2. CASE Entry(unknown, p) # {}
  <2>1. PICK j : j = (CHOOSE i \in Entry(unknown, p) : TRUE)
    OBVIOUS
  <2>2. j \in Entry(unknown, p)
    BY <1>2, <2>1
  <2>3. Remembered(p) = [unknown EXCEPT ![j] = entry]
    BY <1>2, <2>1 DEF Remembered
  <2> QED
    BY <1>1, <2>2, <2>3
<1>3. CASE Entry(unknown, p) = {} /\ Len(unknown) < MaxUnknown
  <2>1. Remembered(p) = Append(unknown, entry)
    BY <1>3 DEF Remembered
  <2>2. ~InTable(p)
    BY <1>1, <1>3 DEF InTable
  <2> QED
    BY <1>3, <2>1, <2>2
<1>4. CASE Entry(unknown, p) = {} /\ ~(Len(unknown) < MaxUnknown)
  <2>1. Len(unknown) = MaxUnknown /\ Len(unknown) > 0
    BY <1>0, <1>4, UnknownCount
  <2>2. Remembered(p) = [unknown EXCEPT ![Oldest] = entry]
    BY <1>4 DEF Remembered
  <2>3. ~InTable(p)
    BY <1>1, <1>4 DEF InTable
  <2> QED
    BY <1>0, <2>1, <2>2, <2>3, OldestIs
<1> QED
  BY <1>2, <1>3, <1>4

LEMMA RefusalStart == DispatchInit => RefusalInv
<1> SUFFICES ASSUME DispatchInit PROVE RefusalInv
  OBVIOUS
<1>1. /\ unknown = <<>> /\ clock = 1
      /\ told = [p \in People |-> 0] /\ since = [p \in People |-> {}]
  BY DEF DispatchInit
<1>2. RefusalTypes
  BY <1>1, UnknownCount, FS_EmptySet DEF RefusalTypes
<1>3. ToldInOrder
  BY <1>1 DEF ToldInOrder
<1>4. TableRemembers
  BY <1>1 DEF TableRemembers
<1> QED
  BY <1>2, <1>3, <1>4 DEF RefusalInv

\* A stranger is told, and the table remembers it.
LEMMA TellKeeps ==
  ASSUME RefusalInv, NEW p \in People, clock' = clock + 1, unknown' = Remembered(p),
         told' = [told EXCEPT ![p] = clock],
         since' = [q \in People |-> IF q = p THEN {} ELSE since[q] \cup {p}]
  PROVE  RefusalInv'
<1> DEFINE entry == [id |-> p, at |-> clock]
<1>0. /\ clock \in Nat /\ clock # 0
      /\ told \in [People -> Nat] /\ since \in [People -> SUBSET People]
      /\ \A q \in People : IsFiniteSet(since[q])
      /\ unknown \in Seq(Strangers) /\ Len(unknown) <= MaxUnknown /\ Len(unknown) \in Nat
      /\ \A i \in 1 .. Len(unknown) : unknown[i].id \in People /\ unknown[i].at \in Nat
  BY EntriesAre DEF RefusalInv, RefusalTypes
<1>1. told' \in [People -> Nat] /\ told'[p] = clock /\ \A q \in People : q # p => told'[q] = told[q]
  BY <1>0
<1>2. /\ since' \in [People -> SUBSET People] /\ since'[p] = {}
      /\ \A q \in People : q # p => since'[q] = since[q] \cup {p}
  BY <1>0
<1>3. \A q \in People : IsFiniteSet(since'[q])
  <2>1. ASSUME NEW q \in People PROVE IsFiniteSet(since'[q])
    <3>1. CASE q = p
      BY <1>2, <3>1, FS_EmptySet
    <3>2. CASE q # p
      <4>1. IsFiniteSet(since[q] \cup {p})
        BY <1>0, FS_AddElement
      <4> QED
        BY <1>2, <3>2, <4>1
    <3> QED
      BY <3>1, <3>2
  <2> QED
    BY <2>1
<1>4. entry \in Strangers
  BY <1>0 DEF Strangers
<1>5. \A q \in People : told[q] < clock
  BY DEF RefusalInv, ToldInOrder
<1>6. ToldInOrder'
  <2>1. ASSUME NEW q \in People PROVE told'[q] < clock'
    <3>1. told[q] \in Nat /\ told[q] < clock /\ (told'[q] = clock \/ told'[q] = told[q])
      BY <1>0, <1>1, <1>5
    <3> QED
      BY <1>0, <3>1
  <2>2. ASSUME NEW q \in People, NEW r \in People, told'[q] # 0, told'[q] = told'[r]
        PROVE  q = r
    <3>1. CASE q = p /\ r # p
      BY <1>0, <1>1, <1>5, <2>2, <3>1
    <3>2. CASE q # p /\ r = p
      BY <1>0, <1>1, <1>5, <2>2, <3>2
    <3>3. CASE q # p /\ r # p
      BY <1>1, <2>2, <3>3 DEF RefusalInv, ToldInOrder
    <3> QED
      BY <3>1, <3>2, <3>3
  <2>3. ASSUME NEW q \in People, NEW r \in People, told'[q] # 0
        PROVE  r \in since'[q] <=> told'[q] < told'[r]
    <3>1. CASE q = p
      <4>1. told'[q] = clock /\ r \notin since'[q]
        BY <1>1, <1>2, <3>1
      <4>2. told'[r] <= clock /\ told'[r] \in Nat
        BY <1>0, <1>1, <1>5
      <4> QED
        BY <1>0, <4>1, <4>2
    <3>2. CASE q # p /\ r = p
      <4>1. told'[q] = told[q] /\ told'[r] = clock /\ r \in since'[q]
        BY <1>1, <1>2, <3>2
      <4> QED
        BY <1>5, <4>1
    <3>3. CASE q # p /\ r # p
      <4>1. told'[q] = told[q] /\ told'[r] = told[r] /\ (r \in since'[q] <=> r \in since[q])
        BY <1>1, <1>2, <3>3
      <4>2. r \in since[q] <=> told[q] < told[r]
        BY <2>3, <4>1 DEF RefusalInv, ToldInOrder
      <4> QED
        BY <4>1, <4>2
    <3> QED
      BY <3>1, <3>2, <3>3
  <2> QED
    BY <2>1, <2>2, <2>3 DEF ToldInOrder
<1>7. /\ \A i \in 1 .. Len(unknown) : unknown[i].at # 0 /\ unknown[i].at = told[unknown[i].id] /\ unknown[i].at < clock
      /\ \A i, j \in 1 .. Len(unknown) : unknown[i].id = unknown[j].id => i = j
      /\ \A q \in People : told[q] # 0 /\ ~InTable(q) =>
            Len(unknown) = MaxUnknown /\ \A i \in 1 .. Len(unknown) : told[q] < unknown[i].at
  BY <1>0, <1>5 DEF RefusalInv, TableRemembers
<1>8. ASSUME unknown' \in Seq(Strangers), Len(unknown') <= MaxUnknown, TableRemembers' PROVE RefusalInv'
  <2>1. clock' \in Nat /\ clock' # 0
    BY <1>0
  <2>2. told' \in [People -> Nat] /\ since' \in [People -> SUBSET People] /\ \A q \in People : IsFiniteSet(since'[q])
    BY <1>1, <1>2, <1>3
  <2>3. RefusalTypes'
    BY <1>8, <2>1, <2>2 DEF RefusalTypes
  <2> QED
    BY <1>6, <1>8, <2>3 DEF RefusalInv
<1> HIDE DEF entry
<1>e. entry.id = p /\ entry.at = clock
  BY DEF entry
\* an entry is written over: the stranger's own, or the oldest of a full table
<1>9. ASSUME NEW j \in 1 .. Len(unknown), unknown' = [unknown EXCEPT ![j] = entry],
             unknown[j].id = p \/ (~InTable(p) /\ Len(unknown) = MaxUnknown
                                   /\ \A i \in 1 .. Len(unknown) : unknown[j].at <= unknown[i].at)
      PROVE  RefusalInv'
  <2>1. /\ unknown' \in Seq(Strangers) /\ Len(unknown') = Len(unknown)
        /\ unknown'[j] = entry /\ \A i \in 1 .. Len(unknown) : i # j => unknown'[i] = unknown[i]
    BY <1>0, <1>4, <1>9
  <2>2. \A i \in 1 .. Len(unknown) : i # j => unknown[i].id # p
    BY <1>7, <1>9 DEF InTable
  <2>3. ASSUME NEW i \in 1 .. Len(unknown)
        PROVE  unknown'[i].at # 0 /\ unknown'[i].at = told'[unknown'[i].id]
    <3>1. CASE i = j
      BY <1>0, <1>1, <1>e, <2>1, <3>1
    <3>2. CASE i # j
      BY <1>0, <1>1, <1>7, <2>1, <2>2, <3>2
    <3> QED
      BY <3>1, <3>2
  <2>4. ASSUME NEW i \in 1 .. Len(unknown), NEW k \in 1 .. Len(unknown), unknown'[i].id = unknown'[k].id
        PROVE  i = k
    <3>1. CASE i = j /\ k # j
      BY <1>e, <2>1, <2>2, <2>4, <3>1
    <3>2. CASE i # j /\ k = j
      BY <1>e, <2>1, <2>2, <2>4, <3>2
    <3>3. CASE i # j /\ k # j
      BY <1>7, <2>1, <2>4, <3>3
    <3> QED
      BY <3>1, <3>2, <3>3
  <2>5. ASSUME NEW q \in People, told'[q] # 0, ~InTable(q)'
        PROVE  Len(unknown) = MaxUnknown /\ \A i \in 1 .. Len(unknown) : told'[q] < unknown'[i].at
    <3>1. q # p /\ told'[q] = told[q] /\ told[q] # 0
      BY <1>1, <1>e, <2>1, <2>5 DEF InTable
    <3>2. \A i \in 1 .. Len(unknown) : i # j => unknown[i].id # q
      BY <2>1, <2>5 DEF InTable
    <3>3. told[q] < clock /\ told[q] \in Nat
      BY <1>0, <1>5
    <3>4. CASE unknown[j].id = q
      <4>1. Len(unknown) = MaxUnknown /\ \A i \in 1 .. Len(unknown) : unknown[j].at <= unknown[i].at
        BY <1>9, <3>1, <3>4
      <4>2. unknown[j].at = told[q]
        BY <1>7, <3>4
      <4>3. ASSUME NEW i \in 1 .. Len(unknown) PROVE told'[q] < unknown'[i].at
        <5>1. CASE i = j
          BY <1>e, <2>1, <3>1, <3>3, <5>1
        <5>2. CASE i # j
          <6>1. unknown[i].id \in People /\ unknown[i].id # q /\ unknown[i].at = told[unknown[i].id]
            BY <1>0, <1>7, <3>2, <5>2
          <6>2. told[unknown[i].id] # told[q]
            BY <3>1, <6>1 DEF RefusalInv, ToldInOrder
          <6>3. unknown[i].at # told[q]
            BY <6>1, <6>2
          <6>4. told[q] <= unknown[i].at
            BY <4>1, <4>2
          <6>5. unknown[i].at \in Nat
            BY <1>0
          <6>6. told[q] < unknown[i].at
            BY <3>3, <6>3, <6>4, <6>5
          <6> QED
            BY <2>1, <3>1, <5>2, <6>6
        <5> QED
          BY <5>1, <5>2
      <4> QED
        BY <4>1, <4>3
    <3>5. CASE unknown[j].id # q
      <4>1. ~InTable(q)
        BY <3>2, <3>5 DEF InTable
      <4>2. Len(unknown) = MaxUnknown /\ \A i \in 1 .. Len(unknown) : told[q] < unknown[i].at
        BY <1>7, <3>1, <4>1
      <4>3. ASSUME NEW i \in 1 .. Len(unknown) PROVE told'[q] < unknown'[i].at
        <5>1. CASE i = j
          BY <1>e, <2>1, <3>1, <3>3, <5>1
        <5>2. CASE i # j
          BY <2>1, <3>1, <4>2, <5>2
        <5> QED
          BY <5>1, <5>2
      <4> QED
        BY <4>2, <4>3
    <3> QED
      BY <3>4, <3>5
  <2>6. TableRemembers'
    BY <2>1, <2>3, <2>4, <2>5 DEF TableRemembers
  <2> QED
    BY <1>0, <1>8, <2>1, <2>6
<1>10. ASSUME unknown' = Append(unknown, entry), ~InTable(p), Len(unknown) < MaxUnknown PROVE RefusalInv'
  <2> DEFINE n == Len(unknown) + 1
  <2>1. /\ unknown' \in Seq(Strangers) /\ Len(unknown') = n /\ n \in 1 .. n /\ 1 .. Len(unknown) \subseteq 1 .. n
        /\ unknown'[n] = entry /\ \A i \in 1 .. Len(unknown) : unknown'[i] = unknown[i]
    BY <1>0, <1>4, <1>10
  <2>2. \A i \in 1 .. n : i # n => i \in 1 .. Len(unknown)
    <3>1. Len(unknown) \in Nat
      BY <1>0
    <3> QED
      BY <3>1
  <2> HIDE DEF n
  <2>3. ASSUME NEW i \in 1 .. n
        PROVE  unknown'[i].at # 0 /\ unknown'[i].at = told'[unknown'[i].id]
    <3>1. CASE i = n
      BY <1>0, <1>1, <1>e, <2>1, <3>1
    <3>2. CASE i # n
      BY <1>0, <1>1, <1>7, <1>10, <2>1, <2>2, <3>2 DEF InTable
    <3> QED
      BY <3>1, <3>2
  <2>4. ASSUME NEW i \in 1 .. n, NEW k \in 1 .. n, unknown'[i].id = unknown'[k].id
        PROVE  i = k
    <3>1. CASE i = n /\ k # n
      BY <1>10, <1>e, <2>1, <2>2, <2>4, <3>1 DEF InTable
    <3>2. CASE i # n /\ k = n
      BY <1>10, <1>e, <2>1, <2>2, <2>4, <3>2 DEF InTable
    <3>3. CASE i # n /\ k # n
      BY <1>7, <2>1, <2>2, <2>4, <3>3
    <3> QED
      BY <3>1, <3>2, <3>3
  <2>5. ASSUME NEW q \in People, told'[q] # 0, ~InTable(q)' PROVE FALSE
    <3>1. q # p /\ told[q] # 0
      BY <1>1, <1>e, <2>1, <2>5 DEF InTable
    <3>2. ~InTable(q)
      BY <2>1, <2>5 DEF InTable
    <3> QED
      BY <1>0, <1>7, <1>10, <3>1, <3>2, UnknownCount
  <2>6. TableRemembers'
    BY <2>1, <2>3, <2>4, <2>5 DEF TableRemembers
  <2>7. Len(unknown') <= MaxUnknown
    BY <1>0, <1>10, <2>1, UnknownCount DEF n
  <2> QED
    BY <1>8, <2>1, <2>6, <2>7
<1> QED
  BY <1>9, <1>10, RememberedIs DEF RefusalInv, entry

\* What an update may be: a command names its sender.
Signed(update) == update.kind = "command" => update.from \in People

LEMMA UpdatesAre ==
  ASSUME DispatchNext
  PROVE  DispatchTick \/ \E update : Signed(update) /\ Update(update)
<1>1. CASE Message
  <2>0. PICK who \in People, chat \in Chats \cup {0} : \E content, name :
           Update(From(who, chat # 0, IF chat = 0 THEN who ELSE chat, KindOf(content), name))
    BY <1>1, Zenon DEF Message
  <2>1. PICK content, name :
           Update(From(who, chat # 0, IF chat = 0 THEN who ELSE chat, KindOf(content), name))
    BY <2>0, Zenon
  <2>2. Signed(From(who, chat # 0, IF chat = 0 THEN who ELSE chat, KindOf(content), name))
    BY <2>1 DEF Signed, From
  <2> QED
    BY <2>1, <2>2
<1>2. CASE Press
  <2>1. PICK who, group, chat, name : Update(From(who, group, chat, "callback", name))
    BY <1>2, Zenon DEF Press
  <2>2. Signed(From(who, group, chat, "callback", name))
    BY <2>1 DEF Signed, From
  <2> QED
    BY <2>1, <2>2
<1>3. CASE React
  <2>1. PICK who, group, chat, kind : /\ kind \in {"reaction", "reaction_count"}
                                      /\ Update(From(who, group, chat, kind, "none"))
    BY <1>3, Zenon DEF React
  <2>2. Signed(From(who, group, chat, kind, "none"))
    BY <2>1 DEF Signed, From
  <2> QED
    BY <2>1, <2>2
<1> QED
  BY <1>1, <1>2, <1>3 DEF DispatchNext

\* What an update does to the strangers: nothing, or one of them is told.
Tells(p) ==
  /\ ReplyDue(p) /\ clock' = clock + 1 /\ unknown' = Remembered(p)
  /\ told' = [told EXCEPT ![p] = clock]
  /\ since' = [q \in People |-> IF q = p THEN {} ELSE since[q] \cup {p}]
  /\ outcome'.did = "told"

LEMMA RefusalIs ==
  ASSUME NEW update, Signed(update), Update(update)
  PROVE  \/ \E p \in People : Tells(p)
         \/ /\ UNCHANGED <<unknown, clock, told, since>>
            /\ outcome'.did = "ignored" =>
                  /\ outcome'.from = update.from /\ outcome'.group = update.group /\ outcome'.kind = update.kind
                  /\ ~(Refusable(update) /\ ReplyDue(update.from))
<1>1. CASE Authorize(update)
  <2>1. Serve(update) /\ UNCHANGED <<unknown, clock, told, since>>
    BY <1>1 DEF Update
  <2>2. outcome'.did # "ignored"
    BY <2>1 DEF Serve, Outcome, Command, Button
  <2> QED
    BY <2>1, <2>2
<1>2. CASE ~Authorize(update) /\ Refusable(update) /\ ReplyDue(update.from)
  <2>1. update.from \in People /\ update.from # 0
    BY <1>2, DispatchAssumption DEF Signed, Refusable
  <2>2. Tells(update.from)
    BY <1>2, <2>1 DEF Update, Refuse, Tells, Outcome
  <2> QED
    BY <2>1, <2>2
<1>3. CASE ~Authorize(update) /\ ~(Refusable(update) /\ ReplyDue(update.from))
  <2>1. outcome' = Outcome(update, "ignored") /\ UNCHANGED <<unknown, clock, told, since>>
    BY <1>3 DEF Update, Refuse
  <2> QED
    BY <1>3, <2>1 DEF Outcome
<1> QED
  BY <1>1, <1>2, <1>3

LEMMA RefusalStep == RefusalInv /\ [DispatchNext]_dispatchVars => RefusalInv'
<1> SUFFICES ASSUME RefusalInv, [DispatchNext]_dispatchVars PROVE RefusalInv'
  OBVIOUS
<1>1. CASE \E p \in People : Tells(p)
  BY <1>1, TellKeeps DEF Tells
<1>2. CASE UNCHANGED <<unknown, clock, told, since>>
  BY <1>2 DEF RefusalInv, RefusalTypes, ToldInOrder, TableRemembers, InTable
<1>3. CASE DispatchTick
  <2>1. UNCHANGED <<unknown, told, since>> /\ clock' = clock + 1
    BY <1>3 DEF DispatchTick
  <2>2. RefusalTypes'
    BY <2>1 DEF RefusalInv, RefusalTypes
  <2>3. ToldInOrder'
    <3>1. ASSUME NEW p \in People PROVE told[p] < clock + 1
      <4>1. told[p] \in Nat /\ clock \in Nat /\ told[p] < clock
        BY DEF RefusalInv, RefusalTypes, ToldInOrder
      <4> QED
        BY <4>1
    <3> QED
      BY <2>1, <3>1 DEF RefusalInv, ToldInOrder
  <2>4. TableRemembers'
    BY <2>1 DEF RefusalInv, TableRemembers, InTable
  <2> QED
    BY <2>2, <2>3, <2>4 DEF RefusalInv
<1> QED
  BY <1>1, <1>2, <1>3, UpdatesAre, RefusalIs DEF dispatchVars

\* As many others were told since a stranger as the table has entries, when it has none of them.
LEMMA PushedOut ==
  ASSUME RefusalInv, NEW p \in People, told[p] # 0, ~InTable(p)
  PROVE  Cardinality(since[p]) >= MaxUnknown
<1> DEFINE f == [i \in 1 .. MaxUnknown |-> unknown[i].id]
<1>1. /\ Len(unknown) = MaxUnknown /\ \A i \in 1 .. MaxUnknown : told[p] < unknown[i].at
      /\ \A i \in 1 .. MaxUnknown : unknown[i].at = told[unknown[i].id]
      /\ \A i, j \in 1 .. MaxUnknown : unknown[i].id = unknown[j].id => i = j
  BY DEF RefusalInv, TableRemembers
<1>2. \A i \in 1 .. MaxUnknown : unknown[i].id \in People
  BY <1>1, EntriesAre DEF RefusalInv, RefusalTypes
<1>3. \A i \in 1 .. MaxUnknown : unknown[i].id \in since[p]
  BY <1>1, <1>2 DEF RefusalInv, ToldInOrder
<1>4. f \in Injection(1 .. MaxUnknown, since[p])
  BY <1>1, <1>3 DEF Injection, IsInjective
<1>5. IsFiniteSet(since[p])
  BY DEF RefusalInv, RefusalTypes
<1> HIDE DEF f
<1>6. Cardinality(1 .. MaxUnknown) <= Cardinality(since[p])
  BY <1>4, <1>5, FS_Injection
<1>7. Cardinality(1 .. MaxUnknown) = MaxUnknown
  BY UnknownCount, FS_Interval
<1>8. Cardinality(since[p]) \in Nat
  BY <1>5, FS_CardinalityType
<1> QED
  BY <1>6, <1>7, <1>8, UnknownCount

\* A stranger is told the identifier at most once a window unless as many others were told since
\* as the table has entries, and whoever is due is told: for any people, groups, tables and
\* window (telegram_service.c:2610-2667).
THEOREM RepliesKept == DispatchSpec => RepliesFair
<1>1. ASSUME RefusalInv, DispatchNext, NEW p \in People, told'[p] # told[p], told[p] # 0, clock - told[p] < Window
      PROVE  Cardinality(since[p]) >= MaxUnknown
  <2>1. PICK q \in People : Tells(q)
    BY <1>1, UpdatesAre, RefusalIs DEF DispatchTick
  <2>2. q = p
    BY <1>1, <2>1 DEF Tells, RefusalInv, RefusalTypes
  <2>3. \A i \in Entry(unknown, p) : clock - unknown[i].at >= Window
    BY <2>1, <2>2 DEF Tells, ReplyDue
  <2>4. ~InTable(p)
    <3>1. SUFFICES ASSUME NEW i \in 1 .. Len(unknown), unknown[i].id = p PROVE FALSE
      BY DEF InTable
    <3>2. i \in Entry(unknown, p) /\ unknown[i].at = told[p]
      BY <1>1, <3>1, EntriesAre DEF Entry, RefusalInv, RefusalTypes, TableRemembers
    <3>3. clock - told[p] >= Window
      BY <2>3, <3>2
    <3>4. clock \in Nat /\ told[p] \in Nat /\ Window \in Nat
      BY <1>1, UnknownCount DEF RefusalInv, RefusalTypes
    <3> QED
      BY <1>1, <3>3, <3>4
  <2> QED
    BY <1>1, <2>4, PushedOut
<1>2. ASSUME RefusalInv, DispatchNext, NEW p \in People, outcome'.did = "ignored", outcome'.from = p, Refusable(outcome')
      PROVE  told[p] # 0 /\ clock - told[p] < Window
  <2>1. PICK update : Signed(update) /\ Update(update)
    BY <1>2, UpdatesAre DEF DispatchTick, Nothing, Outcome
  <2>2. /\ outcome'.from = update.from /\ outcome'.group = update.group /\ outcome'.kind = update.kind
        /\ ~(Refusable(update) /\ ReplyDue(update.from))
    BY <1>2, <2>1, RefusalIs DEF Tells
  <2>3. ~ReplyDue(p)
    BY <1>2, <2>2 DEF Refusable
  <2>4. PICK i \in Entry(unknown, p) : ~(clock - unknown[i].at >= Window)
    BY <2>3 DEF ReplyDue
  <2>5. unknown[i].at = told[p] /\ told[p] # 0
    BY <1>2, <2>4, EntriesAre DEF Entry, RefusalInv, RefusalTypes, TableRemembers
  <2>6. clock \in Nat /\ told[p] \in Nat /\ Window \in Nat
    BY <1>2, UnknownCount DEF RefusalInv, RefusalTypes
  <2> QED
    BY <2>4, <2>5, <2>6
<1>3. RefusalInv /\ [DispatchNext]_dispatchVars =>
        [\A p \in People :
          told'[p] # told[p] /\ told[p] # 0 /\ clock - told[p] < Window
              => Cardinality(since[p]) >= MaxUnknown]_dispatchVars
  BY <1>1
<1>4. RefusalInv /\ [DispatchNext]_dispatchVars =>
        [\A p \in People :
          outcome'.did = "ignored" /\ outcome'.from = p /\ Refusable(outcome') /\ outcome' # outcome
              => told[p] # 0 /\ clock - told[p] < Window]_dispatchVars
  BY <1>2
<1> QED
  BY <1>3, <1>4, RefusalStart, RefusalStep, PTL DEF DispatchSpec, RepliesFair, RefusalsSpaced, StrangersTold

-----------------------------------------------------------------------------
(* Bulletins: what is held back as a repeat *)

Texts == {<<b>> : b \in Bulletins}

\* The ring, the calls and the clock keep their types, and a call that is under way has its bulletin.
RouteTypes ==
  /\ seen \in [0 .. Slots - 1 -> [text : Texts \cup {"none"}, at : Nat]]
  /\ next \in 0 .. Slots - 1
  /\ call \in [Callers -> [at : {"idle", "tested", "repeat", "queued"}, bulletin : Texts \cup {<<>>}]]
  /\ \A t \in Callers : call[t].at # "idle" => call[t].bulletin \in Texts
  /\ routeClock \in Nat /\ routeClock # 0
  /\ routed \in [Bulletins -> Nat] /\ others \in [Bulletins -> 0 .. Slots]

\* What the ring holds of a bulletin was routed no earlier; what is about to enter it was routed now.
SeenWasRouted ==
  /\ \A b \in Bulletins : routed[b] <= routeClock
  /\ \A t \in Callers, b \in Bulletins :
        call[t].at = "queued" /\ call[t].bulletin = <<b>> => routed[b] = routeClock
  /\ \A i \in 0 .. Slots - 1, b \in Bulletins :
        seen[i].at # 0 /\ seen[i].text = <<b>> => seen[i].at <= routed[b]

\* The cell of a bulletin that others arrivals have followed.
Remembers(b) ==
  \E i \in 0 .. Slots - 1 :
     /\ seen[i].at # 0 /\ seen[i].text = <<b>> /\ routed[b] <= seen[i].at
     /\ (i + 1 + others[b] = next \/ i + 1 + others[b] = next + Slots)

\* A bulletin that was routed is in the ring, was pushed out of it, or is about to enter it.
RoutedIsSeen ==
  \A b \in Bulletins : routed[b] # 0 =>
     \/ \E t \in Callers : call[t].at = "queued" /\ call[t].bulletin = <<b>>
     \/ others[b] = Slots
     \/ Remembers(b)

\* The window in force is a number of seconds, and a save publishes the settings it was given.
WindowKnown ==
  /\ "window" \in DOMAIN route /\ route.window \in Nat
  /\ writer.at = "users" => writer.plan \in Plans

RouteInv == RouteTypes /\ SeenWasRouted /\ RoutedIsSeen

LEMMA SlotsCount == Slots \in Nat /\ Slots > 0
<1> QED
  BY RoutesAssumption

LEMMA NextFollows ==
  ASSUME next \in 0 .. Slots - 1
  PROVE  /\ Following \in 0 .. Slots - 1
         /\ Following = IF next + 1 = Slots THEN 0 ELSE next + 1
<1>1. CASE next + 1 = Slots
  BY <1>1, SlotsCount DEF Following
<1>2. CASE next + 1 # Slots
  BY <1>2, SlotsCount DEF Following
<1> QED
  BY <1>1, <1>2

LEMMA RouteStart == RouteInit => RouteInv
<1> SUFFICES ASSUME RouteInit PROVE RouteInv
  OBVIOUS
<1>1. RouteTypes
  BY SlotsCount DEF RouteInit, RouteTypes, NoCall
<1>2. SeenWasRouted
  BY SlotsCount DEF RouteInit, SeenWasRouted, NoCall
<1>3. RoutedIsSeen
  BY DEF RouteInit, RoutedIsSeen
<1> QED
  BY <1>1, <1>2, <1>3 DEF RouteInv

LEMMA PublishedWindow ==
  ASSUME NEW plan \in Plans
  PROVE  "window" \in DOMAIN Published(plan) /\ Published(plan).window \in Nat
<1> QED
  BY RoutesAssumption DEF Published

LEMMA WindowStart == RouteInit => WindowKnown
<1> QED
  BY PublishedWindow DEF RouteInit, WindowKnown, NoWriter

LEMMA WindowStep == WindowKnown /\ [RouteNext]_routeVars => WindowKnown'
<1> SUFFICES ASSUME WindowKnown, [RouteNext]_routeVars PROVE WindowKnown'
  OBVIOUS
<1>1. CASE Save
  <2>1. PICK plan \in Plans : /\ writer' = [at |-> "users", row |-> 1, plan |-> plan]
                              /\ route' = [route EXCEPT !.messages = plan.messages]
    BY <1>1 DEF Save
  <2> QED
    BY <2>1 DEF WindowKnown
<1>2. CASE CopyRow
  BY <1>2 DEF CopyRow, WindowKnown
<1>3. CASE CopyRest
  <2>1. route' = Published(writer.plan) /\ writer.plan \in Plans /\ writer'.at = "idle"
    BY <1>3 DEF CopyRest, WindowKnown, NoWriter
  <2> QED
    BY <2>1, PublishedWindow DEF WindowKnown
<1>4. CASE UNCHANGED <<route, writer>>
  BY <1>4 DEF WindowKnown
<1> QED
  BY <1>1, <1>2, <1>3, <1>4 DEF RouteNext, routeVars, Link, Hear, Queue, Record, HeldBack, RouteMessage, LookAtRow,
     MessageRouted, Take, SendNext, Done, RouteTick

\* What leaves the ring, the calls and the clock alone.
Elsewhere ==
  \/ Save \/ CopyRow \/ CopyRest \/ Link \/ RouteMessage \/ LookAtRow \/ MessageRouted
  \/ Take \/ SendNext \/ Done \/ UNCHANGED routeVars

LEMMA ElsewhereIs == Elsewhere => UNCHANGED <<seen, next, call, routeClock, routed, others>>
<1> QED
  BY DEF Elsewhere, Save, CopyRow, CopyRest, Link, RouteMessage, LookAtRow, MessageRouted,
         Take, SendNext, Done, routeVars

LEMMA RouteStep == RouteInv /\ [RouteNext]_routeVars => RouteInv'
<1> SUFFICES ASSUME RouteInv, [RouteNext]_routeVars PROVE RouteInv'
  OBVIOUS
<1>0. /\ seen \in [0 .. Slots - 1 -> [text : Texts \cup {"none"}, at : Nat]]
      /\ next \in 0 .. Slots - 1
      /\ call \in [Callers -> [at : {"idle", "tested", "repeat", "queued"}, bulletin : Texts \cup {<<>>}]]
      /\ \A t \in Callers : call[t].at # "idle" => call[t].bulletin \in Texts
      /\ routeClock \in Nat /\ routeClock # 0
      /\ routed \in [Bulletins -> Nat] /\ others \in [Bulletins -> 0 .. Slots]
  BY DEF RouteInv, RouteTypes
<1>1. CASE Elsewhere
  <2>1. UNCHANGED <<seen, next, call, routeClock, routed, others>>
    BY <1>1, ElsewhereIs
  <2> QED
    BY <2>1 DEF RouteInv, RouteTypes, SeenWasRouted, RoutedIsSeen, Remembers
<1>2. ASSUME NEW t \in Callers, Hear(t) PROVE RouteInv'
  <2>1. PICK b \in Bulletins, how \in {"tested", "repeat"} :
             call' = [call EXCEPT ![t] = [at |-> how, bulletin |-> <<b>>]]
    BY <1>2 DEF Hear, Trimmed
  <2>2. /\ UNCHANGED <<seen, next, routeClock, routed, others>> /\ call[t].at = "idle"
    BY <1>2 DEF Hear
  <2>3. <<b>> \in Texts
    BY DEF Texts
  <2>4. /\ call' \in [Callers -> [at : {"idle", "tested", "repeat", "queued"}, bulletin : Texts \cup {<<>>}]]
        /\ call'[t].at # "queued" /\ call'[t].bulletin \in Texts
        /\ \A u \in Callers : u # t => call'[u] = call[u]
    BY <1>0, <2>1, <2>3
  <2>5. RouteTypes'
    <3>1. ASSUME NEW u \in Callers, call'[u].at # "idle" PROVE call'[u].bulletin \in Texts
      BY <1>0, <2>4, <3>1
    <3> QED
      BY <1>0, <2>2, <2>4, <3>1 DEF RouteTypes
  <2>6. \A u \in Callers : call'[u].at = "queued" => call'[u] = call[u]
    BY <2>4
  <2>7. \A u \in Callers : call[u].at = "queued" => call'[u] = call[u]
    BY <2>2, <2>4
  <2>8. SeenWasRouted'
    BY <2>2, <2>6 DEF RouteInv, SeenWasRouted
  <2>9. RoutedIsSeen'
    BY <2>2, <2>7 DEF RouteInv, RoutedIsSeen, Remembers
  <2> QED
    BY <2>5, <2>8, <2>9 DEF RouteInv
<1>3. ASSUME NEW t \in Callers, Queue(t) PROVE RouteInv'
  <2>1. PICK b \in Bulletins : call[t].bulletin = <<b>> /\ call[t].at = "tested"
    BY <1>0, <1>3 DEF Queue, Texts
  <2>2. /\ UNCHANGED <<seen, next, routeClock, others>>
        /\ routed' = [routed EXCEPT ![b] = IF HasRoom THEN routeClock ELSE @]
        /\ call' = [call EXCEPT ![t] = IF HasRoom THEN [@ EXCEPT !.at = "queued"] ELSE NoCall]
    BY <1>3, <2>1 DEF Queue, Arms
  <2>3. CASE HasRoom
    <3>1. /\ routed' \in [Bulletins -> Nat] /\ routed'[b] = routeClock
          /\ \A c \in Bulletins : c # b => routed'[c] = routed[c]
      BY <1>0, <2>2, <2>3
    <3>2. /\ call' \in [Callers -> [at : {"idle", "tested", "repeat", "queued"}, bulletin : Texts \cup {<<>>}]]
          /\ call'[t].at = "queued" /\ call'[t].bulletin = <<b>>
          /\ \A u \in Callers : u # t => call'[u] = call[u]
      BY <1>0, <2>1, <2>2, <2>3
    <3>3. RouteTypes'
      <4>1. <<b>> \in Texts
        BY DEF Texts
      <4>2. ASSUME NEW u \in Callers, call'[u].at # "idle" PROVE call'[u].bulletin \in Texts
        BY <1>0, <3>2, <4>1, <4>2
      <4> QED
        BY <1>0, <2>2, <3>1, <3>2, <4>2 DEF RouteTypes
    <3>4. \A c \in Bulletins : routed'[c] <= routeClock /\ routed[c] <= routed'[c]
      BY SMTT(20), <1>0, <3>1 DEF RouteInv, SeenWasRouted
    <3>5. ASSUME NEW u \in Callers, NEW c \in Bulletins, call'[u].at = "queued", call'[u].bulletin = <<c>>
          PROVE  routed'[c] = routeClock
      <4>1. CASE u = t
        BY <3>1, <3>2, <3>5, <4>1
      <4>2. CASE u # t
        BY <3>1, <3>2, <3>5, <4>2 DEF RouteInv, SeenWasRouted
      <4> QED
        BY <4>1, <4>2
    <3>6. ASSUME NEW i \in 0 .. Slots - 1, NEW c \in Bulletins, seen[i].at # 0, seen[i].text = <<c>>
          PROVE  seen[i].at <= routed'[c]
      <4>1. seen[i].at <= routed[c] /\ routed[c] <= routed'[c]
        BY <3>4, <3>6 DEF RouteInv, SeenWasRouted
      <4>2. seen[i].at \in Nat /\ routed[c] \in Nat /\ routed'[c] \in Nat
        <5>1. seen[i] \in [text : Texts \cup {"none"}, at : Nat]
          BY <1>0
        <5> QED
          BY <1>0, <3>1, <5>1
      <4> QED
        BY <4>1, <4>2
    <3>7. SeenWasRouted'
      <4>1. seen' = seen /\ routeClock' = routeClock
        BY <2>2
      <4>2. /\ \A c \in Bulletins : routed'[c] <= routeClock
            /\ \A u \in Callers, c \in Bulletins :
                  call'[u].at = "queued" /\ call'[u].bulletin = <<c>> => routed'[c] = routeClock
            /\ \A i \in 0 .. Slots - 1, c \in Bulletins :
                  seen[i].at # 0 /\ seen[i].text = <<c>> => seen[i].at <= routed'[c]
        BY <3>4, <3>5, <3>6
      <4> QED
        BY <4>1, <4>2, ZenonT(30) DEF SeenWasRouted
    <3>8. ASSUME NEW c \in Bulletins, routed'[c] # 0
          PROVE  \/ \E u \in Callers : call'[u].at = "queued" /\ call'[u].bulletin = <<c>>
                 \/ others[c] = Slots
                 \/ Remembers(c)'
      <4>1. CASE c = b
        BY <3>2, <4>1
      <4>2. CASE c # b
        <5>1. routed[c] # 0
          BY <3>1, <3>8, <4>2
        <5>2. CASE \E u \in Callers : call[u].at = "queued" /\ call[u].bulletin = <<c>>
          <6>1. PICK u \in Callers : call[u].at = "queued" /\ call[u].bulletin = <<c>>
            BY <5>2
          <6>2. u # t
            BY <2>1, <6>1
          <6> QED
            BY <3>2, <6>1, <6>2
        <5>3. CASE Remembers(c)
          BY <2>2, <3>1, <4>2, <5>3 DEF Remembers
        <5> QED
          BY <5>1, <5>2, <5>3 DEF RouteInv, RoutedIsSeen
      <4> QED
        BY <4>1, <4>2
    <3>9. RoutedIsSeen'
      BY <2>2, <3>8 DEF RoutedIsSeen
    <3> QED
      BY <3>3, <3>7, <3>9 DEF RouteInv
  <2>4. CASE ~HasRoom
    <3>1. routed' = routed
      BY <1>0, <2>2, <2>4
    <3>2. /\ call' \in [Callers -> [at : {"idle", "tested", "repeat", "queued"}, bulletin : Texts \cup {<<>>}]]
          /\ call'[t].at = "idle"
          /\ \A u \in Callers : u # t => call'[u] = call[u]
      BY <1>0, <2>2, <2>4 DEF NoCall
    <3>3. RouteTypes'
      BY <1>0, <2>2, <3>1, <3>2 DEF RouteTypes
    <3>4. \A u \in Callers : call'[u].at = "queued" => call'[u] = call[u]
      BY <3>2
    <3>5. \A u \in Callers : call[u].at = "queued" => call'[u] = call[u]
      BY <2>1, <3>2
    <3>6. SeenWasRouted'
      <4>1. seen' = seen /\ routeClock' = routeClock /\ routed' = routed
        BY <2>2, <3>1
      <4>2. \A u \in Callers, c \in Bulletins :
               call'[u].at = "queued" /\ call'[u].bulletin = <<c>> => routed[c] = routeClock
        BY <3>4 DEF RouteInv, SeenWasRouted
      <4> QED
        BY <4>1, <4>2 DEF RouteInv, SeenWasRouted
    <3>7. RoutedIsSeen'
      BY <2>2, <3>1, <3>5 DEF RouteInv, RoutedIsSeen, Remembers
    <3> QED
      BY <3>3, <3>6, <3>7 DEF RouteInv
  <2> QED
    BY <2>3, <2>4
<1>4. ASSUME NEW t \in Callers, Record(t) PROVE RouteInv'
  <2>1. PICK b \in Bulletins : call[t].bulletin = <<b>> /\ call[t].at = "queued"
    BY <1>0, <1>4 DEF Record, Texts
  <2>2. /\ UNCHANGED <<routeClock, routed>>
        /\ seen' = [seen EXCEPT ![next] = [text |-> <<b>>, at |-> routeClock]]
        /\ next' = Following
        /\ others' = [c \in Bulletins |-> IF c = b THEN 0 ELSE IF others[c] < Slots THEN others[c] + 1 ELSE Slots]
        /\ call' = [call EXCEPT ![t] = NoCall]
    BY <1>4, <2>1 DEF Record
  <2>3. next' \in 0 .. Slots - 1 /\ next' = IF next + 1 = Slots THEN 0 ELSE next + 1
    BY <1>0, <2>2, NextFollows
  <2>4. /\ seen' \in [0 .. Slots - 1 -> [text : Texts \cup {"none"}, at : Nat]]
        /\ seen'[next].text = <<b>> /\ seen'[next].at = routeClock
        /\ \A i \in 0 .. Slots - 1 : i # next => seen'[i] = seen[i]
    <3>1. <<b>> \in Texts
      BY DEF Texts
    <3>2. [text |-> <<b>>, at |-> routeClock] \in [text : Texts \cup {"none"}, at : Nat]
      BY <1>0, <3>1
    <3> QED
      BY <1>0, <2>2, <3>2
  <2>5. /\ others' \in [Bulletins -> 0 .. Slots] /\ others'[b] = 0
        /\ \A c \in Bulletins : c # b => others'[c] = IF others[c] < Slots THEN others[c] + 1 ELSE Slots
    BY <1>0, <2>2, SlotsCount
  <2>6. /\ call' \in [Callers -> [at : {"idle", "tested", "repeat", "queued"}, bulletin : Texts \cup {<<>>}]]
        /\ call'[t].at = "idle"
        /\ \A u \in Callers : u # t => call'[u] = call[u]
    BY <1>0, <2>2 DEF NoCall
  <2>7. RouteTypes'
    BY <1>0, <2>2, <2>3, <2>4, <2>5, <2>6 DEF RouteTypes
  <2>8. \A u \in Callers : call'[u].at = "queued" => call'[u] = call[u]
    BY <2>6
  <2>9. routed[b] = routeClock
    BY <2>1 DEF RouteInv, SeenWasRouted
  <2>10. ASSUME NEW i \in 0 .. Slots - 1, NEW c \in Bulletins, seen'[i].at # 0, seen'[i].text = <<c>>
         PROVE  seen'[i].at <= routed[c]
    <3>1. CASE i = next
      <4>1. c = b
        BY <2>4, <2>10, <3>1
      <4> QED
        BY <1>0, <2>4, <2>9, <3>1, <4>1
    <3>2. CASE i # next
      BY <2>4, <2>10, <3>2 DEF RouteInv, SeenWasRouted
    <3> QED
      BY <3>1, <3>2
  <2>11. SeenWasRouted'
    BY <2>2, <2>8, <2>10 DEF RouteInv, SeenWasRouted
  <2>12. ASSUME NEW c \in Bulletins, routed[c] # 0
         PROVE  \/ \E u \in Callers : call'[u].at = "queued" /\ call'[u].bulletin = <<c>>
                \/ others'[c] = Slots
                \/ Remembers(c)'
    <3>1. CASE c = b
      <4>1. next + 1 + 0 = next' \/ next + 1 + 0 = next' + Slots
        BY <1>0, <2>3, SlotsCount
      <4>2. routed[b] <= routeClock /\ routeClock # 0
        BY <1>0, <2>9
      <4>3. /\ next \in 0 .. Slots - 1 /\ seen'[next].at # 0 /\ seen'[next].text = <<c>>
            /\ routed[c] <= seen'[next].at
            /\ (next + 1 + others'[c] = next' \/ next + 1 + others'[c] = next' + Slots)
        <5>1. others'[c] = 0
          BY <2>5, <3>1
        <5>2. next + 1 + others'[c] = next' \/ next + 1 + others'[c] = next' + Slots
          BY <4>1, <5>1
        <5> QED
          BY <1>0, <2>4, <3>1, <4>2, <5>2
      <4> QED
        BY <2>2, <4>3 DEF Remembers
    <3>2. CASE c # b
      <4>1. CASE \E u \in Callers : call[u].at = "queued" /\ call[u].bulletin = <<c>>
        <5>1. PICK u \in Callers : call[u].at = "queued" /\ call[u].bulletin = <<c>>
          BY <4>1
        <5>2. u # t
          BY <2>1, <3>2, <5>1
        <5> QED
          BY <2>6, <5>1, <5>2
      <4>2. CASE others[c] = Slots
        BY <2>5, <3>2, <4>2, SlotsCount
      <4>3. CASE Remembers(c) /\ others[c] # Slots
        <5>1. PICK i \in 0 .. Slots - 1 :
                 /\ seen[i].at # 0 /\ seen[i].text = <<c>> /\ routed[c] <= seen[i].at
                 /\ i + 1 + others[c] = next \/ i + 1 + others[c] = next + Slots
          BY <4>3 DEF Remembers
        <5>2. others[c] \in 0 .. Slots - 1
          BY <1>0, <4>3, SlotsCount
        <5>3. others'[c] = others[c] + 1
          BY <2>5, <3>2, <5>2, SlotsCount
        <5>4. CASE others[c] + 1 = Slots
          BY <5>3, <5>4
        <5>5. CASE others[c] + 1 # Slots
          <6>0. PICK k \in Nat : k = others[c] /\ k < Slots
            BY <5>2, SlotsCount
          <6>1. i # next
            <7>1. i + 1 + k = next \/ i + 1 + k = next + Slots
              BY <5>1, <6>0
            <7>2. next \in 0 .. Slots - 1 /\ k + 1 # Slots
              BY <1>0, <5>5, <6>0
            <7> QED
              BY <5>1, <7>1, <7>2, SlotsCount
          <6>2. i + 1 + (others[c] + 1) = next' \/ i + 1 + (others[c] + 1) = next' + Slots
            <7>1. i + 1 + k = next \/ i + 1 + k = next + Slots
              BY <5>1, <6>0
            <7>2. next \in 0 .. Slots - 1 /\ k + 1 # Slots /\ k < Slots
              BY <1>0, <5>5, <6>0
            <7>3. next' = IF next + 1 = Slots THEN 0 ELSE next + 1
              BY <2>3
            <7>4. i + 1 + (k + 1) = next' \/ i + 1 + (k + 1) = next' + Slots
              BY <7>1, <7>2, <7>3, SlotsCount
            <7> QED
              BY <6>0, <7>4
          <6>3. seen'[i] = seen[i]
            BY <2>4, <6>1
          <6> QED
            BY <2>2, <5>1, <5>3, <6>2, <6>3 DEF Remembers
        <5> QED
          BY <5>4, <5>5
      <4> QED
        BY <2>12, <4>1, <4>2, <4>3 DEF RouteInv, RoutedIsSeen
    <3> QED
      BY <3>1, <3>2
  <2>13. RoutedIsSeen'
    BY <2>2, <2>12 DEF RoutedIsSeen
  <2> QED
    BY <2>7, <2>11, <2>13 DEF RouteInv
<1>5. ASSUME NEW t \in Callers, HeldBack(t) PROVE RouteInv'
  <2>1. /\ UNCHANGED <<seen, next, routeClock, routed, others>> /\ call[t].at = "repeat"
        /\ call' = [call EXCEPT ![t] = NoCall]
    BY <1>5 DEF HeldBack
  <2>2. /\ call' \in [Callers -> [at : {"idle", "tested", "repeat", "queued"}, bulletin : Texts \cup {<<>>}]]
        /\ call'[t].at = "idle"
        /\ \A u \in Callers : u # t => call'[u] = call[u]
    BY <1>0, <2>1 DEF NoCall
  <2>3. RouteTypes'
    BY <1>0, <2>1, <2>2 DEF RouteTypes
  <2>4. \A u \in Callers : call'[u].at = "queued" => call'[u] = call[u]
    BY <2>2
  <2>5. \A u \in Callers : call[u].at = "queued" => call'[u] = call[u]
    BY <2>1, <2>2
  <2>6. SeenWasRouted'
    BY <2>1, <2>4 DEF RouteInv, SeenWasRouted
  <2>7. RoutedIsSeen'
    BY <2>1, <2>5 DEF RouteInv, RoutedIsSeen, Remembers
  <2> QED
    BY <2>3, <2>6, <2>7 DEF RouteInv
<1>6. CASE RouteTick
  <2>1. /\ UNCHANGED <<seen, next, call, routed, others>> /\ routeClock' = routeClock + 1
        /\ \A t \in Callers : call[t].at = "idle"
    BY <1>6 DEF RouteTick
  <2>2. RouteTypes'
    BY <1>0, <2>1 DEF RouteTypes
  <2>3. SeenWasRouted'
    <3>1. ASSUME NEW b \in Bulletins PROVE routed[b] <= routeClock + 1
      <4>1. routed[b] \in Nat /\ routeClock \in Nat
        BY <1>0
      <4>2. routed[b] <= routeClock
        BY DEF RouteInv, SeenWasRouted
      <4> QED
        BY <4>1, <4>2
    <3> QED
      BY <2>1, <3>1 DEF RouteInv, SeenWasRouted
  <2>4. RoutedIsSeen'
    BY <2>1 DEF RouteInv, RoutedIsSeen, Remembers
  <2> QED
    BY <2>2, <2>3, <2>4 DEF RouteInv
<1> QED
  BY <1>1, <1>2, <1>3, <1>4, <1>5, <1>6 DEF RouteNext, Elsewhere

\* A call that begins is one of Hear's.
LEMMA OnlyHears ==
  ASSUME RouteInv, RouteNext, NEW t \in Callers, call[t].at = "idle", call'[t].at \in {"tested", "repeat"}
  PROVE  \E b \in Bulletins : /\ call'[t].bulletin = <<b>>
                              /\ call'[t].at = IF SeenRecently(<<b>>) THEN "repeat" ELSE "tested"
<1>0. call \in [Callers -> [at : {"idle", "tested", "repeat", "queued"}, bulletin : Texts \cup {<<>>}]]
  BY DEF RouteInv, RouteTypes
<1>1. CASE Elsewhere \/ RouteTick
  BY <1>1, ElsewhereIs DEF RouteTick
<1>2. ASSUME NEW u \in Callers, u # t, Hear(u) PROVE FALSE
  BY <1>0, <1>2 DEF Hear
<1>3. ASSUME NEW u \in Callers, Queue(u) \/ Record(u) \/ HeldBack(u) PROVE FALSE
  BY <1>0, <1>3 DEF Queue, Record, HeldBack, NoCall
<1>4. CASE Hear(t)
  BY <1>0, <1>4 DEF Hear, Trimmed
<1> QED
  BY <1>1, <1>2, <1>3, <1>4 DEF RouteNext, Elsewhere

\* The arithmetic of a window.
LEMMA Within ==
  ASSUME NEW now \in Nat, NEW stamp \in Nat, NEW last \in Nat, NEW window \in Nat
  PROVE  /\ stamp # 0 /\ stamp <= last /\ now - stamp < window => last # 0 /\ now - last < window
         /\ last <= stamp /\ now - stamp >= window => now - last >= window
<1> QED
  OBVIOUS

\* What a call holds back was routed within the window.
LEMMA HeldBackHere ==
  ASSUME RouteInv, WindowKnown, NEW b \in Bulletins, SeenRecently(<<b>>)
  PROVE  routed[b] # 0 /\ routeClock - routed[b] < route.window
<1>1. PICK i \in DOMAIN seen : seen[i].at # 0 /\ seen[i].text = <<b>> /\ routeClock - seen[i].at < route.window
  BY DEF SeenRecently
<1>2. i \in 0 .. Slots - 1 /\ seen[i] \in [text : Texts \cup {"none"}, at : Nat]
  BY <1>1 DEF RouteInv, RouteTypes
<1>3. seen[i].at \in Nat /\ routed[b] \in Nat /\ routeClock \in Nat /\ route.window \in Nat
  BY <1>2 DEF RouteInv, RouteTypes, WindowKnown
<1>4. seen[i].at <= routed[b]
  BY <1>1, <1>2 DEF RouteInv, SeenWasRouted
<1> QED
  BY <1>1, <1>3, <1>4, Within

\* What a call lets through was not routed within the window, was pushed out or is being brought.
LEMMA LetThroughHere ==
  ASSUME RouteInv, WindowKnown, NEW b \in Bulletins, ~SeenRecently(<<b>>)
  PROVE  \/ routed[b] = 0 \/ routeClock - routed[b] >= route.window
         \/ others[b] >= Slots
         \/ \E u \in Callers : call[u].at = "queued" /\ call[u].bulletin = <<b>>
<1>1. CASE routed[b] # 0 /\ Remembers(b)
  <2>1. PICK i \in 0 .. Slots - 1 : seen[i].at # 0 /\ seen[i].text = <<b>> /\ routed[b] <= seen[i].at
    BY <1>1 DEF Remembers
  <2>2. i \in DOMAIN seen /\ seen[i] \in [text : Texts \cup {"none"}, at : Nat]
    BY DEF RouteInv, RouteTypes
  <2>3. seen[i].at \in Nat /\ routed[b] \in Nat /\ routeClock \in Nat /\ route.window \in Nat
    BY <2>2 DEF RouteInv, RouteTypes, WindowKnown
  <2>4. ~ (routeClock - seen[i].at < route.window)
    BY <2>1, <2>2 DEF SeenRecently
  <2>5. routeClock - seen[i].at >= route.window
    BY <2>3, <2>4
  <2> QED
    BY <2>1, <2>3, <2>5, Within
<1>2. CASE others[b] = Slots
  BY <1>2, SlotsCount
<1> QED
  BY <1>1, <1>2 DEF RouteInv, RoutedIsSeen

LEMMA HeadOne == \A b : Head(<<b>>) = b
<1> QED
  OBVIOUS

\* A bulletin is held back only when it was routed within the window, and is routed again within
\* it only when as many others came since as the ring has slots or another task is bringing it:
\* for any callers, bulletins, slots and settings (telegram_app.c:798-824, 836-951).
THEOREM RepeatsKept == RouteSpec => RepeatsHeldBack
<1>1. ASSUME RouteInv, WindowKnown, RouteNext, NEW t \in Callers, call[t].at = "idle", call'[t].at = "repeat"
      PROVE  LET when == routed[Head(call'[t].bulletin)] IN when # 0 /\ routeClock - when < route.window
  <2>1. PICK b \in Bulletins : call'[t].bulletin = <<b>> /\ SeenRecently(<<b>>)
    BY <1>1, OnlyHears
  <2>2. routed[b] # 0 /\ routeClock - routed[b] < route.window
    BY <1>1, <2>1, HeldBackHere
  <2> QED
    BY <2>1, <2>2, HeadOne
<1>2. ASSUME RouteInv, WindowKnown, RouteNext, NEW t \in Callers, call[t].at = "idle", call'[t].at = "tested"
      PROVE  LET bulletin == Head(call'[t].bulletin) IN
                 \/ routed[bulletin] = 0 \/ routeClock - routed[bulletin] >= route.window
                 \/ others[bulletin] >= Slots
                 \/ \E u \in Callers \ {t} : call[u].at = "queued" /\ Head(call[u].bulletin) = bulletin
  <2>1. PICK b \in Bulletins : call'[t].bulletin = <<b>> /\ ~SeenRecently(<<b>>)
    BY <1>2, OnlyHears
  <2>2. CASE \E u \in Callers : call[u].at = "queued" /\ call[u].bulletin = <<b>>
    <3>1. PICK u \in Callers : call[u].at = "queued" /\ call[u].bulletin = <<b>>
      BY <2>2
    <3>2. u \in Callers \ {t} /\ Head(call[u].bulletin) = b
      BY <1>2, <3>1, HeadOne
    <3> QED
      BY <2>1, <3>1, <3>2, HeadOne
  <2>3. CASE routed[b] = 0 \/ routeClock - routed[b] >= route.window \/ others[b] >= Slots
    BY <2>1, <2>3, HeadOne
  <2> QED
    BY <1>2, <2>1, <2>2, <2>3, LetThroughHere
<1>3. RouteInv /\ WindowKnown /\ [RouteNext]_routeVars =>
         [\A t \in Callers :
            call[t].at = "idle" /\ call'[t].at = "repeat"
              => LET when == routed[Head(call'[t].bulletin)] IN when # 0 /\ routeClock - when < route.window]_routeVars
  BY <1>1
<1>4. RouteInv /\ WindowKnown /\ [RouteNext]_routeVars =>
         [\A t \in Callers :
            call[t].at = "idle" /\ call'[t].at = "tested"
              => LET bulletin == Head(call'[t].bulletin) IN
                 \/ routed[bulletin] = 0 \/ routeClock - routed[bulletin] >= route.window
                 \/ others[bulletin] >= Slots
                 \/ \E u \in Callers \ {t} : call[u].at = "queued" /\ Head(call[u].bulletin) = bulletin]_routeVars
  BY <1>2
<1> QED
  BY <1>3, <1>4, RouteStart, RouteStep, WindowStart, WindowStep, PTL
     DEF RouteSpec, RepeatsHeldBack, HeldBackWasRouted, OncePerWindow
=============================================================================
