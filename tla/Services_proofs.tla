-------------------------- MODULE Services_proofs --------------------------
(***************************************************************************)
(* Proofs about the services MCServices composes: the GPS receiver under   *)
(* its switch and the setting of the clock (GpsReader), for any number of  *)
(* tasks that apply the switch, any time-out and any waits; the JSON       *)
(* stores (StoreFiles); and the responder to queries (QueryResponder), for *)
(* any stations, limits and tables.                                        *)
(***************************************************************************)
EXTENDS GpsReader, StoreFiles, QueryResponder, TLAPS

-----------------------------------------------------------------------------
(* The GPS receiver: gps.c                                                 *)

Steps == {"idle", "apply", "decide", "bringup", "teardown", "leave"}
Inside == {"decide", "bringup", "teardown", "leave"}

DataType == [link : BOOLEAN, valid : BOOLEAN, quality : BOOLEAN, hasPosition : BOOLEAN,
             position : Nat, haveSentence : BOOLEAN, sentence : Nat, haveFix : BOOLEAN, fix : Nat]

GpsType ==
  /\ now \in Nat /\ started \in Nat /\ started <= now
  /\ pc \in [Callers -> Steps]
  /\ port \in BOOLEAN /\ alive \in BOOLEAN /\ passed \in BOOLEAN
  /\ reader \in {"gone", "top", "read", "link", "clear", "exit"}
  /\ data \in DataType

\* The reader is there from its creation to its last step, and as long as it is
\* there nobody gives the port back; who applies the switch holds the lock; and
\* what is known is of this receiver.
GpsInv ==
  /\ GpsType
  /\ alive <=> reader # "gone"
  /\ alive => port
  /\ \A c \in Callers : pc[c] \in Inside => holder = c
  /\ \A c \in Callers : pc[c] = "bringup" => ~port /\ ~alive
  /\ alive /\ data.hasPosition => data.position >= started
  /\ alive /\ data.haveFix => data.fix >= started
  /\ alive /\ reader = "top" /\ passed /\ now - data.sentence >= LinkTimeout
        => ~data.hasPosition /\ ~data.valid

\* A receiver that was just brought up has shown nothing.
LEMMA ClearedType ==
  Cleared \in DataType /\ ~Cleared.hasPosition /\ ~Cleared.haveFix /\ ~Cleared.valid
BY DEF Cleared, DataType

LEMMA GpsStart == GpsInit => GpsInv
<1> SUFFICES ASSUME GpsInit PROVE GpsInv
  OBVIOUS
<1>1. GpsType
  <2>1. now \in Nat /\ started \in Nat /\ started <= now
    BY DEF GpsInit
  <2>2. data \in DataType
    BY ClearedType DEF GpsInit
  <2>3. pc \in [Callers -> Steps]
    BY DEF GpsInit, Steps
  <2>4. /\ port \in BOOLEAN /\ alive \in BOOLEAN /\ passed \in BOOLEAN
        /\ reader \in {"gone", "top", "read", "link", "clear", "exit"}
    BY DEF GpsInit
  <2> QED
    BY <2>1, <2>2, <2>3, <2>4 DEF GpsType
<1>2. \A c \in Callers : pc[c] \notin Inside /\ pc[c] # "bringup"
  BY DEF GpsInit, Inside
<1>3. reader = "gone" /\ ~alive
  BY DEF GpsInit
<1> QED
  BY <1>1, <1>2, <1>3 DEF GpsInv

\* What a sentence leaves is of its second.
LEMMA SentenceType ==
  ASSUME GpsType, NEW type, NEW fix \in BOOLEAN
  PROVE  LET d == Sentence(type, fix, data) IN
         /\ d \in DataType
         /\ d.position \in {data.position, now} /\ d.fix \in {data.fix, now}
         /\ d.hasPosition => data.hasPosition \/ d.position = now
         /\ d.haveFix => data.haveFix \/ d.fix = now
         /\ d.position = data.position => d.hasPosition = data.hasPosition \/ d.position = now
BY DEF GpsType, DataType, Sentence

LEMMA GpsStep == GpsInv /\ [GpsNext]_gpsVars => GpsInv'
<1> SUFFICES ASSUME GpsInv, [GpsNext]_gpsVars PROVE GpsInv'
  OBVIOUS
<1> USE GpsAssumption
<1>1. ASSUME NEW c \in Callers, Save(c) PROVE GpsInv'
  BY <1>1 DEF Save, At, GpsInv, GpsType, Steps, Inside
<1>2. ASSUME NEW c \in Callers, Enter(c) PROVE GpsInv'
  BY <1>2 DEF Enter, At, GpsInv, GpsType, Steps, Inside
<1>3. ASSUME NEW c \in Callers, Decide(c) PROVE GpsInv'
  BY <1>3 DEF Decide, Late, GpsInv, GpsType, Steps, Inside
<1>4. ASSUME NEW c \in Callers, BringUp(c) PROVE GpsInv'
  <2>1. /\ pc[c] = "bringup" /\ ~alive /\ ~port /\ holder = c
        /\ UNCHANGED <<now, holder, passed>> /\ pc' = [pc EXCEPT ![c] = "leave"]
    BY <1>4 DEF BringUp, At, GpsInv, Inside
  <2>2. data' = Cleared
    BY <1>4 DEF BringUp, Fresh
  <2>3. \/ port' /\ alive' /\ reader' = "top" /\ started' = now
        \/ ~port' /\ UNCHANGED <<alive, reader, started>>
    BY <1>4 DEF BringUp
  <2>4. port' \in BOOLEAN /\ alive' \in BOOLEAN
    BY <1>4, <2>1 DEF BringUp, GpsInv, GpsType
  <2>5. GpsType'
    BY <2>1, <2>2, <2>3, <2>4, ClearedType DEF GpsInv, GpsType, Steps
  <2>6. \A e \in Callers : pc'[e] \in Inside => holder' = e /\ pc'[e] # "bringup"
    BY <2>1 DEF GpsInv, GpsType, Inside
  <2>7. alive' <=> reader' # "gone"
    BY <2>1, <2>3 DEF GpsInv
  <2>8. alive' => port'
    BY <2>1, <2>3
  <2>9. ~data'.hasPosition /\ ~data'.haveFix /\ ~data'.valid
    BY <2>2, ClearedType
  <2> QED
    BY <2>5, <2>6, <2>7, <2>8, <2>9 DEF GpsInv, Inside
<1>5. ASSUME NEW c \in Callers, TearDown(c) PROVE GpsInv'
  BY <1>5 DEF TearDown, At, KeptPort, GpsInv, GpsType, Steps, Inside
<1>6. ASSUME NEW c \in Callers, Leave(c) PROVE GpsInv'
  BY <1>6 DEF Leave, At, GpsInv, GpsType, Steps, Inside
<1>7. CASE Top
  BY <1>7 DEF Top, life, GpsInv, GpsType, Inside
<1>8. CASE Read
  BY <1>8, SentenceType DEF Read, life, GpsInv, GpsType, Inside
<1>9. CASE Link
  <2> DEFINE up == data.haveSentence /\ now - data.sentence < LinkTimeout
             d == [data EXCEPT !.link = up]
  <2>1. up \in BOOLEAN /\ d \in DataType /\ LinkLost(d) \in DataType
    BY DEF GpsInv, GpsType, DataType, LinkLost
  <2>2. /\ d.position = data.position /\ d.fix = data.fix /\ d.sentence = data.sentence
        /\ d.hasPosition = data.hasPosition /\ d.haveFix = data.haveFix
    BY DEF GpsInv, GpsType, DataType
  <2>3. /\ LinkLost(d).position = data.position /\ LinkLost(d).fix = data.fix
        /\ LinkLost(d).haveFix = data.haveFix /\ ~LinkLost(d).hasPosition /\ ~LinkLost(d).valid
    BY DEF GpsInv, GpsType, DataType, LinkLost
  <2>4. data' = (IF up THEN d ELSE LinkLost(d))
    BY <1>9 DEF Link
  <2>5. up => ~(now - data.sentence >= LinkTimeout)
    BY DEF GpsInv, GpsType, DataType
  <2>6. UNCHANGED <<life, alive, now>> /\ reader = "link" /\ reader' = "top" /\ passed' = TRUE
    BY <1>9 DEF Link
  <2> HIDE DEF up, d
  <2>7. GpsType'
    BY <2>1, <2>4, <2>6 DEF GpsInv, GpsType, life
  <2>8. CASE up
    BY <2>2, <2>4, <2>5, <2>6, <2>7, <2>8 DEF GpsInv, life
  <2>9. CASE ~up
    BY <2>3, <2>4, <2>6, <2>7, <2>9 DEF GpsInv, life
  <2> QED
    BY <2>8, <2>9
<1>10. CASE Clear
  BY <1>10 DEF Clear, Blanked, life, GpsInv, GpsType, Inside, DataType
<1>11. CASE Exit
  BY <1>11 DEF Exit, life, GpsInv, GpsType, Inside
<1>12. CASE Second
  <2>1. now' \in Nat /\ started <= now'
    BY <1>12 DEF Second, GpsInv, GpsType
  <2>2. UNCHANGED <<life, alive, reader, data>> /\ passed' = FALSE
    BY <1>12 DEF Second
  <2> QED
    BY <2>1, <2>2 DEF life, GpsInv, GpsType
<1>13. CASE UNCHANGED gpsVars
  BY <1>13 DEF gpsVars, GpsInv, GpsType, Inside
<1> QED
  BY <1>1, <1>2, <1>3, <1>4, <1>5, <1>6, <1>7, <1>8, <1>9, <1>10, <1>11, <1>12, <1>13
     DEF GpsNext, Apply, Reader

\* The reader is never in a port that was given back, no port is installed
\* twice, and what is shown was heard since the receiver was brought up,
\* whoever applies the switch and whoever gives up waiting (gps.c:741-809).
THEOREM PortKept == GpsSpec => []PortSound
<1>1. GpsInv => PortSound
  <2> SUFFICES ASSUME GpsInv PROVE PortSound
    OBVIOUS
  <2>1. PortUnderReader
    BY DEF GpsInv, GpsType, PortUnderReader
  <2>2. OneAtATime
    BY DEF GpsInv, GpsType, OneAtATime, Steps, Inside
  <2>3. ShownIsOurs
    BY DEF GpsInv, GpsType, ShownIsOurs, Shown, Cleared, DataType
  <2> QED
    BY <2>1, <2>2, <2>3 DEF PortSound
<1> QED
  BY <1>1, GpsStart, GpsStep, PTL DEF GpsSpec

-----------------------------------------------------------------------------
(* The setting of the clock: time_sync.c                                   *)

\* An answer sets the clock, and only an answer ends the asking.
SyncInv == (synced => clock) /\ (state = "done" => clock)

LEMMA SyncStep == SyncInv /\ [SyncNext]_syncVars => SyncInv'
<1> SUFFICES ASSUME SyncInv, [SyncNext]_syncVars PROVE SyncInv'
  OBVIOUS
<1>1. CASE SyncTick
  BY <1>1 DEF SyncTick, WaitNet, SyncStart, Waiting, Cooldown, Started, AfterWait, SyncInv
<1>2. CASE SyncAnswer \/ Lost \/ Net
  BY <1>2 DEF SyncAnswer, Lost, Net, SyncInv
<1>3. CASE UNCHANGED syncVars
  BY <1>3 DEF syncVars, SyncInv
<1> QED
  BY <1>1, <1>2, <1>3 DEF SyncNext

\* The machine stops asking only once the clock was set, for any waits and
\* however the network comes and goes (time_sync.c:344).
THEOREM DoneOnlyWhenSet == SyncSpec => []DoneMeansSet
<1>1. SyncInit => SyncInv
  BY DEF SyncInit, SyncInv
<1>2. SyncInv => DoneMeansSet
  BY DEF SyncInv, DoneMeansSet
<1> QED
  BY <1>1, <1>2, SyncStep, PTL DEF SyncSpec

\* Both together, as the run checks them: where the station is and what time it
\* is come from whom they should.
THEOREM PlaceAndTimeKept == GpsSpec /\ SyncSpec => []PlaceAndTime
<1> QED
  BY PortKept, DoneOnlyWhenSet, PTL DEF PlaceAndTime

-----------------------------------------------------------------------------
(* The stores: json_store.h, bulletins.c, objects_items.c, telemetry.c     *)

\* A task works on what it read; it holds the lock; the web task is between
\* the change of a file and its announcement.
Busy == {"cache", "create", "creating", "loaded", "save", "saving"}
Holding == {"read", "cache", "creating", "saving"}
Changing == {"upload", "announce", "announceCut"}
Places == {"idle", "read"} \cup Busy
WebPlaces == Changing \cup {"remove"}

\* TypeOK, part by part, with what types alone say of places and expiries.
Sets == [edit : 0 .. MaxEdits, on : BOOLEAN, live : BOOLEAN, kill : 0 .. KillRepeats]
States == {"missing", "ok"} \cup Broken
Caches ==
  [valid : BOOLEAN, set : Sets, gen : 0 .. MaxChanges, retry : BOOLEAN, due : BOOLEAN]

StoreType ==
  /\ kind \in StoreKinds
  /\ file \in [state : States, set : Sets]
  /\ left \in [state : States, edit : 0 .. MaxEdits]
  /\ generation \in 0 .. MaxChanges
  /\ cache \in Caches
  /\ lock \in Tasks \cup {None}
  /\ place \in [Tasks -> Places \cup WebPlaces]
  /\ copy \in [Tasks -> Sets] /\ missing \in [Tasks -> BOOLEAN]
  /\ changed \in BOOLEAN /\ overlap \in BOOLEAN
  /\ edits \in 0 .. MaxEdits
  /\ shortages \in 0 .. MaxShortages
  /\ expired \subseteq 1 .. edits
  /\ told \in 0 .. KillRepeats

\* What is announced is announced; what a read of now would give; there is
\* nothing of hers under the name; and a copy may be written over the file: it
\* is of her last edit, and the reports it does not owe were sent.
Calm == place["web"] \notin Changing
Says == IF file.state = "ok" THEN file.set ELSE Defaults
Absent == left.state = "missing" \/ (left.state = "empty" /\ kind = "telemetry")
Faithful(c) == c = Defaults \/ (left.state = "ok" /\ c.edit = left.edit)
Reported(c) == IF c.on THEN c.kill = 0 \/ told + c.kill >= KillRepeats
               ELSE told = KillRepeats

\* Who reads or writes the file holds the lock, and a change still to be
\* announced leaves the generation room to move.
LockInv ==
  /\ \A t \in Tasks \ {"web"} : place[t] \in Places
  /\ \A t \in Tasks : place[t] \in Holding <=> lock = t
  /\ cache.gen <= generation
  /\ place["web"] \in Changing => generation < MaxChanges
  /\ place["web"] = "upload" => edits < MaxEdits
  /\ place["reader"] \notin {"save", "saving"}

\* The operator's last word, and what is about to be written: the defaults
\* where a file is created, an edit of hers where one is saved.
LeftInv ==
  /\ left.state = "ok" <=> left.edit > 0
  /\ place["web"] \in {"upload", "announceCut", "remove"} => left.state \in Broken
  /\ file.state \in Broken => left.state \in Broken
  /\ changed => /\ place["scheduler"] \in {"loaded", "save", "saving"}
                /\ copy["scheduler"].edit > 0
  /\ \A t \in Tasks : place[t] \in {"create", "creating"} => copy[t] = Defaults
  /\ \A t \in Tasks : place[t] = "cache" /\ missing[t] => copy[t] = Defaults
  /\ \A t \in Tasks : place[t] \in {"save", "saving"} => copy[t].edit > 0
  /\ place["web"] \in {"save", "saving"} /\ kind = "objects" =>
       copy["web"].on /\ (copy["web"].live => copy["web"].kill = 0)

\* Only an edit enables an item: the defaults are off.
OnInv ==
  /\ file.set.on => file.set.edit > 0
  /\ cache.set.on => cache.set.edit > 0
  /\ \A t \in Tasks : copy[t].on => copy[t].edit > 0

\* A file is read only where the cache cannot serve, and a set that stands for
\* a failed read is the defaults.
ReadInv ==
  /\ lock # None /\ place[lock] \in {"read", "cache"} => ~CacheHit
  /\ \A t \in Tasks : place[t] = "cache" /\ cache.retry => copy[t] = Defaults
  /\ CacheHit /\ cache.retry => cache.set = Defaults

\* As long as nothing overlapped, the file is hers: the edition she left, with
\* its kill reports accounted for, or the gap that only the defaults fill.
FileInv == ~overlap =>
  /\ left.state = "ok" => file.state = "ok" /\ file.set.edit = left.edit
  /\ Absent => file.state = left.state \/ file = File("ok", Defaults)
  /\ left.state # "ok" /\ ~Absent => file.state = left.state
  /\ left.state = "ok" /\ kind = "objects" => Reported(file.set)
  /\ place["web"] \in {"save", "saving"} /\ kind = "objects" => Reported(copy["web"])

\* Then the cache and the copies in the tasks' hands agree with the file too,
\* from the moment its change is announced.
CalmInv == Calm /\ ~overlap =>
  /\ CacheHit /\ ~cache.retry => cache.set = Says
  /\ \A t \in Tasks : place[t] = "cache" /\ ~cache.retry => copy[t] = Says
  /\ \A t \in Tasks : place[t] \in {"create", "creating"} => Absent
  /\ \A t \in Tasks : place[t] = "cache" /\ missing[t] => Absent
  /\ \A t \in Tasks : place[t] \in {"cache", "loaded"} => Faithful(copy[t])
  /\ \A t \in Tasks \ {"web"} : place[t] \in {"save", "saving"} => Faithful(copy[t])
  /\ kind = "objects" =>
       /\ \A t \in Tasks :
            copy[t].edit > 0 /\ place[t] \in {"cache", "loaded"} => Reported(copy[t])
       /\ \A t \in Tasks \ {"web"} : place[t] \in {"save", "saving"} => Reported(copy[t])

StoreInv == StoreType /\ LockInv /\ LeftInv /\ OnInv /\ ReadInv /\ FileInv /\ CalmInv

LEMMA StoreBounds ==
  /\ KillRepeats \in Nat /\ KillRepeats > 0
  /\ MaxEdits \in Nat /\ MaxChanges \in Nat /\ MaxShortages \in Nat
BY StoreAssumption DEF StoreAssumption

LEMMA DefaultsAre == Defaults \in Sets /\ Defaults.edit = 0
BY StoreBounds DEF Defaults, Item, Sets

\* What the file says is the operator's, and its reports are accounted for.
LEMMA SaysFaithful ==
  ASSUME StoreType, LeftInv, FileInv, ~overlap
  PROVE  Faithful(Says) /\ (kind = "objects" /\ Says.edit > 0 => Reported(Says))
<1>1. Says = Defaults \/ (file.state = "ok" /\ Says = file.set)
  BY DEF Says
<1>2. CASE left.state = "ok"
  BY <1>1, <1>2, DefaultsAre DEF FileInv, Faithful
<1>3. CASE left.state # "ok"
  <2>1. file.state # "ok" \/ file = File("ok", Defaults)
    BY <1>3 DEF FileInv, Absent
  <2>2. Says = Defaults
    BY <2>1 DEF Says, File
  <2> QED
    BY <2>2, DefaultsAre DEF Faithful
<1> QED
  BY <1>2, <1>3

LEMMA LoadKeeps ==
  ASSUME StoreInv, NEW task \in Tasks, Load(task)
  PROVE  StoreInv'
<1> USE StoreBounds DEF TaskAt, Go, TakeCopy, LeaveTask, fs, input, ghost, None
<1>1. StoreType'
  BY DEF StoreInv, StoreType, Caches, Load, CacheHit, Sets, States, Broken, StoreKinds,
          Busy, Changing, Places, WebPlaces, Tasks
<1>2. LockInv'
  BY DEF StoreInv, StoreType, LockInv, Load, CacheHit, Tasks, Busy, Holding,
          Changing, Places
<1>3. LeftInv'
  <2>1. \A t \in Tasks \ {task} : place'[t] = place[t] /\ copy'[t] = copy[t]
    BY DEF StoreInv, StoreType, Load
  <2>2. place[task] = "idle" /\ place'[task] \in {"read", "loaded"}
    BY DEF StoreInv, StoreType, Load
  <2>3. UNCHANGED <<left, file, changed, missing, kind>>
    BY DEF Load
  <2> QED
    BY <2>1, <2>2, <2>3 DEF StoreInv, LeftInv, Tasks
<1>4. ReadInv'
  BY DEF StoreInv, StoreType, LockInv, ReadInv, Load, CacheHit, Tasks, Busy,
          Holding, Changing, Places, Item, Defaults
<1>5. FileInv'
  BY DEF StoreInv, StoreType, LeftInv, FileInv, Load, CacheHit, Tasks, Absent,
          Reported, Item, Defaults, File, Broken
<1>6. CalmInv'
  <2>1. \A t \in Tasks \ {task} : place'[t] = place[t] /\ copy'[t] = copy[t]
    BY DEF StoreInv, StoreType, Load
  <2>2. /\ place[task] = "idle"
        /\ \/ place'[task] = "read"
           \/ place'[task] = "loaded" /\ copy'[task] = cache.set /\ CacheHit
    BY DEF StoreInv, StoreType, Load
  <2>3. UNCHANGED <<left, file, changed, missing, overlap, kind, cache, generation, told>>
    BY DEF Load
  <2> SUFFICES ASSUME (Calm /\ ~overlap)' PROVE CalmInv'
    BY DEF CalmInv
  <2>4. Calm /\ ~overlap
    BY <2>1, <2>2, <2>3 DEF Calm, Changing, Tasks
  <2>5. CacheHit => cache.set = Says \/ cache.set = Defaults
    BY <2>4 DEF StoreInv, CalmInv, ReadInv
  <2>6. Faithful(Says) /\ (kind = "objects" /\ Says.edit > 0 => Reported(Says))
    BY <2>4, SaysFaithful DEF StoreInv
  <2>7. Faithful(Defaults) /\ ~(Defaults.edit > 0)
    BY DEF Faithful, Defaults, Item
  <2> QED
    BY <2>1, <2>2, <2>3, <2>4, <2>5, <2>6, <2>7 DEF StoreInv, CalmInv, Tasks,
                                                    CacheHit, Says, Absent,
                                                    Faithful, Reported
<1>7. OnInv'
  BY DEF StoreInv, StoreType, OnInv, Load, CacheHit, Tasks
<1> QED
  BY <1>1, <1>2, <1>3, <1>4, <1>5, <1>6, <1>7 DEF StoreInv

LEMMA ReadFileKeeps ==
  ASSUME StoreInv, NEW task \in Tasks, NEW short \in BOOLEAN, ReadFile(task, short)
  PROVE  StoreInv'
<1> USE StoreBounds DEF TaskAt, Go, TakeCopy, LeaveTask, fs, input, ghost, None
<1>1. StoreType'
  BY DEF StoreInv, StoreType, Caches, ReadFile, Sets, States, Item, Defaults, Broken,
          StoreKinds, Busy, Changing, Places, WebPlaces, Tasks
<1>2. LockInv'
  BY DEF StoreInv, StoreType, LockInv, ReadFile, Tasks, Busy, Holding, Changing,
          Places, Item, Defaults
<1>3. LeftInv'
  BY DEF StoreInv, StoreType, LeftInv, ReadFile, Tasks, Item, Defaults, Broken
<1>4. ReadInv'
  BY DEF StoreInv, StoreType, LockInv, ReadInv, ReadFile, Tasks, Busy, Holding,
          Changing, Places, CacheHit, Item, Defaults
<1>5. FileInv'
  BY DEF StoreInv, StoreType, FileInv, ReadFile, Absent, Reported, Item, Defaults, File
<1>6. CalmInv'
  <2>1. \A t \in Tasks \ {task} : place'[t] = place[t] /\ copy'[t] = copy[t] /\ missing'[t] = missing[t]
    BY DEF StoreInv, StoreType, ReadFile
  <2>2. place[task] = "read" /\ place'[task] = "cache"
    BY DEF StoreInv, StoreType, ReadFile
  <2>3. copy'[task] = IF file.state = "ok" /\ ~short THEN file.set ELSE Defaults
    BY DEF StoreInv, StoreType, ReadFile
  <2>4. missing'[task] => file.state = "missing" \/ (file.state = "empty" /\ kind = "telemetry")
    BY DEF StoreInv, StoreType, ReadFile
  <2>5. /\ UNCHANGED <<left, file, overlap, kind, generation, told>>
        /\ cache' = [cache EXCEPT !.retry = short]
    BY DEF ReadFile
  <2> SUFFICES ASSUME (Calm /\ ~overlap)' PROVE CalmInv'
    BY DEF CalmInv
  <2>6. Calm /\ ~overlap
    BY <2>1, <2>2, <2>5 DEF Calm, Changing, Tasks
  <2>7. Faithful(Says) /\ (kind = "objects" /\ Says.edit > 0 => Reported(Says))
    BY <2>6, SaysFaithful DEF StoreInv
  <2>8. lock = task /\ (\A t \in Tasks \ {task} : place[t] \notin Holding)
    BY <2>2 DEF StoreInv, LockInv, Holding
  <2>9. ~CacheHit' 
    BY <2>2, <2>5, <2>8 DEF StoreInv, StoreType, ReadInv, CacheHit, None, Tasks
  <2>10. missing'[task] => Absent'
    BY <2>4, <2>5, <2>6 DEF StoreInv, StoreType, FileInv, LeftInv, Absent, States,
                            Broken, File
  <2>11. /\ ~short => copy'[task] = Says
         /\ cache'.retry = short
         /\ copy'[task] \in {Says, Defaults}
    BY <2>3, <2>5 DEF Says, StoreInv, StoreType
  <2>12. Faithful(Defaults) /\ ~(Defaults.edit > 0)
    BY DefaultsAre DEF Faithful
  <2> HIDE DEF Defaults
  <2> QED
    BY <2>1, <2>2, <2>5, <2>6, <2>7, <2>8, <2>9, <2>10, <2>11, <2>12
       DEF StoreInv, CalmInv, Tasks, Says, Absent, Faithful, Reported, Holding
<1>7. OnInv'
  BY DEF StoreInv, StoreType, OnInv, ReadFile, Item, Defaults, Tasks
<1> QED
  BY <1>1, <1>2, <1>3, <1>4, <1>5, <1>6, <1>7 DEF StoreInv

LEMMA FillKeeps ==
  ASSUME StoreInv, NEW task \in Tasks, Fill(task)
  PROVE  StoreInv'
<1> USE StoreBounds DEF TaskAt, Go, TakeCopy, LeaveTask, fs, input, ghost, None
<1>1. StoreType'
  BY DEF StoreInv, StoreType, Caches, Fill, Sets, States, Broken, StoreKinds, Busy,
          Changing, Places, WebPlaces, Tasks
<1>2. LockInv'
  BY DEF StoreInv, StoreType, LockInv, Fill, Tasks, Busy, Holding, Changing, Places
<1>3. LeftInv'
  BY DEF StoreInv, StoreType, LeftInv, Fill, Tasks, Item, Defaults, Broken
<1>4. ReadInv'
  BY DEF StoreInv, StoreType, ReadInv, Fill, Tasks, CacheHit, Item, Defaults
<1>5. FileInv'
  BY DEF StoreInv, StoreType, FileInv, Fill, Absent, Reported, Item, Defaults, File
<1>6. CalmInv'
  <2>1. \A t \in Tasks \ {task} : place'[t] = place[t]
    BY DEF StoreInv, StoreType, Fill
  <2>2. /\ place[task] = "cache"
        /\ place'[task] = IF missing[task] THEN "create" ELSE "loaded"
    BY DEF StoreInv, StoreType, Fill
  <2>3. /\ UNCHANGED <<left, file, overlap, kind, generation, told, copy, missing>>
        /\ cache'.set = copy[task] /\ cache'.retry = cache.retry
    BY DEF Fill
  <2> SUFFICES ASSUME (Calm /\ ~overlap)' PROVE CalmInv'
    BY DEF CalmInv
  <2>4. Calm /\ ~overlap
    BY <2>1, <2>2, <2>3 DEF Calm, Changing, Tasks
  <2>5. \A t \in Tasks \ {task} : place[t] \notin Holding
    BY <2>2 DEF StoreInv, LockInv, Holding
  <2> QED
    BY <2>1, <2>2, <2>3, <2>4, <2>5
       DEF StoreInv, CalmInv, Tasks, Says, Absent, Faithful, Reported, Holding
<1>7. OnInv'
  BY DEF StoreInv, StoreType, OnInv, Fill, Tasks
<1> QED
  BY <1>1, <1>2, <1>3, <1>4, <1>5, <1>6, <1>7 DEF StoreInv

LEMMA OpenKeeps ==
  ASSUME StoreInv, NEW task \in Tasks, Open(task)
  PROVE  StoreInv'
<1> USE StoreBounds DEF TaskAt, Go, TakeCopy, LeaveTask, fs, input, ghost, None
<1>1. StoreType'
  BY DEF StoreInv, StoreType, Open, Sets, States, Broken, StoreKinds, Busy,
          Changing, Places, WebPlaces, Tasks
<1>2. LockInv'
  BY DEF StoreInv, StoreType, LockInv, Open, Tasks, Busy, Holding, Changing, Places
<1>3. LeftInv'
  BY DEF StoreInv, StoreType, LeftInv, Open, Tasks, Item, Defaults, Broken
<1>4. ReadInv'
  BY DEF StoreInv, StoreType, ReadInv, Open, Tasks, CacheHit, Item, Defaults
<1>5. FileInv'
  BY DEF StoreInv, StoreType, FileInv, Open, Absent, Reported, Item, Defaults, File
<1>6. CalmInv'
  BY DEF StoreInv, StoreType, CalmInv, Open, Tasks, Changing, Calm, Says, Absent,
          Faithful, Reported, CacheHit, Item, Defaults
<1>7. OnInv'
  BY DEF StoreInv, StoreType, OnInv, Open, Tasks
<1> QED
  BY <1>1, <1>2, <1>3, <1>4, <1>5, <1>6, <1>7 DEF StoreInv

LEMMA CommitKeeps ==
  ASSUME StoreInv, NEW task \in Tasks, Commit(task)
  PROVE  StoreInv'
<1> USE StoreBounds DEF TaskAt, Go, TakeCopy, LeaveTask, fs, input, ghost, None
<1> DEFINE Word(outcome) == /\ task = "web" /\ place[task] = "saving"
                            /\ outcome = File("ok", copy[task]) /\ outcome.set.edit # left.edit
           overlapping == Others(task) \/ (overlap /\ ~copy[task].live)
<1>a. PICK outcome \in {file, File("ok", copy[task])} :
        /\ file' = outcome
        /\ Word(outcome) => /\ left' = Left("ok", copy[task].edit)
                            /\ overlap' = overlapping
                            /\ told' = IF copy[task].live THEN 0 ELSE told
        /\ ~Word(outcome) => /\ overlap' = (overlap \/ ~Settled)
                             /\ UNCHANGED <<left, told>>
  BY DEF Commit, Results
<1>b. \A t \in Tasks \ {task} : place'[t] = place[t] /\ copy'[t] = copy[t] /\ missing'[t] = missing[t]
  BY DEF StoreInv, StoreType, Commit
<1>c. \/ place[task] = "creating" /\ place'[task] = "loaded" /\ copy'[task] = copy[task]
      \/ place[task] = "saving" /\ place'[task] = "idle" /\ copy'[task] = Defaults
  BY DEF StoreInv, StoreType, Commit
<1>d. /\ UNCHANGED <<kind, generation, edits, shortages, expired>>
      /\ cache' = Empty /\ lock' = None
      /\ changed' = IF task = "scheduler" THEN FALSE ELSE changed
      /\ ~missing'[task]
  BY DEF StoreInv, StoreType, Commit, Drop
<1>e. lock = task /\ \A t \in Tasks \ {task} : place[t] \notin Holding
  BY <1>c DEF StoreInv, LockInv, Holding
<1>f. copy[task] \in Sets /\ (place[task] = "creating" => copy[task] = Defaults)
      /\ (place[task] = "saving" => copy[task].edit > 0)
  BY DEF StoreInv, StoreType, LeftInv
<1>g. file' = file \/ (file'.state = "ok" /\ file'.set = copy[task])
  BY <1>a DEF File
<1>h. ~CacheHit' /\ cache'.set = Defaults
  BY <1>d DEF CacheHit, Empty
<1>1. StoreType'
  <2>1. file' \in [state : States, set : Sets]
    BY <1>a, <1>f DEF StoreInv, StoreType, File, States
  <2>2. left' \in [state : States, edit : 0 .. MaxEdits]
    BY <1>a, <1>f DEF StoreInv, StoreType, Left, States, Sets
  <2>3. cache' \in Caches
    BY <1>d, DefaultsAre DEF Empty, Caches
  <2>4. copy' \in [Tasks -> Sets]
    BY DefaultsAre DEF StoreInv, StoreType, Commit
  <2>5. place' \in [Tasks -> Places \cup WebPlaces]
    BY DEF StoreInv, StoreType, Commit, Places, Busy
  <2>6. missing' \in [Tasks -> BOOLEAN] /\ changed' \in BOOLEAN /\ overlap' \in BOOLEAN
    BY <1>a DEF StoreInv, StoreType, Commit
  <2>7. told' \in 0 .. KillRepeats
    BY <1>a DEF StoreInv, StoreType
  <2> HIDE DEF Word, overlapping
  <2> QED
    BY <1>d, <2>1, <2>2, <2>3, <2>4, <2>5, <2>6, <2>7 DEF StoreInv, StoreType
<1>2. LockInv'
  BY DEF StoreInv, StoreType, LockInv, Commit, Results, Drop, Others, Settled,
          Empty, Tasks, Busy, Holding, Changing, Places, Item, Defaults, Left, File
<1>3. LeftInv'
  <2>1. left'.state = "ok" <=> left'.edit > 0
    BY <1>a, <1>f DEF StoreInv, LeftInv, Left, Sets
  <2>2. file'.state \in Broken => left'.state \in Broken
    BY <1>a, <1>c DEF StoreInv, LeftInv, File, Broken
  <2>3. place'["web"] \in {"upload", "announceCut", "remove"} => left' = left
    BY <1>a, <1>b, <1>c
  <2>4. place'["web"] \in {"upload", "announceCut", "remove"} => left'.state \in Broken
    BY <1>b, <1>c, <2>3 DEF StoreInv, LeftInv, Tasks
  <2> HIDE DEF Word, overlapping
  <2> QED
    BY <1>b, <1>c, <1>d, <2>1, <2>2, <2>4 DEF StoreInv, LeftInv, Tasks
<1>4. ReadInv'
  BY DEF StoreInv, StoreType, ReadInv, Commit, Results, Drop, Others, Settled,
          Empty, Tasks, CacheHit, Item, Defaults, Left, File
<1>5. FileInv'
  <2> SUFFICES ASSUME ~overlap' PROVE FileInv'
    BY DEF FileInv
  <2>0. place'["web"] \in {"save", "saving"} => task # "web"
    BY <1>c
  <2>1. CASE Word(outcome)
    <3>1. file' = File("ok", copy["web"]) /\ left' = Left("ok", copy["web"].edit) /\ kind' = kind
      BY <1>a, <1>d, <2>1
    <3>2. ~Absent'
      BY <3>1 DEF Absent, Left
    <3>3. kind = "objects" => Reported(file.set)'
      <4>1. told' = IF copy["web"].live THEN 0 ELSE told
        BY <1>a, <2>1
      <4>2. kind = "objects" => copy["web"].on /\ (copy["web"].live => copy["web"].kill = 0)
        BY <2>1 DEF StoreInv, LeftInv
      <4>3. ~overlap \/ copy["web"].live
        BY <1>a, <2>1
      <4> QED
        BY <3>1, <4>1, <4>2, <4>3, <2>1, StoreBounds DEF StoreInv, StoreType,
                                                         FileInv, Reported, File,
                                                         Sets
    <3> QED
      BY <3>1, <3>2, <3>3, <2>0, <2>1 DEF FileInv, File, Left, Reported
  <2>2. CASE ~Word(outcome)
    <3>1. ~overlap /\ Settled /\ left' = left /\ told' = told /\ kind' = kind
      BY <1>a, <1>d, <2>2
    <3>2. Calm
      BY <3>1 DEF Settled, Calm, Changing
    <3>3. place'["web"] \in {"save", "saving"} /\ kind = "objects" => Reported(copy["web"])'
      BY <1>b, <2>0, <3>1 DEF StoreInv, FileInv, Reported, Tasks
    <3>4. CASE file' = file
      BY <3>1, <3>3, <3>4 DEF StoreInv, FileInv, Reported, Absent
    <3>5. CASE outcome = File("ok", copy[task]) /\ place[task] = "creating"
      <4>1. Absent /\ file' = File("ok", Defaults)
        BY <1>a, <1>f, <3>1, <3>2, <3>5 DEF StoreInv, CalmInv
      <4> QED
        BY <3>1, <3>3, <4>1 DEF FileInv, Absent
    <3>6. CASE outcome = File("ok", copy[task]) /\ place[task] = "saving"
      <4>1. left.state = "ok" /\ copy[task].edit = left.edit
        <5>1. CASE task = "web"
          <6>1. outcome.set.edit = left.edit
            BY <2>2, <3>6, <5>1
          <6> QED
            BY <1>f, <3>6, <6>1 DEF StoreInv, LeftInv, File
        <5>2. CASE task # "web"
          <6>1. Faithful(copy[task])
            BY <3>1, <3>2, <3>6, <5>2 DEF StoreInv, CalmInv
          <6> QED
            BY <1>f, <3>6, <6>1, DefaultsAre DEF Faithful
        <5> QED
          BY <5>1, <5>2
      <4>2. kind = "objects" => Reported(copy[task])
        BY <3>1, <3>2, <3>6 DEF StoreInv, FileInv, CalmInv
      <4>3. file'.state = "ok" /\ file'.set = copy[task]
        BY <1>a, <3>6 DEF File
      <4> QED
        BY <3>1, <3>3, <4>1, <4>2, <4>3 DEF FileInv, Absent, Reported
    <3> QED
      BY <1>a, <1>c, <3>4, <3>5, <3>6
  <2> QED
    BY <2>1, <2>2
<1>6. CalmInv'
  <2> SUFFICES ASSUME (Calm /\ ~overlap)' PROVE CalmInv'
    BY DEF CalmInv
  <2>1. CASE Word(outcome)
    <3>1. \A t \in Tasks : place'[t] \notin Busy
      BY <1>a, <1>b, <1>c, <2>1 DEF Others, Busy
    <3> QED
      BY <1>h, <3>1 DEF CalmInv, Busy
  <2>2. CASE ~Word(outcome)
    <3>1. ~overlap /\ Settled /\ left' = left /\ told' = told /\ kind' = kind
      BY <1>a, <1>d, <2>2
    <3>2. Calm
      BY <3>1 DEF Settled, Calm, Changing
    <3>3. \A t \in Tasks : place'[t] # "cache"
      BY <1>b, <1>c, <1>e DEF Holding
    <3>4. place'[task] \notin {"create", "creating", "save", "saving"}
      BY <1>c
    <3>5. place'[task] = "loaded" => copy'[task] = Defaults
      BY <1>c, <1>f
    <3>6. Faithful(Defaults)' /\ ~(Defaults.edit > 0)
      BY DefaultsAre DEF Faithful
    <3> HIDE DEF Defaults, Word, overlapping
    <3> QED
      BY <1>b, <1>h, <3>1, <3>2, <3>3, <3>4, <3>5, <3>6
         DEF StoreInv, CalmInv, Absent, Faithful, Reported
  <2> QED
    BY <2>1, <2>2
<1>7. OnInv'
  <2>1. ~Defaults.on
    BY DEF Defaults, Item
  <2> HIDE DEF Word, overlapping
  <2> QED
    BY <1>b, <1>c, <1>g, <1>h, <2>1 DEF StoreInv, OnInv
<1> QED
  BY <1>1, <1>2, <1>3, <1>4, <1>5, <1>6, <1>7 DEF StoreInv

LEMMA ExpireKeeps ==
  ASSUME StoreInv, NEW task \in Tasks, Expire(task)
  PROVE  StoreInv'
<1> USE StoreBounds DEF TaskAt, Go, TakeCopy, LeaveTask, fs, input, ghost, None
<1>1. StoreType'
  <2>1. [copy[task] EXCEPT !.on = FALSE] \in Sets
    BY DEF StoreInv, StoreType, Sets
  <2> QED
    BY <2>1 DEF StoreInv, StoreType, Expire, Places, Busy
<1>2. LockInv'
  BY DEF StoreInv, StoreType, LockInv, Expire, Expires, Tasks, Busy, Holding,
          Changing, Places
<1>3. LeftInv'
  <2>1. \A t \in Tasks \ {task} : place'[t] = place[t] /\ copy'[t] = copy[t]
    BY DEF StoreInv, StoreType, Expire
  <2>2. place[task] = "loaded" /\ place'[task] = "save" /\ copy'[task].edit = copy[task].edit
    BY DEF StoreInv, StoreType, Expire, Sets
  <2>3. copy[task].edit > 0
    BY DEF StoreInv, StoreType, Expire, Expires, Sets
  <2>4. UNCHANGED <<left, file, changed, missing>> /\ kind = "bulletins" /\ kind' = kind
    BY DEF Expire, Expires
  <2> QED
    BY <2>1, <2>2, <2>3, <2>4 DEF StoreInv, LeftInv, Tasks
<1>4. ReadInv'
  BY DEF StoreInv, StoreType, ReadInv, Expire, Expires, Tasks, CacheHit, Item, Defaults
<1>5. FileInv'
  BY DEF StoreInv, StoreType, FileInv, Expire, Expires, Absent, Reported, Item,
          Defaults, File
<1>6. CalmInv'
  BY DEF StoreInv, StoreType, LockInv, FileInv, CalmInv, Expire, Expires, Tasks,
          Busy, Holding, Changing, Places, Calm, Says, Absent, Faithful, Reported,
          CacheHit, Item, Defaults, File
<1>7. OnInv'
  BY DEF StoreInv, StoreType, OnInv, Expire, Expires, Tasks
<1> QED
  BY <1>1, <1>2, <1>3, <1>4, <1>5, <1>6, <1>7 DEF StoreInv

LEMMA FinishKeeps ==
  ASSUME StoreInv, NEW task \in Tasks, Finish(task)
  PROVE  StoreInv'
<1> USE StoreBounds DEF TaskAt, Go, TakeCopy, LeaveTask, fs, input, ghost, None
<1>1. StoreType'
  <2>1. copy' \in [Tasks -> Sets]
    BY DefaultsAre DEF StoreInv, StoreType, Finish
  <2>2. place' \in [Tasks -> Places \cup WebPlaces]
    BY DEF StoreInv, StoreType, Finish, Places, Busy
  <2> QED
    BY <2>1, <2>2 DEF StoreInv, StoreType, Finish
<1>2. LockInv'
  BY DEF StoreInv, StoreType, LockInv, Finish, Expires, Tasks, Busy, Holding,
          Changing, Places, Item, Defaults
<1>3. LeftInv'
  <2>1. \A t \in Tasks \ {task} : place'[t] = place[t] /\ copy'[t] = copy[t]
    BY DEF StoreInv, StoreType, Finish
  <2>2. /\ place[task] = "loaded"
        /\ \/ place'[task] = "save" /\ copy'[task] = copy[task] /\ task = "scheduler" /\ changed
           \/ place'[task] = "idle" /\ ~(task = "scheduler" /\ changed)
    BY DEF StoreInv, StoreType, Finish
  <2>3. UNCHANGED <<kind, file, generation, cache, lock, left, changed, missing, overlap, told>>
    BY DEF Finish
  <2> QED
    BY <2>1, <2>2, <2>3 DEF StoreInv, LeftInv, Tasks
<1>4. ReadInv'
  <2>1. \A t \in Tasks \ {task} : place'[t] = place[t] /\ copy'[t] = copy[t]
    BY DEF StoreInv, StoreType, Finish
  <2>2. /\ place[task] = "loaded"
        /\ \/ place'[task] = "save" /\ copy'[task] = copy[task] /\ task = "scheduler" /\ changed
           \/ place'[task] = "idle" /\ ~(task = "scheduler" /\ changed)
    BY DEF StoreInv, StoreType, Finish
  <2>3. UNCHANGED <<kind, file, generation, cache, lock, left, changed, missing, overlap, told>>
    BY DEF Finish
  <2>4. lock # task
    BY <2>2 DEF StoreInv, LockInv, Holding
  <2> QED
    BY <2>1, <2>2, <2>3, <2>4 DEF StoreInv, StoreType, ReadInv, CacheHit, None, Tasks
<1>5. FileInv'
  BY DEF StoreInv, StoreType, LeftInv, FileInv, Finish, Expires, Tasks, Absent,
          Reported, Item, Defaults, File, Broken
<1>6. CalmInv'
  <2>1. \A t \in Tasks \ {task} : place'[t] = place[t] /\ copy'[t] = copy[t]
    BY DEF StoreInv, StoreType, Finish
  <2>2. /\ place[task] = "loaded"
        /\ \/ place'[task] = "save" /\ copy'[task] = copy[task] /\ task = "scheduler" /\ changed
           \/ place'[task] = "idle" /\ ~(task = "scheduler" /\ changed)
    BY DEF StoreInv, StoreType, Finish
  <2>3. UNCHANGED <<kind, file, generation, cache, lock, left, changed, missing, overlap, told>>
    BY DEF Finish
  <2>4. changed => copy["scheduler"].edit > 0
    BY DEF StoreInv, LeftInv
  <2> HIDE DEF Defaults
  <2>5. Calm' => Calm
    BY <2>1, <2>2 DEF Calm, Changing, Tasks
  <2> QED
    BY <2>1, <2>2, <2>3, <2>4, <2>5
       DEF StoreInv, CalmInv, Tasks, CacheHit, Says, Absent, Faithful, Reported
<1>7. OnInv'
  BY DEF StoreInv, StoreType, OnInv, Finish, Expires, Item, Defaults, Tasks
<1> QED
  BY <1>1, <1>2, <1>3, <1>4, <1>5, <1>6, <1>7 DEF StoreInv

LEMMA KillKeeps ==
  ASSUME StoreInv, Kill
  PROVE  StoreInv'
<1> USE StoreBounds DEF TaskAt, Go, TakeCopy, LeaveTask, fs, input, ghost, None
<1>1. StoreType'
  BY DEF StoreInv, StoreType, Kill, KillsAfter, Sets, States, Item, Broken,
          StoreKinds, Busy, Changing, Places, WebPlaces, Tasks
<1>2. LockInv'
  BY DEF StoreInv, StoreType, LockInv, Kill, KillsAfter, Tasks, Busy, Holding,
          Changing, Places, Item
<1>3. LeftInv'
  <2>1. \A t \in Tasks \ {"scheduler"} : copy'[t] = copy[t]
    BY DEF StoreInv, StoreType, Kill
  <2>2. place["scheduler"] = "loaded" /\ copy'["scheduler"].edit = copy["scheduler"].edit
    BY DEF StoreInv, StoreType, Kill, Sets, Tasks, Item
  <2>3. copy["scheduler"].edit > 0
    BY DEF StoreInv, OnInv, Kill, Tasks
  <2>4. UNCHANGED <<left, file, place, missing, kind>>
    BY DEF Kill
  <2> QED
    BY <2>1, <2>2, <2>3, <2>4 DEF StoreInv, LeftInv, Tasks
<1>4. ReadInv'
  BY DEF StoreInv, StoreType, ReadInv, Kill, KillsAfter, Tasks, CacheHit, Item, Defaults
<1>5. FileInv'
  BY DEF StoreInv, StoreType, LockInv, LeftInv, FileInv, CalmInv, Kill, KillsAfter,
          Tasks, Busy, Holding, Changing, Places, WebPlaces, Calm, Says, Absent,
          Faithful, Reported, CacheHit, Sets, States, Item, Defaults, Left, File,
          Broken, StoreKinds
<1>6. CalmInv'
  BY DEF StoreInv, StoreType, LockInv, LeftInv, ReadInv, FileInv, CalmInv, Kill,
          KillsAfter, Tasks, Busy, Holding, Changing, Places, WebPlaces, Calm, Says,
          Absent, Faithful, Reported, CacheHit, Sets, States, Item, Defaults, Left,
          File, Broken, StoreKinds
<1>7. OnInv'
  BY DEF StoreInv, StoreType, OnInv, Kill, KillsAfter, Item, Tasks
<1> QED
  BY <1>1, <1>2, <1>3, <1>4, <1>5, <1>6, <1>7 DEF StoreInv

LEMMA RetryFallsDueKeeps ==
  ASSUME StoreInv, RetryFallsDue
  PROVE  StoreInv'
<1> USE StoreBounds DEF TaskAt, Go, TakeCopy, LeaveTask, fs, input, ghost, None
<1>1. StoreType'
  <2>1. cache' \in Caches
    BY DEF StoreInv, StoreType, Caches, RetryFallsDue
  <2> QED
    BY <2>1 DEF StoreInv, StoreType, RetryFallsDue
<1>2. LockInv'
  BY DEF StoreInv, StoreType, LockInv, RetryFallsDue, Tasks, Busy, Holding, Changing, Places
<1>3. LeftInv'
  BY DEF StoreInv, StoreType, LeftInv, RetryFallsDue, Tasks, Item, Defaults, Broken
<1>4. ReadInv'
  BY DEF StoreInv, StoreType, ReadInv, RetryFallsDue, Tasks, CacheHit, Item, Defaults
<1>5. FileInv'
  BY DEF StoreInv, StoreType, FileInv, RetryFallsDue, Absent, Reported, Item, Defaults, File
<1>6. CalmInv'
  BY DEF StoreInv, StoreType, CalmInv, RetryFallsDue, Tasks, Changing, Calm, Says,
          Absent, Faithful, Reported, CacheHit, Item, Defaults
<1>7. OnInv'
  BY DEF StoreInv, StoreType, OnInv, RetryFallsDue, Tasks
<1> QED
  BY <1>1, <1>2, <1>3, <1>4, <1>5, <1>6, <1>7 DEF StoreInv

LEMMA ExpiryPassesKeeps ==
  ASSUME StoreInv, ExpiryPasses
  PROVE  StoreInv'
<1> USE StoreBounds DEF TaskAt, Go, TakeCopy, LeaveTask, fs, input, ghost, None
<1>1. StoreType'
  BY DEF StoreInv, StoreType, ExpiryPasses, Sets, States, Broken, StoreKinds, Busy,
          Changing, Places, WebPlaces, Tasks
<1>2. LockInv'
  BY DEF StoreInv, StoreType, LockInv, ExpiryPasses, Tasks, Busy, Holding, Changing, Places
<1>3. LeftInv'
  BY DEF StoreInv, StoreType, LeftInv, ExpiryPasses, Tasks, Item, Defaults, Broken
<1>4. ReadInv'
  BY DEF StoreInv, StoreType, ReadInv, ExpiryPasses, Tasks, CacheHit, Item, Defaults
<1>5. FileInv'
  BY DEF StoreInv, StoreType, FileInv, ExpiryPasses, Absent, Reported, Item, Defaults, File
<1>6. CalmInv'
  BY DEF StoreInv, StoreType, CalmInv, ExpiryPasses, Tasks, Changing, Calm, Says,
          Absent, Faithful, Reported, CacheHit, Item, Defaults
<1>7. OnInv'
  BY DEF StoreInv, StoreType, OnInv, ExpiryPasses, Tasks
<1> QED
  BY <1>1, <1>2, <1>3, <1>4, <1>5, <1>6, <1>7 DEF StoreInv

LEMMA EditKeeps ==
  ASSUME StoreInv, NEW live \in BOOLEAN, Edit(live)
  PROVE  StoreInv'
<1> USE StoreBounds DEF TaskAt, Go, TakeCopy, LeaveTask, fs, input, ghost, None
<1>1. StoreType'
  BY DEF StoreInv, StoreType, Edit, Sets, States, Item, Broken, StoreKinds, Busy,
          Changing, Places, WebPlaces, Tasks
<1>2. LockInv'
  BY DEF StoreInv, StoreType, LockInv, Edit, Tasks, Busy, Holding, Changing, Places, Item
<1>3. LeftInv'
  BY DEF StoreInv, StoreType, LeftInv, Edit, Tasks, Item, Defaults, Broken
<1>4. ReadInv'
  BY DEF StoreInv, StoreType, ReadInv, Edit, Tasks, CacheHit, Item, Defaults
<1>5. FileInv'
  BY DEF StoreInv, StoreType, LockInv, LeftInv, FileInv, CalmInv, Edit, Tasks,
          Busy, Holding, Changing, Places, WebPlaces, Calm, Says, Absent, Faithful,
          Reported, CacheHit, Sets, States, Item, Defaults, Left, File, Broken,
          StoreKinds
<1>6. CalmInv'
  BY DEF StoreInv, StoreType, CalmInv, Edit, Tasks, Changing, Calm, Says, Absent,
          Faithful, Reported, CacheHit, Item, Defaults
<1>7. OnInv'
  BY DEF StoreInv, StoreType, OnInv, Edit, Item, Tasks
<1> QED
  BY <1>1, <1>2, <1>3, <1>4, <1>5, <1>6, <1>7 DEF StoreInv

LEMMA UploadOpenKeeps ==
  ASSUME StoreInv, UploadOpen
  PROVE  StoreInv'
<1> USE StoreBounds DEF TaskAt, Go, TakeCopy, LeaveTask, fs, input, ghost, None
<1>1. StoreType'
  BY DEF StoreInv, StoreType, UploadOpen, Others, Sets, States, Item, Defaults,
          Left, File, Broken, StoreKinds, Busy, Changing, Places, WebPlaces, Tasks
<1>2. LockInv'
  BY DEF StoreInv, StoreType, LockInv, UploadOpen, Others, Tasks, Busy, Holding,
          Changing, Places, Item, Defaults, Left, File
<1>3. LeftInv'
  BY DEF StoreInv, StoreType, LeftInv, UploadOpen, Others, Tasks, Item, Defaults,
          Left, File, Broken
<1>4. ReadInv'
  BY DEF StoreInv, StoreType, ReadInv, UploadOpen, Others, Tasks, CacheHit, Item,
          Defaults, Left, File
<1>5. FileInv'
  BY DEF StoreInv, StoreType, FileInv, UploadOpen, Others, Tasks, Absent, Reported,
          Item, Defaults, Left, File
<1>6. CalmInv'
  BY DEF StoreInv, StoreType, CalmInv, UploadOpen, Others, Tasks, Changing, Calm,
          Says, Absent, Faithful, Reported, CacheHit, Item, Defaults, Left, File
<1>7. OnInv'
  BY DEF StoreInv, StoreType, OnInv, UploadOpen, Others, Item, Defaults, File, Tasks
<1> QED
  BY <1>1, <1>2, <1>3, <1>4, <1>5, <1>6, <1>7 DEF StoreInv

LEMMA UploadWriteKeeps ==
  ASSUME StoreInv, UploadWrite
  PROVE  StoreInv'
<1> USE StoreBounds DEF TaskAt, Go, TakeCopy, LeaveTask, fs, input, ghost, None
<1>1. StoreType'
  BY DEF StoreInv, StoreType, UploadWrite, Others, Sets, States, Item, Defaults,
          Left, File, Broken, StoreKinds, Busy, Changing, Places, WebPlaces, Tasks
<1>2. LockInv'
  BY DEF StoreInv, StoreType, LockInv, UploadWrite, Others, Tasks, Busy, Holding,
          Changing, Places, Item, Defaults, Left, File
<1>3. LeftInv'
  BY DEF StoreInv, StoreType, LeftInv, UploadWrite, Others, Tasks, Item, Defaults,
          Left, File, Broken
<1>4. ReadInv'
  BY DEF StoreInv, StoreType, ReadInv, UploadWrite, Others, Tasks, CacheHit, Item,
          Defaults, Left, File
<1>5. FileInv'
  BY DEF StoreInv, StoreType, FileInv, UploadWrite, Others, Tasks, Absent,
          Reported, Item, Defaults, Left, File
<1>6. CalmInv'
  BY DEF StoreInv, StoreType, CalmInv, UploadWrite, Others, Tasks, Changing, Calm,
          Says, Absent, Faithful, Reported, CacheHit, Item, Defaults, Left, File
<1>7. OnInv'
  BY DEF StoreInv, StoreType, OnInv, UploadWrite, Others, Item, Defaults, File, Tasks
<1> QED
  BY <1>1, <1>2, <1>3, <1>4, <1>5, <1>6, <1>7 DEF StoreInv

LEMMA UploadCloseKeeps ==
  ASSUME StoreInv, NEW whole \in BOOLEAN, UploadClose(whole)
  PROVE  StoreInv'
<1> USE StoreBounds DEF TaskAt, Go, TakeCopy, LeaveTask, fs, input, ghost, None
<1>1. StoreType'
  <2>1. CASE whole
    <3>1. edits < MaxEdits /\ edits' = edits + 1
      BY <2>1 DEF StoreInv, LockInv, UploadClose
    <3>2. edits' \in 0 .. MaxEdits /\ expired' \subseteq 1 .. edits'
      BY <3>1 DEF StoreInv, StoreType, UploadClose
    <3>3. file' = File("ok", Item(edits', TRUE, TRUE, 0)) /\ left' = Left("ok", edits') /\ told' = 0
      BY <2>1 DEF UploadClose
    <3>4. file' \in [state : States, set : Sets] /\ left' \in [state : States, edit : 0 .. MaxEdits]
      BY <3>2, <3>3 DEF File, Left, Item, Sets, States
    <3>5. place' \in [Tasks -> Places \cup WebPlaces]
      BY <2>1 DEF StoreInv, StoreType, UploadClose, WebPlaces, Changing
    <3>6. overlap' \in BOOLEAN /\ told' \in 0 .. KillRepeats
      BY <3>3 DEF StoreInv, StoreType, UploadClose
    <3>7. UNCHANGED <<kind, generation, cache, lock, copy, missing, changed, shortages>>
      BY DEF UploadClose
    <3> HIDE DEF Item, Sets, States
    <3> QED
      BY <3>2, <3>4, <3>5, <3>6, <3>7 DEF StoreInv, StoreType, UploadClose
  <2>2. CASE ~whole
    BY <2>2 DEF StoreInv, StoreType, UploadClose, WebPlaces, Changing
  <2> QED
    BY <2>1, <2>2
<1>2. LockInv'
  BY DEF StoreInv, StoreType, LockInv, UploadClose, Others, Tasks, Busy, Holding,
          Changing, Places, Item, Left, File
<1>3. LeftInv'
  BY DEF StoreInv, StoreType, LeftInv, UploadClose, Others, Tasks, Item, Defaults,
          Left, File, Broken
<1>4. ReadInv'
  BY DEF StoreInv, StoreType, ReadInv, UploadClose, Others, Tasks, CacheHit, Item,
          Defaults, Left, File
<1>5. FileInv'
  BY DEF StoreInv, StoreType, FileInv, UploadClose, Others, Tasks, Absent,
          Reported, Item, Defaults, Left, File
<1>6. CalmInv'
  BY DEF StoreInv, StoreType, CalmInv, UploadClose, Others, Tasks, Changing, Calm,
          Says, Absent, Faithful, Reported, CacheHit, Item, Defaults, Left, File
<1>7. OnInv'
  BY DEF StoreInv, StoreType, OnInv, UploadClose, Others, Item, File, Tasks
<1> QED
  BY <1>1, <1>2, <1>3, <1>4, <1>5, <1>6, <1>7 DEF StoreInv

LEMMA AnnounceKeeps ==
  ASSUME StoreInv, Announce
  PROVE  StoreInv'
<1> USE StoreBounds DEF TaskAt, Go, TakeCopy, LeaveTask, fs, input, ghost, None
<1>1. StoreType'
  BY DEF StoreInv, StoreType, LockInv, LeftInv, Announce, Announced, Others, Sets,
          States, Item, Defaults, Left, File, Broken, StoreKinds, Busy, Changing,
          Places, WebPlaces, Tasks
<1>2. LockInv'
  BY DEF StoreInv, StoreType, Caches, LockInv, Announce, Announced, Others, Tasks, Busy,
          Holding, Changing, Places
<1>3. LeftInv'
  BY DEF StoreInv, StoreType, LeftInv, Announce, Announced, Others, Tasks, Item,
          Defaults, Broken
<1>4. ReadInv'
  BY DEF StoreInv, StoreType, LockInv, ReadInv, Announce, Announced, Others, Tasks,
          Busy, Holding, Changing, Places, CacheHit, Item, Defaults
<1>5. FileInv'
  BY DEF StoreInv, StoreType, FileInv, Announce, Announced, Others, Tasks, Absent,
          Reported, Item, Defaults, File
<1>6. CalmInv'
  <2>1. \A t \in Tasks \ {"web"} : place'[t] = place[t]
    BY DEF StoreInv, StoreType, Announce
  <2>2. /\ place["web"] \in {"announce", "announceCut"}
        /\ place'["web"] \in {"idle", "remove"}
    BY DEF StoreInv, StoreType, Announce, Tasks
  <2>3. /\ UNCHANGED <<kind, file, cache, left, copy, missing, told>>
        /\ generation' = generation + 1
        /\ overlap' = (overlap \/ Others("web"))
    BY DEF Announce, Announced
  <2>4. ~CacheHit'
    BY <2>3 DEF StoreInv, StoreType, LockInv, CacheHit
  <2>5. ~overlap' => \A t \in Tasks \ {"web"} : place[t] \notin Busy
    BY <2>3 DEF Others, Busy
  <2> QED
    BY <2>1, <2>2, <2>3, <2>4, <2>5 DEF StoreInv, CalmInv, Tasks, Busy
<1>7. OnInv'
  BY DEF StoreInv, StoreType, OnInv, Announce, Announced, Others, Tasks
<1> QED
  BY <1>1, <1>2, <1>3, <1>4, <1>5, <1>6, <1>7 DEF StoreInv

LEMMA RemoveCutKeeps ==
  ASSUME StoreInv, RemoveCut
  PROVE  StoreInv'
<1> USE StoreBounds DEF TaskAt, Go, TakeCopy, LeaveTask, fs, input, ghost, None
<1>1. StoreType'
  BY DEF StoreInv, StoreType, RemoveCut, Others, Sets, States, Item, Defaults,
          Left, File, Broken, StoreKinds, Busy, Changing, Places, WebPlaces, Tasks
<1>2. LockInv'
  BY DEF StoreInv, StoreType, LockInv, RemoveCut, Others, Tasks, Busy, Holding,
          Changing, Places, Item, Defaults, Left, File
<1>3. LeftInv'
  BY DEF StoreInv, StoreType, LeftInv, RemoveCut, Others, Tasks, Item, Defaults,
          Left, File, Broken
<1>4. ReadInv'
  BY DEF StoreInv, StoreType, ReadInv, RemoveCut, Others, Tasks, CacheHit, Item,
          Defaults, Left, File
<1>5. FileInv'
  BY DEF StoreInv, StoreType, FileInv, RemoveCut, Others, Tasks, Absent, Reported,
          Item, Defaults, Left, File
<1>6. CalmInv'
  BY DEF StoreInv, StoreType, Caches, LockInv, LeftInv, ReadInv, FileInv, CalmInv,
          RemoveCut, Others, Tasks, Busy, Holding, Changing, Places, WebPlaces,
          Calm, Says, Absent, Faithful, Reported, CacheHit, Sets, States, Item,
          Defaults, Left, File, Broken, StoreKinds
<1>7. OnInv'
  BY DEF StoreInv, StoreType, OnInv, RemoveCut, Others, Item, Defaults, File, Tasks
<1> QED
  BY <1>1, <1>2, <1>3, <1>4, <1>5, <1>6, <1>7 DEF StoreInv

LEMMA DeleteKeeps ==
  ASSUME StoreInv, Delete
  PROVE  StoreInv'
<1> USE StoreBounds DEF TaskAt, Go, TakeCopy, LeaveTask, fs, input, ghost, None
<1>1. StoreType'
  BY DEF StoreInv, StoreType, Delete, Others, Sets, States, Item, Defaults, Left,
          File, Broken, StoreKinds, Busy, Changing, Places, WebPlaces, Tasks
<1>2. LockInv'
  BY DEF StoreInv, StoreType, LockInv, Delete, Others, Tasks, Busy, Holding,
          Changing, Places, Item, Defaults, Left, File
<1>3. LeftInv'
  BY DEF StoreInv, StoreType, LeftInv, Delete, Others, Tasks, Item, Defaults, Left,
          File, Broken
<1>4. ReadInv'
  BY DEF StoreInv, StoreType, ReadInv, Delete, Others, Tasks, CacheHit, Item,
          Defaults, Left, File
<1>5. FileInv'
  BY DEF StoreInv, StoreType, FileInv, Delete, Others, Tasks, Absent, Reported,
          Item, Defaults, Left, File
<1>6. CalmInv'
  BY DEF StoreInv, StoreType, CalmInv, Delete, Others, Tasks, Changing, Calm, Says,
          Absent, Faithful, Reported, CacheHit, Item, Defaults, Left, File
<1>7. OnInv'
  BY DEF StoreInv, StoreType, OnInv, Delete, Others, Item, Defaults, File, Tasks
<1> QED
  BY <1>1, <1>2, <1>3, <1>4, <1>5, <1>6, <1>7 DEF StoreInv

LEMMA FormatKeeps ==
  ASSUME StoreInv, Format
  PROVE  StoreInv'
<1> USE StoreBounds DEF TaskAt, Go, TakeCopy, LeaveTask, fs, input, ghost, None
<1>1. StoreType'
  BY DEF StoreInv, StoreType, Format, Others, Sets, States, Item, Defaults, Left,
          File, Broken, StoreKinds, Busy, Changing, Places, WebPlaces, Tasks
<1>2. LockInv'
  BY DEF StoreInv, StoreType, Caches, LockInv, Format, Others, Tasks, Busy, Holding,
          Changing, Places, Item, Defaults, Left, File
<1>3. LeftInv'
  BY DEF StoreInv, StoreType, LeftInv, Format, Others, Tasks, Item, Defaults, Left,
          File, Broken
<1>4. ReadInv'
  BY DEF StoreInv, StoreType, LockInv, ReadInv, Format, Others, Tasks, Busy,
          Holding, Changing, Places, CacheHit, Item, Defaults, Left, File
<1>5. FileInv'
  BY DEF StoreInv, StoreType, FileInv, Format, Others, Tasks, Absent, Reported,
          Item, Defaults, Left, File
<1>6. CalmInv'
  BY DEF StoreInv, StoreType, LockInv, FileInv, CalmInv, Format, Others, Tasks,
          Busy, Holding, Changing, Places, Calm, Says, Absent, Faithful, Reported,
          CacheHit, Item, Defaults, Left, File
<1>7. OnInv'
  BY DEF StoreInv, StoreType, OnInv, Format, Others, Item, Defaults, File, Tasks
<1> QED
  BY <1>1, <1>2, <1>3, <1>4, <1>5, <1>6, <1>7 DEF StoreInv

LEMMA CrashKeeps ==
  ASSUME StoreInv, Crash
  PROVE  StoreInv'
<1> USE StoreBounds DEF TaskAt, Go, TakeCopy, LeaveTask, fs, input, ghost, None
<1>1. StoreType'
  <2>1. cache' \in Caches
    BY DefaultsAre DEF Crash, Empty, Caches
  <2>2. copy' \in [Tasks -> Sets]
    BY DefaultsAre DEF Crash
  <2>3. place' \in [Tasks -> Places \cup WebPlaces]
    BY DEF Crash, Places
  <2> QED
    BY <2>1, <2>2, <2>3 DEF StoreInv, StoreType, Crash
<1>2. LockInv'
  BY DEF StoreInv, StoreType, LockInv, Crash, Empty, Tasks, Busy, Holding,
          Changing, Places, Item, Defaults
<1>3. LeftInv'
  BY DEF StoreInv, StoreType, LeftInv, Crash, Empty, Tasks, Item, Defaults, Broken
<1>4. ReadInv'
  BY DEF StoreInv, StoreType, ReadInv, Crash, Empty, Tasks, CacheHit, Item, Defaults
<1>5. FileInv'
  BY DEF StoreInv, StoreType, FileInv, Crash, Empty, Tasks, Absent, Reported, Item,
          Defaults, File
<1>6. CalmInv'
  BY DEF StoreInv, StoreType, CalmInv, Crash, Empty, Tasks, Changing, Calm, Says,
          Absent, Faithful, Reported, CacheHit, Item, Defaults
<1>7. OnInv'
  BY DEF StoreInv, StoreType, OnInv, Crash, Empty, Item, Defaults, Tasks
<1> QED
  BY <1>1, <1>2, <1>3, <1>4, <1>5, <1>6, <1>7 DEF StoreInv

LEMMA StoreStart == StoreInit => StoreInv
<1> SUFFICES ASSUME StoreInit PROVE StoreInv
  OBVIOUS
<1> USE StoreBounds DEF StoreInit
<1>1. /\ file = File("missing", Defaults) /\ left = Left("missing", 0)
      /\ cache = Empty /\ \A t \in Tasks : copy[t] = Defaults /\ place[t] = "idle"
  OBVIOUS
<1>2. StoreType
  <2>1. /\ file \in [state : States, set : Sets] /\ left \in [state : States, edit : 0 .. MaxEdits]
        /\ cache \in Caches
    BY <1>1, DefaultsAre DEF File, Left, Empty, States, Caches
  <2>2. /\ place \in [Tasks -> Places \cup WebPlaces]
        /\ copy \in [Tasks -> Sets] /\ missing \in [Tasks -> BOOLEAN]
    BY DefaultsAre DEF Places
  <2>3. /\ generation \in 0 .. MaxChanges /\ edits \in 0 .. MaxEdits
        /\ shortages \in 0 .. MaxShortages /\ told \in 0 .. KillRepeats
    OBVIOUS
  <2> QED
    BY <2>1, <2>2, <2>3 DEF StoreType
<1>3. LockInv
  BY DEF LockInv, Tasks, None, Places, Holding, Changing, Empty
<1>4. LeftInv
  BY DEF LeftInv, Tasks, File, Left, Broken
<1>5. OnInv
  BY DEF OnInv, File, Empty, Defaults, Item
<1>6. ReadInv
  BY DEF ReadInv, Empty, CacheHit
<1>7. FileInv
  BY DEF FileInv, File, Left, Absent, Tasks
<1>8. CalmInv
  BY DEF CalmInv, Empty, CacheHit
<1> QED
  BY <1>2, <1>3, <1>4, <1>5, <1>6, <1>7, <1>8 DEF StoreInv

LEMMA StoreStep == StoreInv /\ [StoreNext]_storeVars => StoreInv'
<1> SUFFICES ASSUME StoreInv, [StoreNext]_storeVars PROVE StoreInv'
  OBVIOUS
<1>1. ASSUME NEW task \in Tasks, Work(task) PROVE StoreInv'
  BY <1>1, LoadKeeps, ReadFileKeeps, FillKeeps, OpenKeeps, CommitKeeps, ExpireKeeps, FinishKeeps
     DEF Work
<1>2. CASE Operate
  BY <1>2, EditKeeps, UploadOpenKeeps, UploadWriteKeeps, UploadCloseKeeps, AnnounceKeeps,
     RemoveCutKeeps, DeleteKeeps, FormatKeeps DEF Operate
<1>3. CASE Kill \/ RetryFallsDue \/ ExpiryPasses \/ Crash
  BY <1>3, KillKeeps, RetryFallsDueKeeps, ExpiryPassesKeeps, CrashKeeps
<1>4. CASE UNCHANGED storeVars
  BY <1>4 DEF storeVars, fs, input, ghost, StoreInv, StoreType, LockInv, LeftInv,
              OnInv, ReadInv,
     FileInv, CalmInv, Calm, CacheHit, Says, Absent, Faithful, Reported
<1> QED
  BY <1>1, <1>2, <1>3, <1>4 DEF StoreNext

LEMMA StoreInvSound == StoreInv => StoreSound
<1> SUFFICES ASSUME StoreInv PROVE StoreSound
  OBVIOUS
<1> USE StoreBounds
<1>1. TypeOK
  BY DEF StoreInv, StoreType, TypeOK, Sets, States, Caches
<1>2. OperatorsFileKept
  BY DEF StoreInv, FileInv, Absent, OperatorsFileKept
<1>3. CacheCurrent
  BY DEF StoreInv, CalmInv, CacheCurrent, Settled, Calm, Changing, Says
<1>4. OnlyUploadsBreakFiles
  BY DEF StoreInv, LeftInv, OnlyUploadsBreakFiles
<1>5. RetiredAfterReports
  <2> SUFFICES ASSUME ~overlap, file.state = "ok", kind = "objects", file.set.edit > 0, ~file.set.on
               PROVE  told = KillRepeats
    BY DEF RetiredAfterReports
  <2>1. left.state = "ok"
    <3> SUFFICES ASSUME left.state # "ok" PROVE FALSE
      OBVIOUS
    <3>1. file = File("ok", Defaults)
      BY DEF StoreInv, FileInv, Absent
    <3> QED
      BY <3>1, DefaultsAre DEF File
  <2> QED
    BY <2>1 DEF StoreInv, FileInv, Reported
<1> QED
  BY <1>1, <1>2, <1>3, <1>4, <1>5 DEF StoreSound

\* Through edits, retirements, retries, failed saves, uploads cut short and power
\* losses, the operator's file stays, the cache says what the file says, only
\* uploads break files, and an element is retired after its last kill report
\* (json_store.h:301-348; objects_items.c:1390), for any number of edits, reports
\* and shortages.
THEOREM StoreKept == StoreSpec => []StoreSound
<1> QED
  BY StoreStart, StoreStep, StoreInvSound, PTL DEF StoreSpec

-----------------------------------------------------------------------------
(* The responder to queries: query.c                                       *)


\* Where a receiving task is.  A request on its way to the limiter names a station that asks,
\* and the ceiling it passed stays passed: no second goes by in between.
Stops == [at : {"idle", "wake"}] \cup [at : {"claim", "queue"}, request : Requests]
ReceiversInv ==
  /\ rx \in [Sources -> Stops]
  /\ \A s \in Sources : rx[s].at = "claim" => rx[s].request.call \in Calls /\ directed[s] >= Ceiling

LimiterTypes ==
  /\ directed \in [Sources -> Nat] /\ served \in [Calls -> Nat]
  /\ track \in [1 .. TrackMax -> [call : Calls \cup {Nobody}, age : Nat]]

Remembered(c) == \E i \in 1 .. TrackMax : track[i].call = c /\ track[i].age <= served[c]

\* A station served a moment ago closed one side with it, and is either still remembered or
\* whoever took its place closed the other: a full table forgets nobody it could let past.
ClosedFor(c) ==
  /\ \E s \in Sources : directed[s] <= served[c]
  /\ Remembered(c) \/ \A s \in Sources : directed[s] <= served[c]

LimiterInv == LimiterTypes /\ ReceiversInv /\ ~early
              /\ \A c \in Calls : served[c] < CallMin => ClosedFor(c)

\* What is queued once the pass has left the queue has notified the task, or will.
Told == pending # <<>> /\ ~gaveUp => notified \/ \E source \in Sources : rx[source].at = "wake"
PassInv ==
  /\ phase \in {"beacons", "objects", "sleep"} => Told
  /\ phase = "sleep" /\ announce # {} => objects < 2
  /\ objects \in 0 .. 2

QueryInv == LimiterInv /\ PassInv

LEMMA SourcesAre == Sources = {"RF", "INET"}
<1> QED
  BY DEF Sources

LEMMA QueryStart == Init => QueryInv
<1> SUFFICES ASSUME Init PROVE QueryInv
  OBVIOUS
<1>0. CallMin \in Nat /\ Ceiling \in Nat /\ TrackMax \in Nat
  BY QueryAssumption
<1>1. LimiterTypes
  <2>1. directed \in [Sources -> Nat]
    BY DEF Init
  <2>2. served \in [Calls -> Nat]
    BY <1>0 DEF Init
  <2>3. Free \in [call : Calls \cup {Nobody}, age : Nat]
    BY <1>0 DEF Free
  <2> QED
    BY <2>1, <2>2, <2>3 DEF Init, LimiterTypes
<1>2. ReceiversInv
  <2>1. Idle \in Stops /\ Idle.at = "idle"
    BY DEF Idle, Stops
  <2> QED
    BY <2>1 DEF Init, ReceiversInv
<1>3. ~early /\ \A c \in Calls : served[c] = CallMin
  BY DEF Init
<1>4. PassInv
  BY DEF Init, PassInv
<1> QED
  BY <1>0, <1>1, <1>2, <1>3, <1>4 DEF QueryInv, LimiterInv

\* A step that leaves the limiters alone and sends nobody to be limited.
LEMMA LimiterRests ==
  ASSUME LimiterInv, UNCHANGED <<directed, track, served, early>>, rx' \in [Sources -> Stops],
         \A s \in Sources : rx'[s].at = "claim" => rx'[s] = rx[s]
  PROVE  LimiterInv'
<1>1. LimiterTypes'
  BY DEF LimiterInv, LimiterTypes
<1>2. ReceiversInv'
  BY DEF LimiterInv, ReceiversInv
<1>3. \A c \in Calls : served'[c] < CallMin => ClosedFor(c)'
  BY DEF LimiterInv, ClosedFor, Remembered
<1> QED
  BY <1>1, <1>2, <1>3 DEF LimiterInv

\* A second passes: what is closed was closed no later than its station was served.
LEMMA TickKeeps == LimiterInv /\ Tick => LimiterInv'
<1> SUFFICES ASSUME LimiterInv, Tick PROVE LimiterInv'
  OBVIOUS
<1>0. CallMin \in Nat /\ Ceiling \in Nat /\ CallMin <= Ceiling /\ TrackMax \in Nat
  BY QueryAssumption
<1>1. LimiterTypes /\ ReceiversInv /\ ~early
  BY DEF LimiterInv
<1>2. /\ directed' = [s \in Sources |-> Older(directed[s], Ceiling)]
      /\ served' = [c \in Calls |-> Older(served[c], CallMin)]
      /\ track' = [i \in DOMAIN track |-> [track[i] EXCEPT !.age = Older(@, CallMin)]]
      /\ rx' = rx /\ early' = early /\ \A s \in Sources : rx[s].at # "claim"
  BY DEF Tick
<1>3. DOMAIN track = 1 .. TrackMax
  BY <1>1 DEF LimiterTypes
<1>4. ASSUME NEW s \in Sources
      PROVE  directed[s] \in Nat /\ directed'[s] \in Nat
             /\ directed'[s] = IF directed[s] < Ceiling THEN directed[s] + 1 ELSE directed[s]
  BY <1>0, <1>1, <1>2 DEF LimiterTypes, Older
<1>5. ASSUME NEW c \in Calls
      PROVE  served[c] \in Nat /\ served'[c] \in Nat
             /\ served'[c] = IF served[c] < CallMin THEN served[c] + 1 ELSE served[c]
  BY <1>0, <1>1, <1>2 DEF LimiterTypes, Older
<1>6. ASSUME NEW i \in 1 .. TrackMax
      PROVE  /\ track[i].age \in Nat /\ track'[i] \in [call : Calls \cup {Nobody}, age : Nat]
             /\ track'[i].call = track[i].call
             /\ track'[i].age = IF track[i].age < CallMin THEN track[i].age + 1 ELSE track[i].age
  <2>1. track[i] \in [call : Calls \cup {Nobody}, age : Nat]
    BY <1>1 DEF LimiterTypes
  <2>2. track'[i] = [track[i] EXCEPT !.age = Older(track[i].age, CallMin)]
    BY <1>2, <1>3
  <2>3. Older(track[i].age, CallMin) \in Nat
    BY <1>0, <2>1 DEF Older
  <2> QED
    BY <2>1, <2>2, <2>3 DEF Older
<1>7. LimiterTypes'
  <2>1. directed' \in [Sources -> Nat] /\ served' \in [Calls -> Nat]
    BY <1>2, <1>4, <1>5
  <2>2. track' \in [1 .. TrackMax -> [call : Calls \cup {Nobody}, age : Nat]]
    <3>1. track' = [i \in 1 .. TrackMax |-> track'[i]]
      BY <1>2, <1>3
    <3> QED
      BY <1>6, <3>1
  <2> QED
    BY <2>1, <2>2 DEF LimiterTypes
<1>8. ReceiversInv'
  BY <1>1, <1>2 DEF ReceiversInv
<1>9. ASSUME NEW c \in Calls, served'[c] < CallMin
      PROVE  ClosedFor(c)'
  <2>1. served[c] < CallMin /\ served'[c] = served[c] + 1
    BY <1>0, <1>5, <1>9
  <2>2. ClosedFor(c)
    BY <2>1 DEF LimiterInv
  <2>3. \A s \in Sources : directed[s] <= served[c] => directed'[s] <= served'[c]
    BY <1>0, <1>4, <1>5, <2>1
  <2>4. Remembered(c) => Remembered(c)'
    <3>1. \A i \in 1 .. TrackMax : track[i].age <= served[c] => track'[i].age <= served'[c]
      BY <1>0, <1>5, <1>6, <2>1
    <3> QED
      BY <1>6, <3>1 DEF Remembered
  <2> QED
    BY <2>2, <2>3, <2>4 DEF ClosedFor
<1> QED
  BY <1>1, <1>2, <1>7, <1>8, <1>9 DEF LimiterInv

\* A station passes the limiter: its side was open, so that nobody served a moment ago had
\* closed it, and it closes now.
LEMMA ClaimKeeps ==
  ASSUME LimiterInv, NEW source \in Sources, Claim(source)
  PROVE  LimiterInv'
<1>0. CallMin \in Nat /\ Ceiling \in Nat /\ CallMin <= Ceiling /\ TrackMax \in Nat
  BY QueryAssumption
<1>1. LimiterTypes /\ ReceiversInv /\ ~early
  BY DEF LimiterInv
<1> DEFINE call == rx[source].request.call
<1>2. rx[source].at = "claim" /\ call \in Calls /\ directed[source] >= Ceiling
  BY <1>1 DEF Claim, ReceiversInv
<1>3. rx[source] \in [at : {"claim", "queue"}, request : Requests]
  BY <1>1, <1>2 DEF ReceiversInv, Stops
<1>4. CASE rx' = [rx EXCEPT ![source] = Idle] /\ UNCHANGED <<directed, track, served, early>>
  <2>1. Idle \in Stops /\ Idle.at = "idle"
    BY DEF Idle, Stops
  <2>2. rx' \in [Sources -> Stops]
    BY <1>1, <1>4, <2>1 DEF ReceiversInv
  <2>3. \A s \in Sources : rx'[s] = IF s = source THEN Idle ELSE rx[s]
    BY <1>1, <1>4 DEF ReceiversInv
  <2> QED
    BY <1>4, <2>1, <2>2, <2>3, LimiterRests
<1>5. CASE /\ ~TooSoon(call)
           /\ \E slot \in SlotFor(call) :
                track' = [track EXCEPT ![slot] = [call |-> call, age |-> 0]]
           /\ directed' = [directed EXCEPT ![source] = 0]
           /\ rx' = [rx EXCEPT ![source].at = "queue"]
           /\ served' = [served EXCEPT ![call] = 0]
           /\ early' = (early \/ served[call] < CallMin)
  <2>0. DOMAIN track = 1 .. TrackMax
    BY <1>1 DEF LimiterTypes
  <2>1. PICK slot \in 1 .. TrackMax : track' = [track EXCEPT ![slot] = [call |-> call, age |-> 0]]
    BY <1>5, <2>0 DEF SlotFor, Oldest
  <2>2. \A s \in Sources : directed'[s] = IF s = source THEN 0 ELSE directed[s]
    BY <1>1, <1>5 DEF LimiterTypes
  <2>3. \A c \in Calls : served'[c] = IF c = call THEN 0 ELSE served[c]
    BY <1>1, <1>5 DEF LimiterTypes
  <2>4. \A i \in 1 .. TrackMax : track'[i] = IF i = slot THEN [call |-> call, age |-> 0] ELSE track[i]
    BY <1>1, <2>1 DEF LimiterTypes
  <2>5. LimiterTypes'
    <3>1. directed' \in [Sources -> Nat] /\ served' \in [Calls -> Nat]
      BY <1>1, <1>2, <1>5 DEF LimiterTypes
    <3>2. [call |-> call, age |-> 0] \in [call : Calls \cup {Nobody}, age : Nat]
      BY <1>2
    <3>3. track' \in [1 .. TrackMax -> [call : Calls \cup {Nobody}, age : Nat]]
      BY <1>1, <2>1, <3>2 DEF LimiterTypes
    <3> QED
      BY <3>1, <3>3 DEF LimiterTypes
  <2>6. ReceiversInv'
    <3> DEFINE new == [rx[source] EXCEPT !.at = "queue"]
    <3>1. new \in Stops /\ new.at = "queue"
      BY <1>3 DEF Stops
    <3>2. rx' = [rx EXCEPT ![source] = new]
      BY <1>5
    <3> HIDE DEF new
    <3>3. rx' \in [Sources -> Stops]
      BY <1>1, <3>1, <3>2 DEF ReceiversInv
    <3>4. \A s \in Sources : rx'[s] = IF s = source THEN new ELSE rx[s]
      BY <1>1, <3>2 DEF ReceiversInv
    <3>5. \A s \in Sources : rx'[s].at = "claim" => s # source /\ rx'[s] = rx[s]
      BY <3>1, <3>4
    <3>6. \A s \in Sources : rx'[s].at = "claim" =>
             rx'[s].request.call \in Calls /\ directed'[s] >= Ceiling
      BY <1>1, <2>2, <3>5 DEF ReceiversInv
    <3> QED
      BY <3>3, <3>6 DEF ReceiversInv
  \* Whoever was served a moment ago had closed another side.
  <2>7. ASSUME NEW c \in Calls, served[c] < CallMin
        PROVE  \E s \in Sources : s # source /\ directed[s] <= served[c]
    <3>1. PICK s \in Sources : directed[s] <= served[c]
      BY <2>7 DEF LimiterInv, ClosedFor
    <3>2. directed[s] \in Nat /\ served[c] \in Nat /\ directed[source] \in Nat
      BY <1>1 DEF LimiterTypes
    <3>3. s # source
      BY <1>0, <1>2, <2>7, <3>1, <3>2
    <3> QED
      BY <3>1, <3>3
  <2>8. served[call] >= CallMin
    <3> SUFFICES ASSUME ~(served[call] >= CallMin) PROVE FALSE
      OBVIOUS
    <3>1. served[call] < CallMin /\ served[call] \in Nat
      BY <1>0, <1>1, <1>2 DEF LimiterTypes
    <3>2. ClosedFor(call)
      BY <1>2, <3>1 DEF LimiterInv
    <3>3. ~Remembered(call)
      <4>1. \A i \in 1 .. TrackMax : track[i].age \in Nat
        BY <1>1 DEF LimiterTypes
      <4>2. \A i \in 1 .. TrackMax : track[i].call = call => ~(track[i].age < CallMin)
        BY <1>5, <2>0 DEF TooSoon
      <4> QED
        BY <1>0, <3>1, <4>1, <4>2 DEF Remembered
    <3>4. directed[source] <= served[call] /\ directed[source] \in Nat
      BY <1>1, <3>2, <3>3 DEF ClosedFor, LimiterTypes
    <3> QED
      BY <1>0, <1>2, <3>1, <3>4
  <2>9. early' = FALSE
    <3>1. served[call] \in Nat
      BY <1>1, <1>2 DEF LimiterTypes
    <3>2. ~(served[call] < CallMin)
      BY <1>0, <2>8, <3>1
    <3> QED
      BY <1>1, <1>5, <3>2, Zenon
  <2>10. ASSUME NEW c \in Calls, served'[c] < CallMin
         PROVE  ClosedFor(c)'
    <3>1. CASE c = call
      <4>1. served'[c] = 0 /\ directed'[source] = 0
        BY <2>2, <2>3, <3>1
      <4>2. track'[slot].call = c /\ track'[slot].age = 0
        BY <2>4, <3>1
      <4>3. \E s \in Sources : directed'[s] <= served'[c]
        BY <4>1
      <4>4. \E i \in 1 .. TrackMax : track'[i].call = c /\ track'[i].age <= served'[c]
        BY <4>1, <4>2
      <4> QED
        BY <4>3, <4>4 DEF ClosedFor, Remembered
    <3>2. CASE c # call
      <4>1. served'[c] = served[c] /\ served[c] < CallMin /\ served[c] \in Nat
        BY <1>1, <2>3, <2>10, <3>2 DEF LimiterTypes
      <4>2. PICK s \in Sources : s # source /\ directed[s] <= served[c]
        BY <2>7, <4>1
      <4>3. Sources = {s, source}
        BY <4>2, SourcesAre
      <4>4. directed'[s] <= served'[c] /\ directed'[source] <= served'[c]
        BY <2>2, <4>1, <4>2
      <4>5. \A u \in Sources : directed'[u] <= served'[c]
        BY <4>3, <4>4
      <4> QED
        BY <4>5 DEF ClosedFor
    <3> QED
      BY <3>1, <3>2
  <2> QED
    BY <2>5, <2>6, <2>9, <2>10 DEF LimiterInv
<1> QED
  BY <1>4, <1>5 DEF Claim

\* A task goes on with a request that has nothing to do with the directed limiter, or returns.
LEMMA LimiterAside ==
  ASSUME LimiterInv, NEW source \in Sources, NEW spot \in Stops, spot.at # "claim",
         rx' = [rx EXCEPT ![source] = spot], UNCHANGED <<directed, track, served, early>>
  PROVE  LimiterInv'
<1>1. rx \in [Sources -> Stops]
  BY DEF LimiterInv, ReceiversInv
<1>2. rx' \in [Sources -> Stops]
  BY <1>1
<1>3. \A s \in Sources : rx'[s] = IF s = source THEN spot ELSE rx[s]
  BY <1>1
<1> QED
  BY <1>2, <1>3, LimiterRests

LEMMA LimiterStep == LimiterInv /\ [Next]_vars => LimiterInv'
<1> SUFFICES ASSUME LimiterInv, [Next]_vars PROVE LimiterInv'
  OBVIOUS
<1>0. rx \in [Sources -> Stops] /\ LimiterTypes
  BY DEF LimiterInv, ReceiversInv
<1>a. ASSUME UNCHANGED <<directed, track, served, early, rx>> PROVE LimiterInv'
  BY <1>0, <1>a, LimiterRests
<1>b. Idle \in Stops /\ Idle.at = "idle" /\ [at |-> "wake"] \in Stops
  BY DEF Idle, Stops
<1>1. CASE Tick
  BY <1>1, TickKeeps
<1>2. CASE SaveSettings
  BY <1>2, <1>a DEF SaveSettings, limiters
<1>3. ASSUME NEW source \in Sources, NEW type \in Kinds \cap General, NEW inRange \in BOOLEAN,
             Broadcast(source, type, inRange)
      PROVE  LimiterInv'
  <2> DEFINE request == [type |-> type, source |-> source, call |-> Nobody]
             spot == [at |-> "queue", request |-> request]
  <2>1. request \in Requests
    BY DEF Requests
  <2>2. spot \in Stops /\ spot.at = "queue"
    BY <2>1 DEF Stops
  <2>3. UNCHANGED <<directed, track, served, early>>
    BY <1>3 DEF Broadcast
  <2>4. rx' = [rx EXCEPT ![source] = spot] \/ rx' = rx
    BY <1>3 DEF Broadcast, Carry
  <2> HIDE DEF spot
  <2> QED
    BY <1>a, <2>2, <2>3, <2>4, LimiterAside
<1>4. ASSUME NEW source \in Sources, NEW type \in Kinds \cap Directed, NEW call \in Calls,
             Ask(source, type, call)
      PROVE  LimiterInv'
  <2> DEFINE request == [type |-> type, source |-> source, call |-> call]
             spot == [at |-> "claim", request |-> request]
  <2>1. request \in Requests /\ request.call = call
    BY DEF Requests
  <2>2. spot \in Stops /\ spot.request.call = call
    BY <2>1 DEF Stops
  <2>3. UNCHANGED <<directed, track, served, early>> /\ directed[source] >= Ceiling
    BY <1>4 DEF Ask, limiters
  <2>4. rx' = [rx EXCEPT ![source] = spot]
    BY <1>4 DEF Ask, Carry
  <2> HIDE DEF spot
  <2>5. \A s \in Sources : rx'[s] = IF s = source THEN spot ELSE rx[s]
    BY <1>0, <2>4
  <2>6. ReceiversInv'
    <3>1. rx' \in [Sources -> Stops]
      BY <1>0, <2>2, <2>4
    <3>2. \A s \in Sources : rx'[s].at = "claim" =>
             rx'[s].request.call \in Calls /\ directed'[s] >= Ceiling
      BY <2>2, <2>3, <2>5 DEF LimiterInv, ReceiversInv
    <3> QED
      BY <3>1, <3>2 DEF ReceiversInv
  <2>7. LimiterTypes' /\ early' = early
    BY <1>0, <2>3 DEF LimiterTypes
  <2>8. \A c \in Calls : served'[c] < CallMin => ClosedFor(c)'
    BY <2>3 DEF LimiterInv, ClosedFor, Remembered
  <2> QED
    BY <2>6, <2>7, <2>8 DEF LimiterInv
<1>5. ASSUME NEW source \in Sources, Queue(source) PROVE LimiterInv'
  <2>1. UNCHANGED <<directed, track, served, early>>
    BY <1>5 DEF Queue, limiters
  <2>2. \/ rx' = [rx EXCEPT ![source] = [at |-> "wake"]]
        \/ rx' = [rx EXCEPT ![source] = Idle]
    BY <1>5 DEF Queue
  <2>3. [at |-> "wake"].at = "wake"
    OBVIOUS
  <2> QED
    BY <1>b, <2>1, <2>2, <2>3, LimiterAside
<1>6. ASSUME NEW source \in Sources, Wake(source) PROVE LimiterInv'
  <2>1. UNCHANGED <<directed, track, served, early>> /\ rx' = [rx EXCEPT ![source] = Idle]
    BY <1>6 DEF Wake, limiters
  <2> QED
    BY <1>b, <2>1, LimiterAside
<1>7. ASSUME NEW source \in Sources, Receive(source) PROVE LimiterInv'
  BY <1>3, <1>4, <1>5, <1>6, <1>7, ClaimKeeps DEF Receive
<1>8. CASE Pass
  BY <1>8, <1>a DEF Pass, Start, Take, Answer, Drained, Beacons, Objects, NextPass, limiters
<1>9. CASE UNCHANGED vars
  BY <1>9, <1>a DEF vars, limiters
<1> QED
  BY <1>1, <1>2, <1>7, <1>8, <1>9 DEF Next

\* A step of the scheduler's task: the queue it leaves behind is as well announced as before.
LEMMA PassStep == LimiterInv /\ PassInv /\ [Next]_vars => PassInv'
<1> SUFFICES ASSUME LimiterInv, PassInv, [Next]_vars PROVE PassInv'
  OBVIOUS
<1>0. rx \in [Sources -> Stops]
  BY DEF LimiterInv, ReceiversInv
<1>1. /\ phase \in {"beacons", "objects", "sleep"} => Told
      /\ phase = "sleep" /\ announce # {} => objects < 2
      /\ objects \in 0 .. 2
  BY DEF PassInv
<1>a. ASSUME UNCHANGED scheduler,
             phase \in {"beacons", "objects", "sleep"} => Told'
      PROVE  PassInv'
  BY <1>1, <1>a DEF PassInv, scheduler
<1>b. ASSUME UNCHANGED <<scheduler, pending, notified>>, NEW source \in Sources,
             rx[source].at # "wake", \A s \in Sources : s # source => rx'[s] = rx[s]
      PROVE  PassInv'
  <2>1. Told => Told'
    BY <1>b DEF Told, scheduler
  <2> QED
    BY <1>1, <1>a, <1>b, <2>1
<1>2. CASE Tick \/ SaveSettings \/ UNCHANGED vars
  <2>1. UNCHANGED <<scheduler, pending, notified, rx>>
    BY <1>2 DEF Tick, SaveSettings, vars
  <2> QED
    BY <1>1, <1>a, <2>1 DEF Told, scheduler
<1>3. ASSUME NEW source \in Sources, Receive(source) PROVE PassInv'
  <2>1. ASSUME NEW type \in Kinds \cap General, NEW inRange \in BOOLEAN,
               Broadcast(source, type, inRange)
        PROVE  PassInv'
    <3>1. rx[source] = Idle /\ UNCHANGED <<scheduler, pending, notified>>
      BY <2>1 DEF Broadcast
    <3>2. \A s \in Sources : s # source => rx'[s] = rx[s]
      BY <1>0, <2>1 DEF Broadcast, Carry
    <3> QED
      BY <1>b, <3>1, <3>2 DEF Idle
  <2>2. ASSUME NEW type \in Kinds \cap Directed, NEW call \in Calls, Ask(source, type, call)
        PROVE  PassInv'
    <3>1. rx[source] = Idle /\ UNCHANGED <<scheduler, pending, notified>>
      BY <2>2 DEF Ask
    <3>2. \A s \in Sources : s # source => rx'[s] = rx[s]
      BY <1>0, <2>2 DEF Ask, Carry
    <3> QED
      BY <1>b, <3>1, <3>2 DEF Idle
  <2>3. CASE Claim(source)
    <3>1. rx[source].at = "claim" /\ UNCHANGED <<scheduler, pending, notified>>
      BY <2>3 DEF Claim
    <3>2. \A s \in Sources : s # source => rx'[s] = rx[s]
      BY <1>0, <2>3 DEF Claim
    <3> QED
      BY <1>b, <3>1, <3>2
  <2>4. CASE Queue(source)
    <3>1. rx[source].at = "queue" /\ UNCHANGED <<scheduler, notified>>
      BY <2>4 DEF Queue
    <3>2. CASE pending' = pending /\ rx' = [rx EXCEPT ![source] = Idle]
      <4>1. \A s \in Sources : s # source => rx'[s] = rx[s]
        BY <1>0, <3>2
      <4> QED
        BY <1>b, <3>1, <3>2, <4>1
    <3>3. CASE rx' = [rx EXCEPT ![source] = [at |-> "wake"]]
      <4>1. rx'[source].at = "wake"
        BY <1>0, <3>3
      <4> QED
        BY <1>a, <3>1, <4>1 DEF Told
    <3> QED
      BY <2>4, <3>2, <3>3 DEF Queue
  <2>5. CASE Wake(source)
    <3>1. UNCHANGED scheduler /\ (phase # "unborn" => notified')
      BY <2>5 DEF Wake
    <3> QED
      BY <1>a, <3>1 DEF Told
  <2> QED
    BY <1>3, <2>1, <2>2, <2>3, <2>4, <2>5 DEF Receive
<1>4. CASE Start \/ Take \/ Answer \/ NextPass
  <2>1. phase' \in {"queries", "answer"} /\ objects' = objects
    BY <1>4 DEF Start, Take, Answer, NextPass
  <2> QED
    BY <1>1, <2>1 DEF PassInv
<1>5. CASE Drained
  <2>1. phase' = "beacons" /\ gaveUp' = (pending # <<>>) /\ pending' = pending /\ objects' = objects
    BY <1>5 DEF Drained
  <2>2. Told'
    BY <2>1 DEF Told
  <2> QED
    BY <1>1, <2>1, <2>2 DEF PassInv
<1>6. CASE Beacons
  <2>1. phase = "beacons" /\ phase' = "objects"
        /\ UNCHANGED <<pending, gaveUp, notified, rx, objects>>
    BY <1>6 DEF Beacons, StillNotified
  <2>2. Told'
    BY <1>1, <2>1 DEF Told
  <2> QED
    BY <1>1, <2>1, <2>2 DEF PassInv
<1>7. CASE Objects
  <2>1. phase = "objects" /\ phase' = "sleep" /\ UNCHANGED <<pending, gaveUp, notified, rx>>
        /\ objects' = (IF objects < 2 THEN objects + 1 ELSE 2)
        /\ announce' = (IF objects = 0 THEN announce ELSE {})
    BY <1>7 DEF Objects
  <2>2. Told'
    BY <1>1, <2>1 DEF Told
  <2>3. objects' \in 0 .. 2 /\ (announce' # {} => objects' < 2)
    BY <1>1, <2>1
  <2> QED
    BY <2>1, <2>2, <2>3 DEF PassInv
<1> QED
  BY <1>2, <1>3, <1>4, <1>5, <1>6, <1>7 DEF Next, Pass

\* Nothing that was asked is slept on, and no station is let past its limiter twice within
\* the limiter's interval: for any stations, switches, limits and queue, and a table of any
\* size, because whoever displaces a station's entry has closed the other side behind it
\* (query.c:283-347, query.c:510-511, beacon_scheduler.c:170-202).
THEOREM AnswersKept == QuerySpec => []AnswersSound
<1>1. QueryInv => AnswersSound
  BY DEF QueryInv, LimiterInv, PassInv, AnswersSound, NothingSleptOn, StationsSpaced, Told
<1>2. QueryInv /\ [Next]_vars => QueryInv'
  BY LimiterStep, PassStep DEF QueryInv
<1> QED
  BY QueryStart, <1>1, <1>2, PTL DEF QuerySpec
=============================================================================
