----------------------------- MODULE StoreFiles -----------------------------
(***************************************************************************)
(* A store kept as one JSON file and cached in RAM, as bulletins.json,     *)
(* objitems.json and telemetry.json are: bulletins.c, objects_items.c and  *)
(* telemetry.c over json_store.h and storage.c.  The beacon scheduler      *)
(* works from the set it loaded and writes it back whole when it retires   *)
(* an item; the web task edits the set, and uploads, deletes and formats   *)
(* the files behind the store's back; queries and the Telegram task read.  *)
(*                                                                         *)
(* A set is told by one of its items: the number of the operator's edit it *)
(* comes from, whether the item is enabled and alive, and the kill reports *)
(* it owes.  Heap and flash may fail at any point, and the power too.      *)
(***************************************************************************)
EXTENDS Naturals, FiniteSets

CONSTANTS
    KillRepeats,   \* OBJITEM_KILL_REPEATS
    MaxEdits,      \* bound: sets the operator saves or uploads
    MaxChanges,    \* bound: storage_generation
    MaxShortages   \* bound: reads that fail for want of memory

ASSUME StoreAssumption ==
    KillRepeats \in Nat \ {0} /\ {MaxEdits, MaxChanges, MaxShortages} \subseteq Nat

StoreKinds == {"bulletins", "objects", "telemetry"}
Tasks == {"scheduler", "web", "reader"}
None  == "none"

Item(edit, on, live, kill) ==
    [edit |-> edit, on |-> on, live |-> live, kill |-> kill]
Defaults == Item(0, FALSE, TRUE, 0)
File(state, set) == [state |-> state, set |-> set]
Left(state, edit) == [state |-> state, edit |-> edit]
Broken == {"empty", "bad"}

VARIABLES
    kind,       \* the store this behaviour follows
    file,       \* what is under its name in the flash
    generation, \* storage_generation()
    cache,      \* s_cache, _valid and _gen; retry: its deadline is set, due: past
    lock,       \* the task that holds the store's s_lock
    place, copy, missing,  \* where a task is, its set, and load_locked's out_missing
    changed,    \* the set the scheduler's pass works on differs from the file's
    edits, shortages, expired,  \* the bounded inputs; edits whose expiry is past
    \* what the operator left in the file, and whether a task that had begun
    \* before was still at work on it then (or the kill reports her set owes are
    \* those of an older edition such a task had brought back); reports sent
    left, overlap, told
storeVars == <<kind, file, generation, cache, lock, place, copy, missing, changed,
          edits, shortages, expired, left, overlap, told>>
fs    == <<file, generation>>
input == <<edits, shortages, expired>>
ghost == <<left, overlap, told>>

Empty == [valid |-> FALSE, set |-> Defaults, gen |-> 0, retry |-> FALSE,
          due |-> FALSE]

StoreInit ==
    /\ kind \in StoreKinds
    /\ file = File("missing", Defaults) /\ generation = 0
    /\ cache = Empty /\ lock = None
    /\ place = [task \in Tasks |-> "idle"]
    /\ copy = [task \in Tasks |-> Defaults]
    /\ missing = [task \in Tasks |-> FALSE]
    /\ changed = FALSE
    /\ edits = 0 /\ shortages = 0 /\ expired = {}
    /\ left = Left("missing", 0) /\ overlap = FALSE /\ told = 0

TaskAt(task, here) == place[task] = here
Go(task, there) == place' = [place EXCEPT ![task] = there]
TakeCopy(task, set) == copy' = [copy EXCEPT ![task] = set]
(* The task is done; what it held is forgotten.                            *)
LeaveTask(task) == Go(task, "idle") /\ TakeCopy(task, Defaults)

---------------------------------------------------------------------------
(* Faulty variant: a set read while memory was short is served for good.   *)
CacheHitForGood == cache.valid /\ cache.gen = generation
(* The cached set is served until a save drops it, the generation moves,   *)
(* or a read that failed for want of memory is due again.                  *)
CacheHit == cache.valid /\ cache.gen = generation /\ ~cache.due

(* A load is answered from the cache, or holds the lock while it reads.    *)
(* (What a reader does with a cached set changes nothing.)                 *)
Load(task) ==
    /\ TaskAt(task, "idle") /\ lock = None
    /\ task = "reader" => ~CacheHit
    /\ \/ CacheHit /\ TakeCopy(task, cache.set) /\ Go(task, "loaded") /\ UNCHANGED lock
       \/ ~CacheHit /\ lock' = task /\ Go(task, "read") /\ UNCHANGED copy
    /\ UNCHANGED <<kind, fs, cache, missing, changed, input, ghost>>

(* load_locked: a file that is not there asks for the defaults to be       *)
(* written, for the telemetry store an empty one too; a broken one is left *)
(* for the operator to see; a shortage says nothing about the file.        *)
ReadFile(task, short) ==
    /\ TaskAt(task, "read")
    /\ short => file.state # "missing" /\ shortages < MaxShortages
    /\ TakeCopy(task, IF file.state = "ok" /\ ~short THEN file.set ELSE Defaults)
    /\ missing' = [missing EXCEPT ![task] =
           \/ file.state = "missing"
           \/ file.state = "empty" /\ kind = "telemetry" /\ ~short]
    /\ cache' = [cache EXCEPT !.retry = short]
    /\ shortages' = IF short THEN shortages + 1 ELSE shortages
    /\ Go(task, "cache")
    /\ UNCHANGED <<kind, fs, lock, changed, edits, expired, ghost>>

(* The set is cached under the generation of now, and the lock released.   *)
Fill(task) ==
    /\ TaskAt(task, "cache")
    /\ cache' = [valid |-> TRUE, set |-> copy[task], gen |-> generation,
                 retry |-> cache.retry, due |-> FALSE]
    /\ lock' = None
    /\ Go(task, IF missing[task] THEN "create" ELSE "loaded")
    /\ UNCHANGED <<kind, fs, copy, missing, changed, input, ghost>>

(* The deadline of a read that failed passes.                              *)
RetryFallsDue ==
    /\ cache.retry /\ ~cache.due
    /\ cache' = [cache EXCEPT !.due = TRUE]
    /\ UNCHANGED <<kind, fs, lock, place, copy, missing, changed, input, ghost>>

---------------------------------------------------------------------------
(* A save: the lock, the write gate, the set streamed to a temporary file, *)
(* which is renamed over the file or, on any failure, removed.             *)
Open(task) ==
    /\ place[task] \in {"create", "save"} /\ lock = None
    /\ lock' = task
    /\ Go(task, IF TaskAt(task, "create") THEN "creating" ELSE "saving")
    /\ UNCHANGED <<kind, fs, cache, copy, missing, changed, input, ghost>>

(* Faulty variant: a save leaves the cache as it was.                      *)
DropNothing == cache
(* A save drops the cache, so that the next load reads what was written.   *)
Drop == Empty

(* A task other than this one is still at work on what it read before.     *)
Others(task) ==
    \E other \in Tasks \ {task} :
        place[other] \in {"cache", "create", "creating", "loaded", "save", "saving"}

(* The web task is not in the middle of a change made file by file.        *)
Settled == place["web"] \notin {"upload", "announce", "announceCut", "remove"}

(* Faulty variant: the set is written over the file itself.                *)
ResultsInPlace(task) ==
    {file, File("ok", copy[task]), File("bad", Defaults)}
(* What the rename leaves under the name.                                  *)
Results(task) == {file, File("ok", copy[task])}

Commit(task) ==
    /\ place[task] \in {"creating", "saving"}
    /\ \E outcome \in Results(task) :
          /\ file' = outcome
          /\ IF task = "web" /\ TaskAt(task, "saving") /\ outcome = File("ok", copy[task])
                /\ outcome.set.edit # left.edit
             THEN /\ left' = Left("ok", copy[task].edit)
                  /\ overlap' = (Others(task) \/ (overlap /\ ~copy[task].live))
                  /\ told' = IF copy[task].live THEN 0 ELSE told
             ELSE /\ overlap' = (overlap \/ ~Settled)
                  /\ UNCHANGED <<left, told>>
    /\ cache' = Drop /\ lock' = None
    /\ missing' = [missing EXCEPT ![task] = FALSE]
    /\ IF task = "scheduler" THEN changed' = FALSE ELSE UNCHANGED changed
    /\ IF TaskAt(task, "creating") THEN Go(task, "loaded") /\ UNCHANGED copy
       ELSE LeaveTask(task)
    /\ UNCHANGED <<kind, generation, input>>

---------------------------------------------------------------------------
(* bulletins_apply_expiry: at each pass and each showing of the page.      *)
Expires(set) == kind = "bulletins" /\ set.on /\ set.edit \in expired

Expire(task) ==
    /\ task # "reader" /\ TaskAt(task, "loaded") /\ Expires(copy[task])
    /\ TakeCopy(task, [copy[task] EXCEPT !.on = FALSE])
    /\ Go(task, "save")
    /\ UNCHANGED <<kind, fs, cache, lock, missing, changed, input, ghost>>

(* Faulty variant: a report on each of the two channels counts.            *)
KillsAfterBoth(set) == IF set.kill > 2 THEN set.kill - 2 ELSE 0
(* The reports an element owes after one more: the first arms the count.   *)
KillsAfter(set) == (IF set.kill = 0 THEN KillRepeats ELSE set.kill) - 1

(* objitems_service: an element that is no longer active, or owes kill     *)
(* reports, is reported as gone, and disabled with the last report.        *)
Kill ==
    LET set == copy["scheduler"] IN
    /\ kind = "objects" /\ TaskAt("scheduler", "loaded") /\ ~changed
    /\ set.on /\ (~set.live \/ set.kill > 0)
    /\ TakeCopy("scheduler", Item(set.edit, KillsAfter(set) > 0, set.live,
                              KillsAfter(set)))
    /\ changed' = TRUE
    /\ told' = IF told < KillRepeats THEN told + 1 ELSE told
    /\ UNCHANGED <<kind, fs, cache, lock, place, missing, input, left, overlap>>

(* The pass, the page or the query is over; a changed set is written.      *)
Finish(task) ==
    /\ TaskAt(task, "loaded")
    /\ task # "reader" => ~Expires(copy[task])
    /\ IF task = "scheduler" /\ changed THEN Go(task, "save") /\ UNCHANGED copy
       ELSE LeaveTask(task)
    /\ UNCHANGED <<kind, fs, cache, lock, missing, changed, input, ghost>>

(* The operator posts the form: an item that was alive and no longer is    *)
(* owes its kill reports, one that is alive owes none.                     *)
Edit(live) ==
    LET was == copy["web"] IN
    /\ TaskAt("web", "loaded") /\ edits < MaxEdits
    /\ live \/ kind = "objects"
    /\ edits' = edits + 1
    /\ TakeCopy("web", Item(edits', TRUE, live,
                        IF live THEN 0 ELSE IF was.live THEN KillRepeats ELSE was.kill))
    /\ Go("web", "save")
    /\ UNCHANGED <<kind, fs, cache, lock, missing, changed, shortages, expired, ghost>>

ExpiryPasses ==
    /\ kind = "bulletins" /\ edits > 0
    /\ expired' = expired \cup {edits}
    /\ expired' # expired
    /\ UNCHANGED <<kind, fs, cache, lock, place, copy, missing, changed, edits,
                   shortages, ghost>>

---------------------------------------------------------------------------
(* The Storage page.  An upload writes the file in place, without the gate *)
(* or the store's lock, and announces the change when it is closed.  (What *)
(* it writes last is what stays, should a save rename a file over it.)     *)
UploadOpen ==
    /\ TaskAt("web", "idle") /\ edits < MaxEdits /\ generation < MaxChanges
    /\ file' = File("empty", Defaults) /\ left' = Left("empty", 0)
    /\ overlap' = Others("web")
    /\ Go("web", "upload")
    /\ UNCHANGED <<kind, generation, cache, lock, copy, missing, changed, input, told>>

UploadWrite ==
    /\ TaskAt("web", "upload") /\ left.state = "empty"
    /\ file' = File("bad", Defaults) /\ left' = Left("bad", 0)
    /\ overlap' = (overlap \/ Others("web"))
    /\ UNCHANGED <<kind, generation, cache, lock, place, copy, missing, changed,
                   input, told>>

(* The file is closed, whole or not.                                       *)
UploadClose(whole) ==
    /\ TaskAt("web", "upload")
    /\ IF whole
       THEN /\ edits' = edits + 1
            /\ file' = File("ok", Item(edits', TRUE, TRUE, 0))
            /\ left' = Left("ok", edits') /\ told' = 0
            /\ Go("web", "announce")
       ELSE /\ UNCHANGED <<edits, file, left, told>>
            /\ Go("web", "announceCut")
    /\ overlap' = (overlap \/ Others("web"))
    /\ UNCHANGED <<kind, generation, cache, lock, copy, missing, changed,
                   shortages, expired>>

(* Faulty variant: a delete is not announced.                              *)
AnnouncedNot == generation
Announced == generation + 1

(* storage_note_external_change; an upload that failed is then removed.    *)
Announce ==
    /\ place["web"] \in {"announce", "announceCut"}
    /\ generation' = Announced
    /\ overlap' = (overlap \/ Others("web"))
    /\ Go("web", IF TaskAt("web", "announce") THEN "idle" ELSE "remove")
    /\ UNCHANGED <<kind, file, cache, lock, copy, missing, changed, input, left, told>>

RemoveCut ==
    /\ TaskAt("web", "remove")
    /\ file' = File("missing", Defaults) /\ left' = Left("missing", 0)
    /\ overlap' = (overlap \/ Others("web"))
    /\ Go("web", "idle")
    /\ UNCHANGED <<kind, generation, cache, lock, copy, missing, changed, input, told>>

(* storage_delete: removed, then announced.                                *)
Delete ==
    /\ TaskAt("web", "idle") /\ file.state # "missing" /\ generation < MaxChanges
    /\ file' = File("missing", Defaults) /\ left' = Left("missing", 0)
    /\ overlap' = Others("web")
    /\ Go("web", "announce")
    /\ UNCHANGED <<kind, generation, cache, lock, copy, missing, changed, input, told>>

(* storage_format waits for the gate: no save is half-way through.         *)
Format ==
    /\ TaskAt("web", "idle") /\ generation < MaxChanges
    /\ \A task \in Tasks : place[task] \notin {"creating", "saving"}
    /\ file' = File("missing", Defaults) /\ left' = Left("missing", 0)
    /\ generation' = generation + 1
    /\ overlap' = Others("web")
    /\ UNCHANGED <<kind, cache, lock, place, copy, missing, changed, input, told>>

(* Power is lost.  (generation may start from 0 again: no cache is left to *)
(* compare with it.)                                                       *)
Crash ==
    /\ cache' = Empty /\ lock' = None
    /\ place' = [task \in Tasks |-> "idle"]
    /\ copy' = [task \in Tasks |-> Defaults]
    /\ missing' = [task \in Tasks |-> FALSE]
    /\ changed' = FALSE
    /\ UNCHANGED <<kind, fs, input, ghost>>

Work(task) ==
    \/ Load(task)
    \/ \E short \in BOOLEAN : ReadFile(task, short)
    \/ Fill(task)
    \/ Open(task)
    \/ Commit(task)
    \/ Expire(task)
    \/ Finish(task)

Operate ==
    \/ \E live \in BOOLEAN : Edit(live)
    \/ UploadOpen
    \/ UploadWrite
    \/ \E whole \in BOOLEAN : UploadClose(whole)
    \/ Announce
    \/ RemoveCut
    \/ Delete
    \/ Format

StoreNext ==
    \/ \E task \in Tasks : Work(task)
    \/ Kill
    \/ RetryFallsDue
    \/ ExpiryPasses
    \/ Operate
    \/ Crash

(* The scheduler calls its services for ever, a task that holds the lock   *)
(* goes on, and the clock runs.                                            *)
StoreFairness ==
    /\ \A task \in Tasks :
          WF_storeVars(\/ \E short \in BOOLEAN : ReadFile(task, short)
                  \/ Fill(task) \/ Commit(task))
    /\ SF_storeVars(Load("scheduler"))
    /\ WF_storeVars(Finish("scheduler"))
    /\ WF_storeVars(Expire("scheduler"))
    /\ SF_storeVars(Open("scheduler"))
    /\ WF_storeVars(RetryFallsDue)

StoreSpec == StoreInit /\ [][StoreNext]_storeVars /\ StoreFairness

---------------------------------------------------------------------------
TypeOK ==
    LET sets == [edit : 0 .. MaxEdits, on : BOOLEAN, live : BOOLEAN,
                 kill : 0 .. KillRepeats]
        files == [state : {"missing", "ok"} \cup Broken, set : sets]
    IN
    /\ kind \in StoreKinds /\ file \in files
    /\ left \in [state : {"missing", "ok"} \cup Broken, edit : 0 .. MaxEdits]
    /\ generation \in 0 .. MaxChanges
    /\ cache \in [valid : BOOLEAN, set : sets, gen : 0 .. MaxChanges,
                  retry : BOOLEAN, due : BOOLEAN]
    /\ lock \in Tasks \cup {None}
    /\ copy \in [Tasks -> sets] /\ missing \in [Tasks -> BOOLEAN]
    /\ changed \in BOOLEAN /\ overlap \in BOOLEAN
    /\ edits \in 0 .. MaxEdits /\ shortages \in 0 .. MaxShortages
    /\ expired \subseteq 1 .. MaxEdits /\ told \in 0 .. KillRepeats

(* What the operator left under the name stays there, through retirements, *)
(* retries, failed saves and power losses: her last edit or upload in the  *)
(* set, or the broken file as it was.  Only where there is no file (for    *)
(* the telemetry store, where it is empty) the defaults appear.  That      *)
(* holds when nobody was at work on an older copy when she left it: a pass *)
(* that was brings the older edition back.                                 *)
OperatorsFileKept ==
    (Settled /\ ~overlap) =>
        CASE left.state = "ok" ->
               file.state = "ok" /\ file.set.edit = left.edit
          [] left.state = "missing" \/ (left.state = "empty" /\ kind = "telemetry") ->
               \/ file.state = left.state
               \/ file = File("ok", Defaults)
          [] OTHER -> file.state = left.state

(* A cached set that will be served is what the file says, or the defaults *)
(* that stand for a file that says nothing: whatever changed the file      *)
(* dropped the cache, from inside the store or behind its back.            *)
CacheCurrent ==
    (Settled /\ ~overlap /\ lock = None /\ CacheHit /\ ~cache.retry) =>
        cache.set = IF file.state = "ok" THEN file.set ELSE Defaults

(* A save is whole or did not happen, wherever the power fails: a broken   *)
(* file is an upload's.                                                    *)
OnlyUploadsBreakFiles == file.state \in Broken => left.state \in Broken

(* An element leaves the map for good only after every receiver had its    *)
(* KillRepeats chances to hear that it is gone.                            *)
RetiredAfterReports ==
    (~overlap /\ file.state = "ok" /\ kind = "objects" /\ file.set.edit > 0
     /\ ~file.set.on)
    => told = KillRepeats

(* The file, its cached set and the operator's last word about them.       *)
StoreSound ==
    TypeOK /\ OperatorsFileKept /\ CacheCurrent /\ OnlyUploadsBreakFiles /\ RetiredAfterReports

(* A shortage of memory does not silence a store for good: as long as the  *)
(* station stays up, a set that could not be read is read again.           *)
ShortageEnds == cache.retry ~> ~cache.retry
=============================================================================
