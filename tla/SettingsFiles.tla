--------------------------- MODULE SettingsFiles ---------------------------
(***************************************************************************)
(* g_config and the section files through page saves, failed writes, power *)
(* losses, uploads, formats and the boot that reads everything back:       *)
(* app_config_load(), app_config_save_sections() and main.c's two attempts.*)
(*                                                                         *)
(* Three sections stand for the thirteen: the station's own identity, the  *)
(* IGate that mirrors it and carries the RF gating, and BrandMeister, whose*)
(* worldwide monitor is allowed only behind the IGate's range gate.  A     *)
(* file is the set of what can be read from it: empty when it is missing,  *)
(* empty or corrupt.                                                       *)
(***************************************************************************)
EXTENDS Naturals, Sequences, FiniteSets

CONSTANTS
    Calls,     \* callsigns
    FactoryCall,    \* the factory's
    MaxPosts   \* bound on the operator's requests

ASSUME SettingsFilesAssumption == FactoryCall \in Calls /\ MaxPosts \in Nat

VARIABLES
    ram,        \* g_config
    disk,       \* per section, what its file holds
    stage,      \* "boot", "retry": a load is due; "save"; "up"
    purpose,    \* what the save is for: "page", "load", "reload", "format",
                \* "fallback"
    todo,       \* sections the running save still has to write
    allWritten, \* none of its writes has failed
    unread,     \* good files the last load found no memory for
    closed,     \* good files it could not even open, and took for missing
    stale,      \* sections whose last write failed, or whose file was replaced
    torn,       \* the identity and its mirror may be of different saves
    posts
save == <<stage, purpose, todo, allWritten>>
fileVars == <<ram, disk, save, unread, closed, stale, torn, posts>>

Order == <<"station", "igate", "brandmeister">>   \* SECTIONS
Names == {Order[i] : i \in 1..3}
Paired == {"station", "igate"}

Factory == [call |-> FactoryCall, igCall |-> FactoryCall, use |-> FALSE,
            inet2rf |-> FALSE, range |-> FALSE, monitor |-> FALSE]

(* What a section's writer puts in its file.                               *)
Content(name, config) ==
    CASE name = "station" -> [call |-> config.call]
      [] name = "igate"   -> [igCall |-> config.igCall, use |-> config.use,
                              inet2rf |-> config.inet2rf, range |-> config.range]
      [] OTHER            -> [monitor |-> config.monitor]

(* A section's reader: the file's fields over what is there.               *)
Over(config, name, readable) ==
    IF name \in readable
    THEN LET content == CHOOSE c \in disk[name] : TRUE
         IN  [f \in DOMAIN config |->
                 IF f \in DOMAIN content THEN content[f] ELSE config[f]]
    ELSE config

(* The monitor is refused while Internet traffic goes to RF with no range  *)
(* gate in between: by both pages and by the last section's reader.        *)
Blocked(config) == config.inet2rf /\ ~config.range
Interlocked(config) == [config EXCEPT !.monitor = @ /\ ~Blocked(config)]
(* Faulty variant: the reader takes what the file says.                    *)
ReadAsWritten(config) == config
ReadInterlocked(config) == Interlocked(config)

(* Defaults, then each section in order; one that cannot be read is left   *)
(* at its defaults.                                                        *)
Assembled(readable) ==
    LET gateway == Over(Over(Factory, "station", readable), "igate", readable)
    IN  ReadInterlocked(Over(gateway, "brandmeister", readable))

FileInit ==
    /\ ram = Factory
    /\ disk = [name \in Names |-> {}]
    /\ stage = "boot" /\ purpose = "load" /\ todo = {} /\ allWritten = TRUE
    /\ unread = {} /\ closed = {} /\ stale = {} /\ torn = FALSE
    /\ posts = 0

---------------------------------------------------------------------------
(* app_config_save_sections(): the sections asked for, in order, each      *)
(* attempted even after one has failed.                                    *)
StartSave(sections, for) ==
    stage' = "save" /\ purpose' = for /\ todo' = sections /\ allWritten' = TRUE

NextToSave ==
    LET i == CHOOSE i \in 1..3 : /\ Order[i] \in todo
                                 /\ \A j \in 1..(i - 1) : Order[j] \notin todo
    IN  Order[i]

(* A temporary file and a rename: the file is the old one or the new.      *)
SaveNext(written) ==
    /\ stage = "save" /\ todo # {}
    /\ disk' = IF written
               THEN [disk EXCEPT ![NextToSave] = {Content(NextToSave, ram)}]
               ELSE disk
    /\ todo' = todo \ {NextToSave}
    /\ allWritten' = (allWritten /\ written)
    /\ stale' = IF written THEN stale \ {NextToSave} ELSE stale \cup {NextToSave}
    /\ torn' = (torn \/ (~written /\ NextToSave \in Paired))
    /\ UNCHANGED <<ram, stage, purpose, unread, closed, posts>>

(* Who asked for the save goes on.  A load that could not write the files  *)
(* it found missing has failed like one that could not read: the first is  *)
(* tried again, after the second the factory values are made and written.  *)
SaveDone ==
    /\ stage = "save" /\ todo = {}
    /\ CASE purpose = "load" /\ ~allWritten ->
               stage' = "retry" /\ UNCHANGED <<ram, purpose, todo, allWritten>>
         [] purpose = "reload" /\ ~allWritten ->
               ram' = Factory /\ StartSave(Names, "fallback")
         [] OTHER ->
               stage' = "up" /\ UNCHANGED <<ram, purpose, todo, allWritten>>
    /\ UNCHANGED <<disk, unread, closed, stale, torn, posts>>

(* Faulty variant: a file there is no memory for is written anew.          *)
AllUnread(readable, noMemory) == Names \ readable
(* The sections whose files are written from the defaults.                 *)
ToRewrite(readable, noMemory) == (Names \ readable) \ noMemory

(* app_config_load() at boot, and once more when it failed.  noMemory: the *)
(* read or the parse found no memory; unopened: the file was not opened,   *)
(* whatever the reason, which counts as missing.                           *)
Load(noMemory, unopened) ==
    /\ stage \in {"boot", "retry"}
    /\ LET present  == {name \in Names : disk[name] # {}}
           readable == present \ (noMemory \cup unopened)
           rewrite  == ToRewrite(readable, noMemory)
       IN  /\ noMemory \subseteq present
           /\ unopened \subseteq present \ noMemory
           /\ unread' = noMemory /\ closed' = unopened
           /\ torn' = (torn \/ (rewrite \cap Paired) \notin {{}, Paired})
           /\ CASE readable \cup rewrite = Names ->
                      /\ ram' = Assembled(readable)
                      /\ StartSave(rewrite, IF stage = "boot" THEN "load"
                                            ELSE "reload")
                [] readable \cup rewrite # Names /\ stage = "boot" ->
                      /\ ram' = Assembled(readable)
                      /\ stage' = "retry"
                      /\ UNCHANGED <<purpose, todo, allWritten>>
                [] OTHER ->
                      ram' = Factory /\ StartSave(Names, "fallback")
    /\ stale' = {}
    /\ UNCHANGED <<disk, posts>>

---------------------------------------------------------------------------
Request(config, sections, for) ==
    /\ stage = "up" /\ posts < MaxPosts
    /\ posts' = posts + 1
    /\ ram' = config
    /\ StartSave(sections, for)

(* The identity goes into the sections that mirror it, and their files are *)
(* written with the station's own.                                         *)
Mirrored(call) ==
    [ram EXCEPT !.call = call, !.igCall = IF ram.use THEN call ELSE @]
(* Faulty variant: only the station's own file is written.                 *)
StationAlone == {"station"}
StationSections == Paired

PostStation(call) ==
    /\ Request(Mirrored(call), StationSections, "page")
    /\ torn' = FALSE
    /\ UNCHANGED <<disk, unread, closed, stale>>

PostIgate(use, call, inet2rf, range) ==
    /\ Request(Interlocked([ram EXCEPT !.use = use, !.inet2rf = inet2rf,
                                       !.range = range,
                                       !.igCall = IF use THEN ram.call ELSE call]),
               {"igate"}, "page")
    /\ UNCHANGED <<disk, unread, closed, stale, torn>>

PostBm(monitor) ==
    /\ Request(Interlocked([ram EXCEPT !.monitor = monitor]),
               {"brandmeister"}, "page")
    /\ UNCHANGED <<disk, unread, closed, stale, torn>>

FactoryReset ==
    /\ Request(Factory, Names, "page")
    /\ torn' = FALSE
    /\ UNCHANGED <<disk, unread, closed, stale>>

(* Erased, and loaded at once: nothing is found and the defaults are       *)
(* written.                                                                *)
Format ==
    /\ Request(Factory, Names, "format")
    /\ disk' = [name \in Names |-> {}]
    /\ torn' = FALSE
    /\ UNCHANGED <<unread, closed, stale>>

(* A file uploaded in place, whole or cut, or deleted; g_config learns of  *)
(* it at the next boot.                                                    *)
Replace(name, content) ==
    /\ stage = "up" /\ posts < MaxPosts
    /\ posts' = posts + 1
    /\ disk' = [disk EXCEPT ![name] = content]
    /\ stale' = stale \cup {name}
    /\ torn' = (torn \/ name \in Paired)
    /\ UNCHANGED <<ram, save, unread, closed>>

Crash ==
    /\ stage # "boot"
    /\ stage' = "boot" /\ purpose' = "load" /\ todo' = {} /\ allWritten' = TRUE
    /\ torn' = (torn \/ todo \cap Paired # {})
    /\ UNCHANGED <<ram, disk, unread, closed, stale, posts>>

(* What may be uploaded: a file of another time or of another station.     *)
Foreign(name) ==
    {{}} \cup
    CASE name = "station" -> {{[call |-> c]} : c \in Calls}
      [] name = "igate" -> {{[igCall |-> c, use |-> u, inet2rf |-> TRUE,
                              range |-> FALSE]} : c \in Calls, u \in BOOLEAN}
      [] OTHER -> {{[monitor |-> TRUE]}}

FileNext ==
    \/ \E noMemory, unopened \in SUBSET Names : Load(noMemory, unopened)
    \/ \E written \in BOOLEAN : SaveNext(written)
    \/ SaveDone
    \/ \E call \in Calls : PostStation(call)
    \/ \E use, inet2rf, range \in BOOLEAN, call \in Calls :
           PostIgate(use, call, inet2rf, range)
    \/ \E monitor \in BOOLEAN : PostBm(monitor)
    \/ FactoryReset
    \/ Format
    \/ \E name \in Names : \E content \in Foreign(name) : Replace(name, content)
    \/ Crash

FileSpec == FileInit /\ [][FileNext]_fileVars

---------------------------------------------------------------------------
(* While the station runs, the two rules between sections hold, whatever   *)
(* files it started from: no worldwide feed without a gate before the      *)
(* transmitter; and the mirror is the identity, unless a failure, a power  *)
(* loss or a replaced file has parted the two.                             *)
SettingsAgree ==
    stage = "up" => /\ ~(ram.monitor /\ Blocked(ram))
                    /\ ram.use /\ ~torn => ram.igCall = ram.call

(* While the station runs, every file holds what is live, except one whose *)
(* write has failed since it was loaded or that was replaced on the        *)
(* Storage page.  (BrandMeister's file may still hold a monitor that the   *)
(* IGate page has turned off.)                                             *)
FilesMatch ==
    stage = "up" =>
        \A name \in Names \ stale :
            \/ disk[name] = {Content(name, ram)}
            \/ name = "brandmeister" /\ disk[name] = {[monitor |-> TRUE]}

(* What runs, what the files hold and what the sections owe each other.    *)
FilesSound == SettingsAgree /\ FilesMatch

(* Booting writes over a good file only if it was not opened, or when the  *)
(* second load has failed as well.                                         *)
GoodFileKept ==
    [][\A name \in Names :
          /\ stage = "save" /\ purpose \in {"load", "reload"}
          /\ disk[name] # {} /\ disk'[name] # disk[name]
          => name \in closed]_fileVars

(* main.c, on the fallback: what the load reports is a read that could not *)
(* be completed.  Checked to be violated: a file that was read is replaced *)
(* by the factory's because another one, missing, could not be written.    *)
ReadFileKept ==
    [][\A name \in Names :
          /\ stage = "save" /\ purpose \in {"load", "reload", "fallback"}
          /\ disk[name] # {} /\ disk'[name] # disk[name]
          => unread \cup closed # {}]_fileVars

(* A reboot changes no setting whose file was written.  Checked to be      *)
(* violated: the IGate page turns the monitor off in g_config and leaves   *)
(* BrandMeister's file, so once the range gate is back on the next boot    *)
(* brings the monitor back.                                                *)
RebootKeepsSettings == stage = "up" /\ stale = {} => Assembled(Names) = ram
=============================================================================
