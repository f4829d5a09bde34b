----------------------------- MODULE RxDispatch -----------------------------
(***************************************************************************)
(* The duplicate-suppression cache of igate.c: a ring of the last frames   *)
(* let through, shared by the IGate and the digipeater, each entry with    *)
(* the scope that inserted it and its time.  The Settings page changes its *)
(* depth, its window and its switch while it is in use; every call reads   *)
(* them afresh.  packetHash() of a frame is the frame's name: source,      *)
(* SSID, length and two CRCs of the information field, never the path.     *)
(***************************************************************************)
EXTENDS Naturals, FiniteSets

CONSTANTS Capacity, \* DUP_CACHE_SIZE_MAX
          MinSize,  \* DUP_CACHE_SIZE_MIN
          Windows,  \* the settings of dup_cache_timeout_ms
          Frames,   \* frames, as source and information field identify them
          MaxClock   \* bound on the clock

ASSUME CapacityAssumption == Capacity \in Nat /\ MinSize \in 1 .. Capacity
ASSUME WindowAssumption == Windows \subseteq Nat \ {0} /\ MaxClock \in Nat \ {0}

Scopes == {"igate", "digi"} \* dup_scope_t

VARIABLES cache,    \* s_dupCache: timestamp 0 marks a free entry
          cacheIndex,    \* s_dupCacheIndex
          size,     \* g_config.dup_cache_size, clamped
          window,   \* g_config.dup_cache_timeout_ms, clamped
          enabled,  \* g_config.dup_cache_en
          clock
cacheVars == <<cache, cacheIndex, size, window, enabled, clock>>

Blank == [frame |-> CHOOSE f \in Frames : TRUE, scope |-> "igate", timestamp |-> 0]

CacheInit ==
  /\ cache = [i \in 0 .. Capacity - 1 |-> Blank] /\ cacheIndex = 0
  /\ size \in MinSize .. Capacity /\ window \in Windows /\ enabled \in BOOLEAN
  /\ clock = 1

\* clearExpiredDuplicates(), for one entry; without a time stamp the rest of
\* an entry counts for nothing
Expired(e) == IF e.timestamp > 0 /\ clock - e.timestamp > window
              THEN Blank ELSE e

\* Faulty variant: either consumer's entry matches.
MatchesAnyScope(e, f, scope) == e.timestamp > 0 /\ e.frame = f
Matches(e, f, scope) == e.timestamp > 0 /\ e.scope = scope /\ e.frame = f

\* The lookup of isDuplicatePacketScoped()
Found(f, scope) == \E i \in 0 .. size - 1 : Matches(cache[i], f, scope)

\* Faulty variant: the index is used as it is found.
InsertIndexAny == cacheIndex
\* The clamp of the insertion index: the cache may have shrunk since.
InsertIndex == IF cacheIndex >= size THEN 0 ELSE cacheIndex

NextIndex(i) == (i + 1) % size

\* clearExpiredDuplicates()
ClearExpired ==
  /\ cache' = [i \in DOMAIN cache |-> IF i < size THEN Expired(cache[i]) ELSE cache[i]]
  /\ UNCHANGED <<cacheIndex, size, window, enabled, clock>>

\* The end of isDuplicatePacketScoped(): a frame not found is inserted.
Insert(f, scope) ==
  /\ cache' = [cache EXCEPT ![InsertIndex] = [frame |-> f, scope |-> scope, timestamp |-> clock]]
  /\ cacheIndex' = NextIndex(InsertIndex)
  /\ UNCHANGED <<size, window, enabled, clock>>

\* The IGate page is saved.
SaveSettings ==
  /\ size' \in MinSize .. Capacity /\ window' \in Windows /\ enabled' \in BOOLEAN
  /\ <<size, window, enabled>>' # <<size, window, enabled>>
  /\ UNCHANGED <<cache, cacheIndex, clock>>

CacheTypeOK ==
  /\ cache \in [0 .. Capacity - 1 -> [frame : Frames, scope : Scopes, timestamp : 0 .. MaxClock]]
  /\ cacheIndex \in 0 .. Capacity - 1 /\ size \in MinSize .. Capacity
  /\ window \in Windows /\ enabled \in BOOLEAN /\ clock \in 1 .. MaxClock

-----------------------------------------------------------------------------
(***************************************************************************)
(* The dispatch of a received frame, aprs_msg_callback(): first the        *)
(* digipeater, then the IGate, each behind its own scope of the duplicate  *)
(* cache.  Copies of a frame arrive by several routes; a copy says what    *)
(* the path rules and the filters make of it (DigiPath has the rules):     *)
(*   digi     what digiProcess() returns behind the duplicate test: 0 not  *)
(*            to be repeated, 1 the next address is the station's own      *)
(*            callsign, 2 the path is rewritten                            *)
(*   gateable whether igateProcess() would gate it behind its own          *)
(* The receive task is the cache's only user; the Settings page is saved   *)
(* by another task, and so between any two reads of a call.                *)
(***************************************************************************)
CONSTANTS Copies,     \* the copies that arrive: records [frame, digi, gateable]
          DigiOn,     \* g_config.digi_en
          IgateOn,    \* g_config.igate_en and g_config.rf2inet
          Refusals,   \* a transmission or a line for the server may be refused
          SaveInside  \* bound: the page may be saved in the middle of a dispatch

ASSUME CopyAssumption ==
  /\ Copies \subseteq [frame : Frames, digi : 0 .. 2, gateable : BOOLEAN]
  /\ Copies # {} /\ DigiOn \in BOOLEAN /\ IgateOn \in BOOLEAN /\ Refusals \in BOOLEAN

VARIABLES
  copy, stage, \* the copy in hand; the consumer it is with, or "idle"
  looking,     \* whether the expired entries have been cleared for it
  rewritten,   \* whether digiProcess() changed the path of the copy
  verdict,     \* what the last consumer made of it: "duplicate", "dropped", "sent"
  passed,      \* history: by scope and frame, when a copy was last let through,
               \* how many entries were inserted since, and the depth and window
               \* then (room 0: the entry is not protected any more)
  repeated,    \* history: the frames the digipeater has put on the air
  echoed       \* history: a scope let a copy through that it should have known
handVars == <<copy, stage, looking, rewritten, verdict>>
rxVars == <<cacheVars, handVars, passed, repeated, echoed>>

Unprotected(at) == [at |-> at, since |-> 0, room |-> 0, span |-> 0]
AnyCopy == CHOOSE c \in Copies : TRUE

RxInit ==
  /\ CacheInit
  /\ copy = AnyCopy /\ stage = "idle" /\ looking = FALSE /\ rewritten = FALSE
  /\ verdict = "dropped"
  /\ passed = [s \in Scopes |-> [f \in Frames |-> Unprotected(0)]]
  /\ repeated = {} /\ echoed = FALSE

-----------------------------------------------------------------------------
(* aprs_msg_callback() *)

\* A frame is decoded and handed to the dispatch.
Hear(c) ==
  /\ stage = "idle" /\ (DigiOn \/ IgateOn)
  /\ copy' = c /\ stage' = IF DigiOn THEN "digi" ELSE "igate"
  /\ UNCHANGED <<looking, rewritten, verdict, cacheVars, passed, repeated, echoed>>

\* The first half of the duplicate test
BeginTest ==
  /\ stage # "idle" /\ ~looking /\ enabled
  /\ looking' = TRUE /\ ClearExpired
  /\ UNCHANGED <<copy, stage, rewritten, verdict, passed, repeated, echoed>>

\* One more entry was inserted behind this one.
Aged(p) == IF p.since + 1 >= p.room THEN Unprotected(p.at) ELSE [p EXCEPT !.since = @ + 1]

\* The copy is let through: the history of it and of the entries it displaces.
Note(inserted) ==
  LET p == passed[stage][copy.frame]
      new == IF inserted /\ enabled
               THEN [at |-> clock, since |-> 0, room |-> size, span |-> window]
               ELSE Unprotected(clock)
  IN /\ echoed' = (echoed \/ (p.room > 0 /\ clock - p.at <= p.span))
     /\ passed' = [s \in Scopes |-> [f \in Frames |->
          IF s = stage /\ f = copy.frame THEN new
          ELSE IF inserted THEN Aged(passed[s][f]) ELSE passed[s][f]]]

Pass ==
  \/ /\ looking /\ ~Found(copy.frame, stage) /\ Insert(copy.frame, stage) /\ Note(TRUE)
  \/ /\ ~looking /\ ~enabled /\ UNCHANGED cacheVars /\ Note(FALSE)

Duplicate ==
  /\ looking /\ Found(copy.frame, stage)
  /\ verdict' = "duplicate" /\ UNCHANGED <<cacheVars, passed, repeated, echoed>>

NextStage == IF stage = "digi" /\ IgateOn THEN "igate" ELSE "idle"

\* The next consumer gets the frame, or the dispatch is over.
Proceed ==
  /\ stage' = NextStage /\ looking' = FALSE
  /\ copy' = IF stage' = "idle" THEN AnyCopy ELSE copy

Outcomes(wanted) ==
  IF ~wanted THEN {"dropped"} ELSE IF Refusals THEN {"dropped", "sent"} ELSE {"sent"}

\* digiProcess(): the path rules, which also mark a path they do not rewrite,
\* and the transmission of a rewritten frame
DigiPass ==
  /\ stage = "digi" /\ Pass /\ Proceed
  /\ rewritten' = (IgateOn /\ copy.digi # 0)
  /\ verdict' \in Outcomes(copy.digi = 2)
  /\ repeated' = IF verdict' = "sent" THEN repeated \cup {copy.frame} ELSE repeated

DigiDuplicate == stage = "digi" /\ Duplicate /\ Proceed /\ UNCHANGED rewritten

\* igateProcess(): the filters, the header from the path as it now is, the send
GatePass ==
  /\ stage = "igate" /\ Pass /\ Proceed
  /\ rewritten' = FALSE
  /\ verdict' \in Outcomes(copy.gateable)
  /\ UNCHANGED repeated

GateDuplicate == stage = "igate" /\ Duplicate /\ Proceed /\ rewritten' = FALSE

-----------------------------------------------------------------------------
(* The settings and the clock *)

\* A smaller cache, a shorter window or the switch may lose what was known.
Save ==
  /\ SaveInside \/ stage = "idle"
  /\ SaveSettings
  /\ passed' = IF size' < size \/ window' < window \/ ~enabled'
               THEN [s \in Scopes |-> [f \in Frames |-> Unprotected(passed[s][f].at)]]
               ELSE passed
  /\ UNCHANGED <<handVars, repeated, echoed>>

RxTick ==
  /\ stage = "idle" /\ clock < MaxClock /\ clock' = clock + 1
  /\ UNCHANGED <<cache, cacheIndex, size, window, enabled, handVars, passed, repeated, echoed>>

RxNext ==
  \/ \E c \in Copies : Hear(c)
  \/ BeginTest \/ DigiPass \/ DigiDuplicate \/ GatePass \/ GateDuplicate
  \/ Save \/ RxTick

RxSpec == RxInit /\ [][RxNext]_rxVars

-----------------------------------------------------------------------------
(* Properties *)

\* The ring's index stays in the array, and a time stamp is never ahead of the
\* clock (s_dupCache, s_dupCacheIndex).
DispatchTypeOK ==
  /\ CacheTypeOK /\ \A i \in DOMAIN cache : cache[i].timestamp <= clock
  /\ stage \in Scopes \cup {"idle"} /\ verdict \in {"duplicate", "dropped", "sent"}
  /\ copy \in Copies /\ looking \in BOOLEAN /\ rewritten \in BOOLEAN
  /\ repeated \subseteq Frames

\* "so the next copy of the same frame reaching the same scope is reported as
\* a duplicate" (igate.h), for the window, whatever was saved on the page
\* before and whichever consumer inserted what: only as many other entries as
\* the cache is deep push it out, or a change of the settings.
NoEcho == ~echoed

\* The ring stays a ring under every change of its depth, and remembers.
CacheSound == DispatchTypeOK /\ NoEcho

\* A consumer has just decided on the copy in hand.
Decides(scope) == stage = scope /\ stage' # scope

\* A consumer takes a copy for a duplicate only if it let one through itself
\* inside the window ("among the entries inserted by the same scope inside the
\* last g_config.dup_cache_timeout_ms").
DuplicateWasSeen ==
  [][\A s \in Scopes : Decides(s) /\ verdict' = "duplicate" =>
       LET at == passed[s][copy.frame].at IN at > 0 /\ clock - at <= window]_rxVars

\* "a frame repeated inside the duplicate-suppression window": what the
\* digipeater drops as a duplicate, it has put on the air before.
DuplicateWasRepeated ==
  [][Decides("digi") /\ verdict' = "duplicate" => copy.frame \in repeated]_rxVars

\* "repeat as-is": a frame whose next address is this station's callsign is
\* put on the air.
OwnTurnRepeated ==
  [][Decides("digi") /\ verdict' # "duplicate" /\ copy.digi = 1 => verdict' = "sent"]_rxVars

\* "no other part of the path is touched": a frame is gated with the path it
\* was heard with.
GatedAsHeard == [][Decides("igate") /\ verdict' = "sent" => ~rewritten]_rxVars
=============================================================================
