--------------------------- MODULE MissionTransfer ---------------------------
(***************************************************************************)
(* The mission protocol: MavlinkMissionManager, one instance per MAVLink   *)
(* link, each in the receiver thread of its link, over the dataman store.  *)
(*                                                                         *)
(* Missions are kept in two stores, one of them active; an upload goes to  *)
(* the other one and becomes active with one write of MISSION_STATE.       *)
(* Fence and rally points are overwritten in place, the fence under a lock *)
(* that the navigator only tries to take.  The instances share static      *)
(* members without a lock, so a handler is split where it waits for the    *)
(* dataman and between its test and its set of _transfer_in_progress.      *)
(*                                                                         *)
(* A ground station may send the messages of its current upload at any     *)
(* time, again, or never: loss, repetition and retries need no actions of  *)
(* their own.  Messages that are refused change nothing and are left out.  *)
(* An item is represented by the upload it belongs to; the sequence number *)
(* of the current item is left out.                                        *)
(***************************************************************************)
EXTENDS Naturals, FiniteSets

CONSTANTS Link,        \* the MAVLink instances
          Types,       \* the kinds of lists: "mission", "fence", "rally"
          Counts,      \* the lengths ground stations may announce
          MaxCount,    \* MAX_COUNT
          MaxUploads,  \* bound: uploads begun by ground stations
          MaxUpdates,  \* bound: updates of the stats of fence or rally points
          Plans,       \* bound: what the links are used for
          None

ASSUME MissionConstants ==
  /\ None \notin Link /\ IsFiniteSet(Link)
  /\ "mission" \in Types /\ "fence" \in Types
  /\ Types \subseteq {"mission", "fence", "rally"}
  /\ Plans \subseteq [Link -> SUBSET ((Types \cup {"all"}) \X {"upload", "empty", "excess", "download", "edit"})]
  /\ Counts \subseteq Nat /\ MaxCount \in Nat \ {0}
  /\ MaxUploads \in Nat /\ MaxUpdates \in Nat

VARIABLES
  \* the ground stations: what they do with which lists, the number of uploads
  \* begun, the upload each one is busy with and the one it last sent an item of
  plan, uploads, up, last,
  \* static members: the active store, the counts, the flag, the update counters
  dataman_id, count, transfer_in_progress, update_counter,
  \* members of each instance, and where its thread is
  state, mission_type, transfer_seq, transfer_count, transfer_dataman_id, pc, call,
  \* the dataman file
  items, mission_state, points, stats,
  \* the holder of the fence lock; what the navigator loaded
  fence_lock, nav,
  \* history: uploads a ground station was told are accepted, uploads stored,
  \* links that gave up their last upload, the fence was given up halfway,
  \* irregularities so far
  accepted, stored, quit, torn, slip

gcs == <<plan, uploads, up, last>>
statics == <<dataman_id, count, transfer_in_progress, update_counter>>
transfer == <<state, mission_type, transfer_seq, transfer_count, transfer_dataman_id>>
thread == <<pc, call>>
file == <<items, mission_state, points, stats>>
told == <<accepted, stored, quit>>
history == <<told, torn, slip>>
vars == <<gcs, statics, transfer, thread, file, fence_lock, nav, history>>

PointTypes == Types \ {"mission"}
Stores == {0, 1}
Cells == 0..MaxCount - 1
Other(id) == 1 - id

Upload == [no : 0..MaxUploads, type : Types, count : Counts \cup {MaxCount}]
ASSUME NoneIsNoUpload == None \notin Upload

Factory(t) == [no |-> 0, type |-> t, count |-> MaxCount]

\* What a thread in an update of the mission state or of the stats is writing,
\* and what it does after it.
Call == [key : Types, id : Stores \cup (0..MaxUpdates), count : 0..MaxCount,
         of : Upload \cup {None}, then : {"count", "item", "few", "clear", "all", "current"}]
Read == [num : 0..MaxCount, counter : 0..MaxUpdates]
Slips == {"raced", "released", "update", "restart", "unread", "load", "ignored", "duplicate"}

TypeOK ==
  /\ plan \in Plans /\ uploads \in 0..MaxUploads
  /\ up \in [Link -> Upload \cup {None}] /\ last \in [Link -> Upload \cup {None}]
  /\ dataman_id \in Stores /\ count \in [Types -> 0..MaxCount]
  /\ transfer_in_progress \in BOOLEAN /\ update_counter \in [PointTypes -> 0..MaxUpdates]
  /\ state \in [Link -> {"IDLE", "SENDLIST", "GETLIST"}]
  /\ mission_type \in [Link -> Types \cup {"all"}]
  /\ transfer_seq \in [Link -> 0..MaxCount] /\ transfer_count \in [Link -> 0..MaxCount]
  /\ transfer_dataman_id \in [Link -> Stores]
  /\ pc \in [Link -> {"loop", "claim", "lock", "save", "saved", "load", "loaded"}]
  /\ \A l \in Link : call[l] \in Call \cup Read \cup Upload \cup {None}
  /\ items \in [Stores -> [Cells -> Upload \cup {None}]]
  /\ mission_state \in [dataman_id : Stores, count : 0..MaxCount]
  /\ points \in [PointTypes -> [Cells -> Upload \cup {None}]]
  /\ stats \in [PointTypes -> Read]
  /\ fence_lock \in Link \cup {None}
  /\ nav \in [num : 0..MaxCount, counter : 0..MaxUpdates, fence : Upload \cup {None}]
  /\ accepted \subseteq Upload /\ stored \subseteq Upload /\ quit \subseteq Link
  /\ torn \in BOOLEAN /\ slip \subseteq Slips

-----------------------------------------------------------------------------
(***************************************************************************)
(* Start with a mission in store 0 and a fence.                            *)
(***************************************************************************)
Polygon(num, cells) == IF num = 0 THEN None ELSE cells[0]

Init ==
  /\ plan \in Plans /\ uploads = 0
  /\ up = [l \in Link |-> None] /\ last = [l \in Link |-> None]
  /\ dataman_id = 0 /\ count = [t \in Types |-> MaxCount]
  /\ transfer_in_progress = FALSE /\ update_counter = [t \in PointTypes |-> 0]
  /\ state = [l \in Link |-> "IDLE"] /\ mission_type = [l \in Link |-> "mission"]
  /\ transfer_seq = [l \in Link |-> 0] /\ transfer_count = [l \in Link |-> 0]
  /\ transfer_dataman_id = [l \in Link |-> 1]
  /\ pc = [l \in Link |-> "loop"] /\ call = [l \in Link |-> None]
  /\ items = [s \in Stores |-> [k \in Cells |-> IF s = 0 THEN Factory("mission") ELSE None]]
  /\ mission_state = [dataman_id |-> 0, count |-> MaxCount]
  /\ points = [t \in PointTypes |-> [k \in Cells |-> Factory(t)]]
  /\ stats = [t \in PointTypes |-> [num |-> MaxCount, counter |-> 0]]
  /\ fence_lock = None
  /\ nav = [num |-> MaxCount, counter |-> 0, fence |-> Factory("fence")]
  /\ accepted = {} /\ stored = {} /\ quit = {} /\ torn = FALSE /\ slip = {}

-----------------------------------------------------------------------------
(***************************************************************************)
(* The irregularities the properties make exception for.                   *)
(***************************************************************************)
Updating(l, t) == pc[l] \in {"save", "saved"} /\ call[l].key = t

\* "raced": a link claims the transfer after another one has.
Raced == IF transfer_in_progress THEN {"raced"} ELSE {}

\* "released": the flag is reset while another link is receiving a list.
Released(l) == IF \E m \in Link \ {l} : state[m] = "GETLIST" THEN {"released"} ELSE {}

\* "update": two links are in update_active_mission.
Twice(l, t) ==
  IF t = "mission" /\ \E m \in Link \ {l} : Updating(m, t) THEN {"update"} ELSE {}

\* A fence transfer ends with some of the points overwritten.
Halfway(l) == state[l] = "GETLIST" /\ mission_type[l] = "fence" /\ transfer_seq[l] > 0
Tear(halfway) == torn' = (torn \/ halfway)

\* The stats of the fence are written.
Mend(whole) == torn' = (torn /\ ~whole)

-----------------------------------------------------------------------------
(***************************************************************************)
(* Steps shared by the handlers.                                           *)
(***************************************************************************)
\* update_active_mission up to the wait for the dataman.
update_active_mission(l, id, n, of, then) ==
  /\ pc' = [pc EXCEPT ![l] = "save"]
  /\ call' = [call EXCEPT ![l] = [key |-> "mission", id |-> id, count |-> n,
                                  of |-> of, then |-> then]]
  /\ UNCHANGED update_counter

\* Mutant: the counter is not incremented.
update_points_silently(l, t, n, of, then) ==
  /\ update_counter[t] < MaxUpdates
  /\ UNCHANGED update_counter
  /\ pc' = [pc EXCEPT ![l] = "save"]
  /\ call' = [call EXCEPT ![l] = [key |-> t, id |-> update_counter[t], count |-> n,
                                  of |-> of, then |-> then]]

\* update_geofence_count and update_safepoint_count up to the wait.
update_points_count(l, t, n, of, then) ==
  /\ update_counter[t] < MaxUpdates
  /\ update_counter' = [update_counter EXCEPT ![t] = @ + 1]
  /\ pc' = [pc EXCEPT ![l] = "save"]
  /\ call' = [call EXCEPT ![l] = [key |-> t, id |-> update_counter[t] + 1, count |-> n,
                                  of |-> of, then |-> then]]

update(l, t, id, n, of, then) ==
  IF t = "mission" THEN update_active_mission(l, id, n, of, then)
  ELSE update_points_count(l, t, n, of, then)

return(l) == pc' = [pc EXCEPT ![l] = "loop"] /\ call' = [call EXCEPT ![l] = None]

\* The count and the store of the transfer are not used again.
switch_to_idle_state(l) ==
  /\ state' = [state EXCEPT ![l] = "IDLE"]
  /\ fence_lock' = IF fence_lock = l THEN None ELSE fence_lock
  /\ transfer_count' = [transfer_count EXCEPT ![l] = 0]
  /\ transfer_dataman_id' = [transfer_dataman_id EXCEPT ![l] = 1]

\* A transfer ends without having been stored.
GiveUp(l) ==
  /\ switch_to_idle_state(l)
  /\ transfer_in_progress' = FALSE
  /\ slip' = slip \cup Released(l)
  /\ quit' = IF state[l] = "GETLIST" THEN quit \cup {l} ELSE quit
  /\ Tear(Halfway(l))

\* MISSION_ACK with ACCEPTED: the ground station takes its upload for stored,
\* or the message is lost.
SendAccepted(l) ==
  \/ UNCHANGED <<up, accepted>>
  \/ /\ up[l] # None
     /\ up' = [up EXCEPT ![l] = None]
     /\ accepted' = accepted \cup {up[l]}

-----------------------------------------------------------------------------
(***************************************************************************)
(* The ground station of a link turns to a new upload.                     *)
(***************************************************************************)
NewUpload(l, t, c) ==
  /\ <<t, IF c = 0 THEN "empty" ELSE IF c > MaxCount THEN "excess" ELSE "upload">> \in plan[l]
  /\ uploads < MaxUploads
  /\ uploads' = uploads + 1
  /\ up' = [up EXCEPT ![l] = [no |-> uploads + 1, type |-> t, count |-> c]]
  /\ slip' = slip \cup IF state[l] = "GETLIST" \/ pc[l] # "loop" THEN {"restart"} ELSE {}
  /\ UNCHANGED <<plan, last, statics, transfer, thread, file, fence_lock, nav, told, torn>>

-----------------------------------------------------------------------------
(***************************************************************************)
(* handle_mission_count.                                                   *)
(***************************************************************************)
CountTest(l) ==
  /\ pc[l] = "loop" /\ state[l] = "IDLE" /\ up[l] # None
  /\ ~transfer_in_progress
  /\ pc' = [pc EXCEPT ![l] = "claim"]
  /\ call' = [call EXCEPT ![l] = up[l]]
  /\ UNCHANGED <<gcs, statics, transfer, file, fence_lock, nav, history>>

CountTooMany(l) ==
  /\ pc[l] = "claim" /\ call[l].count > MaxCount
  /\ mission_type' = [mission_type EXCEPT ![l] = call[l].type]
  /\ transfer_in_progress' = FALSE
  /\ slip' = slip \cup Raced \cup Released(l)
  /\ return(l)
  /\ UNCHANGED <<gcs, dataman_id, count, update_counter, state, transfer_seq, transfer_count,
                 transfer_dataman_id, file, fence_lock, nav, told, torn>>

\* Mutant: the count is kept.
CountZeroKeeps(l) ==
  /\ pc[l] = "claim" /\ call[l].count = 0
  /\ transfer_in_progress' = TRUE
  /\ mission_type' = [mission_type EXCEPT ![l] = call[l].type]
  /\ update(l, call[l].type, Other(dataman_id), count[call[l].type], call[l], "count")
  /\ slip' = slip \cup Raced \cup Twice(l, call[l].type)
  /\ UNCHANGED <<gcs, dataman_id, count, state, transfer_seq, transfer_count,
                 transfer_dataman_id, file, fence_lock, nav, told, torn>>

CountZero(l) ==
  /\ pc[l] = "claim" /\ call[l].count = 0
  /\ transfer_in_progress' = TRUE
  /\ mission_type' = [mission_type EXCEPT ![l] = call[l].type]
  /\ update(l, call[l].type, Other(dataman_id), 0, call[l], "count")
  /\ slip' = slip \cup Raced \cup Twice(l, call[l].type)
  /\ UNCHANGED <<gcs, dataman_id, count, state, transfer_seq, transfer_count,
                 transfer_dataman_id, file, fence_lock, nav, told, torn>>

\* Mutant: the active store is used.
CountOpenActive(l) ==
  /\ pc[l] = "claim" /\ call[l].count \in 1..MaxCount
  /\ transfer_in_progress' = TRUE
  /\ mission_type' = [mission_type EXCEPT ![l] = call[l].type]
  /\ state' = [state EXCEPT ![l] = "GETLIST"]
  /\ transfer_seq' = [transfer_seq EXCEPT ![l] = 0]
  /\ transfer_count' = [transfer_count EXCEPT ![l] = call[l].count]
  /\ transfer_dataman_id' = [transfer_dataman_id EXCEPT ![l] = dataman_id]
  /\ pc' = [pc EXCEPT ![l] = IF call[l].type = "fence" THEN "lock" ELSE "loop"]
  /\ call' = [call EXCEPT ![l] = None]
  /\ quit' = quit \ {l}
  /\ slip' = slip \cup Raced
  /\ UNCHANGED <<gcs, dataman_id, count, update_counter, file, fence_lock, nav,
                 accepted, stored, torn>>

CountOpen(l) ==
  /\ pc[l] = "claim" /\ call[l].count \in 1..MaxCount
  /\ transfer_in_progress' = TRUE
  /\ mission_type' = [mission_type EXCEPT ![l] = call[l].type]
  /\ state' = [state EXCEPT ![l] = "GETLIST"]
  /\ transfer_seq' = [transfer_seq EXCEPT ![l] = 0]
  /\ transfer_count' = [transfer_count EXCEPT ![l] = call[l].count]
  /\ transfer_dataman_id' = [transfer_dataman_id EXCEPT ![l] = Other(dataman_id)]
  /\ pc' = [pc EXCEPT ![l] = IF call[l].type = "fence" THEN "lock" ELSE "loop"]
  /\ call' = [call EXCEPT ![l] = None]
  /\ quit' = quit \ {l}
  /\ slip' = slip \cup Raced
  /\ UNCHANGED <<gcs, dataman_id, count, update_counter, file, fence_lock, nav,
                 accepted, stored, torn>>

\* Mutant: the fence is not locked.
LockFenceNot(l) ==
  /\ pc[l] = "lock" /\ fence_lock = None
  /\ return(l)
  /\ UNCHANGED <<gcs, statics, transfer, file, fence_lock, nav, history>>

\* dm_lock(DM_KEY_FENCE_POINTS) returns.
LockFence(l) ==
  /\ pc[l] = "lock" /\ fence_lock = None
  /\ fence_lock' = l
  /\ return(l)
  /\ UNCHANGED <<gcs, statics, transfer, file, nav, history>>

-----------------------------------------------------------------------------
(***************************************************************************)
(* handle_mission_item_both.                                               *)
(***************************************************************************)
Expected(l, k) ==
  /\ pc[l] = "loop" /\ state[l] = "GETLIST"
  /\ up[l] # None /\ up[l].type = mission_type[l]
  /\ k < up[l].count /\ k = transfer_seq[l]

\* The item is written; the last one makes the list the current one.
Item(l, k) ==
  /\ Expected(l, k)
  /\ IF up[l].type = "mission"
     THEN /\ items' = [items EXCEPT ![transfer_dataman_id[l]][k] = up[l]]
          /\ UNCHANGED points
     ELSE /\ points' = [points EXCEPT ![up[l].type][k] = up[l]]
          /\ UNCHANGED items
  /\ last' = [last EXCEPT ![l] = up[l]]
  /\ transfer_seq' = [transfer_seq EXCEPT ![l] = k + 1]
  /\ IF k + 1 = transfer_count[l]
     THEN /\ update(l, up[l].type, transfer_dataman_id[l], k + 1, up[l], "item")
          /\ slip' = slip \cup Twice(l, up[l].type)
     ELSE UNCHANGED <<pc, call, update_counter, slip>>
  /\ UNCHANGED <<plan, uploads, up, dataman_id, count, transfer_in_progress, state, mission_type,
                 transfer_count, transfer_dataman_id, mission_state, stats,
                 fence_lock, nav, told, torn>>

\* Mutant: the flag stays set.
ItemRefusedSilently(l, k) ==
  /\ Expected(l, k)
  /\ switch_to_idle_state(l)
  /\ quit' = quit \cup {l} /\ Tear(Halfway(l))
  /\ UNCHANGED <<gcs, transfer_in_progress, slip, dataman_id, count, update_counter, mission_type, transfer_seq,
                 thread, file, nav, accepted, stored>>

\* The item cannot be parsed, is of a wrong kind, or dm_write fails.
ItemRefused(l, k) ==
  /\ Expected(l, k)
  /\ GiveUp(l)
  /\ UNCHANGED <<gcs, dataman_id, count, update_counter, mission_type, transfer_seq,
                 thread, file, nav, accepted, stored>>

\* A fence polygon with less than three vertices.
ItemFewVertices(l, k) ==
  /\ Expected(l, k) /\ up[l].type = "fence"
  /\ update_points_count(l, "fence", 0, None, "few")
  /\ UNCHANGED <<gcs, dataman_id, count, transfer_in_progress, transfer, file,
                 fence_lock, nav, history>>

\* An item that follows the end of a transfer: "Assume this is a duplicate".
ItemDuplicate(l, k) ==
  /\ pc[l] = "loop" /\ state[l] = "IDLE"
  /\ up[l] # None /\ up[l].type = mission_type[l] /\ last[l] = up[l]
  /\ transfer_seq[l] = k + 1
  /\ SendAccepted(l)
  /\ slip' = slip \cup IF l \in quit THEN {"duplicate"} ELSE {}
  /\ UNCHANGED <<plan, uploads, last, statics, transfer, thread, file, fence_lock, nav,
                 stored, quit, torn>>

-----------------------------------------------------------------------------
(***************************************************************************)
(* The rest of update_active_mission, update_geofence_count and            *)
(* update_safepoint_count, and of the handler that called it.              *)
(***************************************************************************)
\* A count of 0 is acknowledged whatever the result is.
FinishCount(l, ok) ==
  /\ call[l].then = "count"
  /\ SendAccepted(l)
  /\ transfer_in_progress' = FALSE
  /\ slip' = slip \cup Released(l) \cup IF ok THEN {} ELSE {"ignored"}
  /\ return(l)
  /\ UNCHANGED <<update_counter, state, transfer_count, transfer_dataman_id, fence_lock, quit, torn>>

\* Mutant: the result of the write is ignored.
FinishItemAccepted(l, ok) ==
  /\ call[l].then = "item"
  /\ switch_to_idle_state(l)
  /\ SendAccepted(l)
  /\ transfer_in_progress' = FALSE
  /\ slip' = slip \cup Released(l)
  /\ Tear(~ok /\ Halfway(l))
  /\ quit' = IF ok THEN quit ELSE quit \cup {l}
  /\ return(l)
  /\ UNCHANGED update_counter

FinishItem(l, ok) ==
  /\ call[l].then = "item"
  /\ switch_to_idle_state(l)
  /\ IF ok THEN SendAccepted(l) ELSE UNCHANGED <<up, accepted>>
  /\ transfer_in_progress' = FALSE
  /\ slip' = slip \cup Released(l)
  /\ Tear(~ok /\ Halfway(l))
  /\ quit' = IF ok THEN quit ELSE quit \cup {l}
  /\ return(l)
  /\ UNCHANGED update_counter

FinishFewVertices(l, ok) ==
  /\ call[l].then = "few"
  /\ switch_to_idle_state(l)
  /\ transfer_in_progress' = FALSE
  /\ slip' = slip \cup Released(l)
  /\ Tear(~ok /\ Halfway(l))
  /\ quit' = quit \cup {l}
  /\ return(l)
  /\ UNCHANGED <<update_counter, up, accepted>>

\* The list of kind t is the last one that CLEAR_ALL sets to 0.
LastKind(t) == t = "rally" \/ (t = "fence" /\ "rally" \notin Types)

FinishClear(l) ==
  /\ \/ call[l].then \in {"clear", "current"} /\ return(l) /\ UNCHANGED update_counter
     \/ /\ call[l].then = "all"
        /\ IF LastKind(call[l].key) THEN return(l) /\ UNCHANGED update_counter
           ELSE update_points_count(l, IF call[l].key = "mission" THEN "fence" ELSE "rally",
                                    0, None, "all")
  /\ UNCHANGED <<transfer_in_progress, state, transfer_count, transfer_dataman_id, fence_lock,
                 up, accepted, quit, slip, torn>>

Finish(l, ok) ==
  \/ FinishCount(l, ok)
  \/ FinishItem(l, ok)
  \/ FinishFewVertices(l, ok)
  \/ FinishClear(l)

\* dm_write succeeds.
Save(l) ==
  /\ pc[l] = "save"
  /\ pc' = [pc EXCEPT ![l] = "saved"]
  /\ IF call[l].key = "mission"
     THEN /\ mission_state' = [dataman_id |-> call[l].id, count |-> call[l].count]
          /\ UNCHANGED <<stats, torn>>
     ELSE /\ stats' = [stats EXCEPT ![call[l].key] = [num |-> call[l].count, counter |-> call[l].id]]
          /\ Mend(call[l].key = "fence")
          /\ UNCHANGED mission_state
  /\ stored' = stored \cup ({call[l].of} \ {None})
  /\ UNCHANGED <<gcs, statics, transfer, call, items, points, fence_lock, nav, accepted, quit, slip>>

SaveFails(l) ==
  /\ pc[l] = "save"
  /\ Finish(l, FALSE)
  /\ UNCHANGED <<plan, uploads, last, dataman_id, count, mission_type, transfer_seq, file, nav, stored>>

Saved(l) ==
  /\ pc[l] = "saved"
  /\ dataman_id' = IF call[l].key = "mission" THEN call[l].id ELSE dataman_id
  /\ count' = [count EXCEPT ![call[l].key] = call[l].count]
  /\ Finish(l, TRUE)
  /\ UNCHANGED <<plan, uploads, last, mission_type, transfer_seq, file, nav, stored>>

-----------------------------------------------------------------------------
(***************************************************************************)
(* handle_mission_clear_all and handle_mission_set_current.                *)
(***************************************************************************)
ClearAll(l, t) ==
  /\ <<t, "edit">> \in plan[l]
  /\ pc[l] = "loop" /\ state[l] = "IDLE"
  /\ mission_type' = [mission_type EXCEPT ![l] = t]
  /\ IF t = "all" THEN update_active_mission(l, Other(dataman_id), 0, None, "all")
     ELSE update(l, t, Other(dataman_id), 0, None, "clear")
  /\ slip' = slip \cup Twice(l, IF t = "all" THEN "mission" ELSE t)
  /\ UNCHANGED <<gcs, dataman_id, count, transfer_in_progress, state, transfer_seq,
                 transfer_count, transfer_dataman_id, file, fence_lock, nav,
                 told, torn>>

SetCurrent(l) ==
  /\ <<"mission", "edit">> \in plan[l]
  /\ pc[l] = "loop" /\ state[l] = "IDLE" /\ count["mission"] > 0
  /\ update_active_mission(l, dataman_id, count["mission"], None, "current")
  /\ slip' = slip \cup Twice(l, "mission")
  /\ UNCHANGED <<gcs, dataman_id, count, transfer_in_progress, transfer, file, fence_lock,
                 nav, told, torn>>

-----------------------------------------------------------------------------
(***************************************************************************)
(* handle_mission_request_list, handle_mission_request_both and            *)
(* handle_mission_ack: a download.                                         *)
(***************************************************************************)
StartDownload(l, n) ==
  /\ transfer_seq' = [transfer_seq EXCEPT ![l] = 0]
  /\ transfer_count' = [transfer_count EXCEPT ![l] = n]

RequestList(l, t) ==
  /\ pc[l] = "loop" /\ <<t, "download">> \in plan[l]
  /\ state[l] = "IDLE" \/ (state[l] = "SENDLIST" /\ mission_type[l] = t)
  /\ state' = [state EXCEPT ![l] = "SENDLIST"]
  /\ mission_type' = [mission_type EXCEPT ![l] = t]
  /\ IF t = "mission" THEN StartDownload(l, count[t]) /\ UNCHANGED pc
     ELSE /\ pc' = [pc EXCEPT ![l] = "load"]
          /\ UNCHANGED <<transfer_seq, transfer_count>>
  /\ UNCHANGED <<gcs, statics, transfer_dataman_id, call, file, fence_lock, nav, history>>

\* dm_read of the stats, which may fail.
Load(l) ==
  /\ pc[l] = "load"
  /\ pc' = [pc EXCEPT ![l] = "loaded"]
  /\ \/ call' = [call EXCEPT ![l] = stats[mission_type[l]]]
     \/ UNCHANGED call
  /\ UNCHANGED <<gcs, statics, transfer, file, fence_lock, nav, history>>

\* "load": a counter that was used already is put back.
Loaded(l) ==
  LET t == mission_type[l] IN
  /\ pc[l] = "loaded"
  /\ IF call[l] = None THEN UNCHANGED <<count, update_counter, slip>>
     ELSE /\ count' = [count EXCEPT ![t] = call[l].num]
          /\ update_counter' = IF t = "fence" THEN [update_counter EXCEPT ![t] = call[l].counter]
                               ELSE update_counter
          /\ slip' = slip \cup IF update_counter' # update_counter THEN {"load"} ELSE {}
  /\ StartDownload(l, count'[t])
  /\ return(l)
  /\ UNCHANGED <<gcs, dataman_id, transfer_in_progress, state, mission_type,
                 transfer_dataman_id, file, fence_lock, nav, told, torn>>

\* A request of item k: the next, the last one again, or an unexpected one.
Request(l, k) ==
  /\ pc[l] = "loop" /\ state[l] = "SENDLIST"
  /\ LET next == k = transfer_seq[l] /\ k < transfer_count[l]
         again == k + 1 = transfer_seq[l]
     IN  /\ transfer_seq' = [transfer_seq EXCEPT ![l] = IF next THEN @ + 1 ELSE @]
         /\ IF (next \/ again) /\ k < count[mission_type[l]]
            THEN UNCHANGED <<state, transfer_count, transfer_dataman_id, fence_lock>>
            ELSE switch_to_idle_state(l)
  /\ UNCHANGED <<gcs, statics, mission_type, thread, file, nav, history>>

DownloadAck(l) ==
  /\ pc[l] = "loop" /\ state[l] = "SENDLIST"
  /\ switch_to_idle_state(l)
  /\ UNCHANGED <<gcs, statics, mission_type, transfer_seq, thread, file, nav, history>>

-----------------------------------------------------------------------------
(***************************************************************************)
(* send: nothing was received for a while.                                 *)
(***************************************************************************)
Timeout(l) ==
  /\ pc[l] = "loop" /\ state[l] # "IDLE"
  /\ GiveUp(l)
  /\ UNCHANGED <<gcs, dataman_id, count, update_counter, mission_type, transfer_seq,
                 thread, file, nav, accepted, stored>>

-----------------------------------------------------------------------------
(***************************************************************************)
(* The navigator tries to lock the fence before every check and loads it   *)
(* again when the counter has changed.                                     *)
(***************************************************************************)
updateFence ==
  [num |-> stats["fence"].num, counter |-> stats["fence"].counter,
   fence |-> Polygon(stats["fence"].num, points["fence"])]

CheckPolygons ==
  /\ fence_lock = None
  /\ nav.counter # stats["fence"].counter
  /\ nav' = updateFence
  /\ UNCHANGED <<gcs, statics, transfer, thread, file, fence_lock, history>>

-----------------------------------------------------------------------------
(***************************************************************************)
(* Power is lost and comes back: what is not in the file is lost.  The     *)
(* mission state may turn out to be unreadable ("unread").                 *)
(***************************************************************************)
Restart ==
  /\ \/ /\ dataman_id' = mission_state.dataman_id
        /\ count' = [t \in Types |-> IF t = "mission" THEN mission_state.count ELSE stats[t].num]
        /\ UNCHANGED slip
     \/ /\ dataman_id' = 0
        /\ count' = [t \in Types |-> IF t = "mission" THEN 0 ELSE stats[t].num]
        /\ slip' = slip \cup {"unread"}
  /\ transfer_in_progress' = FALSE
  /\ update_counter' = [t \in PointTypes |-> IF t = "fence" THEN stats[t].counter ELSE 0]
  /\ state' = [l \in Link |-> "IDLE"] /\ mission_type' = [l \in Link |-> "mission"]
  /\ transfer_seq' = [l \in Link |-> 0] /\ transfer_count' = [l \in Link |-> 0]
  /\ transfer_dataman_id' = [l \in Link |-> 1]
  /\ pc' = [l \in Link |-> "loop"] /\ call' = [l \in Link |-> None]
  /\ fence_lock' = None /\ nav' = updateFence
  /\ quit' = quit \cup {l \in Link : state[l] = "GETLIST"}
  /\ Tear(\E l \in Link : Halfway(l))
  /\ UNCHANGED <<gcs, file, accepted, stored>>

-----------------------------------------------------------------------------
Handle(l) ==
  \/ CountTest(l) \/ \E t \in Types : RequestList(l, t)
  \/ \E k \in Cells : Item(l, k) \/ ItemRefused(l, k) \/ ItemFewVertices(l, k)
                      \/ ItemDuplicate(l, k) \/ Request(l, k)
  \/ \E t \in Types \cup {"all"} : ClearAll(l, t)
  \/ SetCurrent(l) \/ DownloadAck(l)

Proceed(l) ==
  \/ CountTooMany(l) \/ CountZero(l) \/ CountOpen(l) \/ LockFence(l)
  \/ Save(l) \/ SaveFails(l) \/ Saved(l) \/ Load(l) \/ Loaded(l)

Next ==
  \/ \E l \in Link : \/ \E t \in Types, c \in Counts : NewUpload(l, t, c)
                     \/ Handle(l) \/ Proceed(l) \/ Timeout(l)
  \/ CheckPolygons
  \/ Restart

Spec == Init /\ [][Next]_vars

-----------------------------------------------------------------------------
(***************************************************************************)
(* Properties.                                                             *)
(***************************************************************************)
\* The first n cells hold one upload, all of it.
Whole(cells, n) ==
  n > 0 => /\ cells[0] # None /\ cells[0].count = n
           /\ \A k \in 0..n - 1 : cells[k] = cells[0]

\* Nothing happened that makes two uploads mix or the active store ambiguous.
Regular == slip \subseteq {"load", "ignored", "duplicate"}

\* The mission that the file names, and the one the links and the navigator
\* know of, is an upload all of whose items were received, or empty: in spite of
\* lost and repeated messages, timeouts, failed writes, power loss, and another
\* link that clears the mission or sets the current item in the meantime.  An
\* upload writes to the inactive store only.
MissionIsWhole ==
  Regular => /\ Whole(items[mission_state.dataman_id], mission_state.count)
             /\ Whole(items[dataman_id], count["mission"])

\* Nobody is locked out for good: while _transfer_in_progress is set some link
\* is in a transfer, which ends by itself or by the timeout, and while the fence
\* is locked its holder is receiving a fence.
FlagHasOwner ==
  /\ transfer_in_progress =>
       \E l \in Link : \/ state[l] = "GETLIST"
                       \/ pc[l] \in {"save", "saved"} /\ call[l].then = "count"
  /\ fence_lock # None => state[fence_lock] = "GETLIST" /\ mission_type[fence_lock] = "fence"

\* A ground station is told ACCEPTED only for an upload that was stored, unless
\* its link gave the upload up and the item is a "duplicate" of that one, or the
\* result of the write was ignored.
AcceptedIsStored ==
  {"restart", "duplicate", "ignored"} \cap slip = {} => accepted \subseteq stored

\* When the navigator gets the lock of the fence, the points that count are of
\* one upload, unless a fence transfer was given up halfway.
FenceIsWhole ==
  fence_lock = None /\ ~torn /\ "restart" \notin slip =>
    Whole(points["fence"], stats["fence"].num)

\* "this makes sure navigator will reload the fence data": a fence whose counter
\* is the one the navigator has seen is the fence that the navigator has loaded.
FenceIsReloaded ==
  /\ fence_lock = None /\ ~torn /\ {"restart", "load"} \cap slip = {}
  /\ nav.counter = stats["fence"].counter
  => nav = updateFence

-----------------------------------------------------------------------------
(***************************************************************************)
(* The abstract store this module implements.                              *)
(***************************************************************************)
Stored(id, n) == IF n = 0 THEN None ELSE items[id][0]

Store == INSTANCE MissionStore WITH
  Mission <- Upload, Empty <- None,
  current <- Stored(mission_state.dataman_id, mission_state.count),
  offered <- {up[l] : l \in Link} \ {None},
  regular <- Regular

\* The stored mission changes only as a whole, to a mission that is being
\* offered or to none, and a restart does not change it.
StoreSpec == Store!Spec
=============================================================================
