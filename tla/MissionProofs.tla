---------------------------- MODULE MissionProofs ----------------------------
(***************************************************************************)
(* Proofs about MissionTransfer for any number of links, any lengths of    *)
(* lists and any behaviour of the ground stations.                         *)
(***************************************************************************)
EXTENDS MissionTransfer, TLAPS

\* What the proofs need of the constants.
LEMMA Constants ==
  /\ None \notin Link /\ "mission" \in Types /\ "fence" \in Types
  /\ Counts \subseteq Nat /\ MaxCount \in Nat \ {0} /\ MaxUploads \in Nat
  BY MissionConstants, Zenon

\* The members of the instances are there for every link.
Domains ==
  /\ fence_lock \in Link \cup {None}
  /\ DOMAIN up = Link /\ DOMAIN state = Link /\ DOMAIN mission_type = Link
  /\ DOMAIN transfer_seq = Link /\ DOMAIN transfer_count = Link
  /\ DOMAIN transfer_dataman_id = Link /\ DOMAIN pc = Link /\ DOMAIN call = Link
  /\ DOMAIN count = Types /\ DOMAIN items = Stores
  /\ \A s \in Stores : DOMAIN items[s] = Cells

Saving(l) == pc[l] \in {"save", "saved"}

\* What the position of a thread says about its transfer.
Position(l) ==
  /\ pc[l] = "claim" => state[l] = "IDLE"
  /\ pc[l] = "lock" => state[l] = "GETLIST" /\ mission_type[l] = "fence"
  /\ pc[l] \in {"load", "loaded"} => state[l] = "SENDLIST" /\ mission_type[l] # "mission"
  /\ Saving(l) => /\ state[l] = IF call[l].then \in {"item", "few"} THEN "GETLIST" ELSE "IDLE"
                  /\ call[l].then = "few" => call[l].key # "mission"

Control == Domains /\ FlagHasOwner /\ \A l \in Link : Position(l)

-----------------------------------------------------------------------------
(* The flag and the fence lock.                                            *)

Owner(l) == state[l] = "GETLIST" \/ (Saving(l) /\ call[l].then = "count")

\* A step of link l leaves the other links' members alone.
Untouched(l) ==
  \A m \in Link \ {l} : /\ state'[m] = state[m] /\ mission_type'[m] = mission_type[m]
                        /\ pc'[m] = pc[m] /\ call'[m] = call[m]

\* The fence lock stays with another link, or is held by l for a fence transfer.
LockKept(l) ==
  \/ fence_lock' = None
  \/ fence_lock' = fence_lock /\ fence_lock # l
  \/ fence_lock' = l /\ state'[l] = "GETLIST" /\ mission_type'[l] = "fence"

\* Where a step of link l leaves its thread, the flag and the lock.
Owned(l) ==
  /\ Position(l)' /\ LockKept(l)
  /\ transfer_in_progress' => Owner(l)' \/ (transfer_in_progress /\ ~Owner(l))

\* What is left to show of a step of link l.
LEMMA ControlOfLink ==
  ASSUME Control, NEW l \in Link, Domains', Untouched(l), Owned(l)
  PROVE  Control'
  <1>1. ASSUME NEW m \in Link PROVE Position(m)'
    BY Zenon DEF Control, Position, Untouched, Owned, Saving
  <1>2. transfer_in_progress' => \E m \in Link : Owner(m)'
    <2>1. CASE Owner(l)'
      BY <2>1, Zenon
    <2>2. CASE transfer_in_progress /\ ~Owner(l)
      <3>1. PICK m \in Link : Owner(m)
        BY <2>2, Zenon DEF Control, FlagHasOwner, Owner, Saving
      <3>2. m # l
        BY <2>2, <3>1, Zenon
      <3> QED BY <3>1, <3>2, Zenon DEF Owner, Saving, Untouched
    <2> QED BY <2>1, <2>2, Zenon DEF Owned
  <1>3. fence_lock' # None => state'[fence_lock'] = "GETLIST" /\ mission_type'[fence_lock'] = "fence"
    BY Zenon DEF Control, Domains, FlagHasOwner, LockKept, Owned, Untouched
  <1> QED BY <1>1, <1>2, <1>3, Zenon DEF Control, FlagHasOwner, Owner, Saving

-----------------------------------------------------------------------------
\* A link that receives a mission.
Receiving(l) == state[l] = "GETLIST" /\ mission_type[l] = "mission"

\* At most one link receives a list, and then the flag is set; at most one link
\* is in update_active_mission.
Exclusive ==
  /\ \A l \in Link : state[l] = "GETLIST" => transfer_in_progress
  /\ \A l, m \in Link : state[l] = "GETLIST" /\ state[m] = "GETLIST" => l = m
  /\ \A l, m \in Link : Updating(l, "mission") /\ Updating(m, "mission") => l = m

\* The store named by id and n is not the one that link l writes to.
Spared(l, id, n) == transfer_dataman_id[l] # id \/ n = 0

\* A mission being received: it goes to a store that is not in use, it is the one
\* the ground station is busy with, and what was received of it is in the store.
Receipt(l) ==
  /\ transfer_dataman_id[l] \in Stores
  /\ Spared(l, dataman_id, count["mission"])
  /\ pc[l] # "saved" \/ call[l].key # "mission" =>
       Spared(l, mission_state.dataman_id, mission_state.count)
  /\ up[l] # None /\ transfer_count[l] = up[l].count /\ up[l].count \in 1..MaxCount
  /\ transfer_seq[l] \in 0..up[l].count
  /\ \A k \in 0..(transfer_seq[l] - 1) : items[transfer_dataman_id[l]][k] = up[l]

\* What a link in update_active_mission is about to write, or has written.
Writing(l) ==
  /\ call[l].id \in Stores /\ call[l].count \in 0..MaxCount
  /\ IF call[l].then = "item"
     THEN /\ Receiving(l) /\ call[l].id = transfer_dataman_id[l]
          /\ call[l].count = up[l].count /\ transfer_seq[l] = up[l].count
     ELSE call[l].count = 0 \/ (call[l].id = dataman_id /\ call[l].count = count["mission"])
  /\ pc[l] = "saved" => /\ mission_state.dataman_id = call[l].id
                        /\ mission_state.count = call[l].count

LinkInv(l) ==
  /\ pc[l] = "claim" => call[l] = up[l] /\ up[l] # None
  /\ Receiving(l) => Receipt(l)
  /\ Updating(l, "mission") => Writing(l)

\* The file agrees with the memory, except while a link has written and not
\* yet returned.
Agreement ==
  \/ mission_state.dataman_id = dataman_id /\ mission_state.count = count["mission"]
  \/ \E l \in Link : Updating(l, "mission") /\ pc[l] = "saved"

MissionsWhole ==
  /\ dataman_id \in Stores /\ count["mission"] \in 0..MaxCount
  /\ mission_state.dataman_id \in Stores /\ mission_state.count \in 0..MaxCount
  /\ Whole(items[mission_state.dataman_id], mission_state.count)
  /\ Whole(items[dataman_id], count["mission"])

Course == Exclusive /\ Agreement /\ MissionsWhole /\ \A l \in Link : LinkInv(l)

IInv == Control /\ (Regular => Course)

-----------------------------------------------------------------------------
\* A step of link l that leaves the missions and the active store alone.
Still ==
  /\ UNCHANGED <<dataman_id, items, mission_state>>
  /\ count'["mission"] = count["mission"]

Elsewhere(l) ==
  /\ Untouched(l)
  /\ \A m \in Link \ {l} : /\ up'[m] = up[m] /\ transfer_seq'[m] = transfer_seq[m]
                           /\ transfer_count'[m] = transfer_count[m]
                           /\ transfer_dataman_id'[m] = transfer_dataman_id[m]

\* Link l starts to receive, or to update, only when no other link does, and does
\* not reset the flag of another one.
Apart(l) ==
  /\ state'[l] = "GETLIST" =>
       /\ transfer_in_progress'
       /\ state[l] = "GETLIST" \/ \A m \in Link \ {l} : state[m] # "GETLIST"
  /\ \A m \in Link \ {l} : state[m] = "GETLIST" => transfer_in_progress'
  /\ Updating(l, "mission")' =>
       Updating(l, "mission") \/ \A m \in Link \ {l} : ~Updating(m, "mission")

\* A step that keeps the links apart.
LEMMA ExclusiveOfLink ==
  ASSUME Exclusive, NEW l \in Link, Untouched(l), Apart(l)
  PROVE  Exclusive'
  <1>1. ASSUME NEW m \in Link, state'[m] = "GETLIST" PROVE transfer_in_progress'
    BY <1>1, Zenon DEF Apart, Untouched
  <1>2. ASSUME NEW m \in Link, NEW n \in Link, state'[m] = "GETLIST", state'[n] = "GETLIST"
        PROVE  m = n
    BY <1>2, Zenon DEF Exclusive, Apart, Untouched
  <1>3. ASSUME NEW m \in Link \ {l} PROVE Updating(m, "mission")' <=> Updating(m, "mission")
    BY Zenon DEF Updating, Untouched
  <1>4. ASSUME NEW m \in Link, NEW n \in Link,
               Updating(m, "mission")', Updating(n, "mission")'
        PROVE  m = n
    BY <1>3, <1>4, Zenon DEF Exclusive, Apart
  <1> QED BY <1>1, <1>2, <1>4, Zenon DEF Exclusive

\* What is left to show of such a step.
LEMMA CourseOfLink ==
  ASSUME Course, NEW l \in Link, Still, Elsewhere(l), Apart(l), LinkInv(l)',
         ~(Updating(l, "mission") /\ pc[l] = "saved")
  PROVE  Course'
  <1>1. Exclusive'
    BY ExclusiveOfLink, Zenon DEF Course, Elsewhere
  <1>2. ASSUME NEW m \in Link \ {l} PROVE Updating(m, "mission")' <=> Updating(m, "mission")
    BY Zenon DEF Updating, Elsewhere, Untouched
  <1>3. Agreement'
    BY <1>2, Zenon DEF Course, Agreement, Still, Elsewhere, Untouched
  <1>4. MissionsWhole'
    BY Zenon DEF Course, MissionsWhole, Still, Whole
  <1>5. ASSUME NEW m \in Link \ {l} PROVE LinkInv(m)'
    <2>1. Receiving(m)' <=> Receiving(m)
      BY Zenon DEF Receiving, Elsewhere, Untouched
    <2>2. Receipt(m) => Receipt(m)'
      BY ZenonT(30) DEF Receipt, Spared, Still, Elsewhere, Untouched
    <2>3. Writing(m) => Writing(m)'
      BY <2>1, ZenonT(30) DEF Writing, Still, Elsewhere, Untouched
    <2> QED
      BY <1>2, <2>1, <2>2, <2>3, Zenon DEF Course, LinkInv, Elsewhere, Untouched
  <1> QED BY <1>1, <1>3, <1>4, <1>5, Zenon DEF Course

-----------------------------------------------------------------------------
\* What a step without irregularity shows.
Harmless == {"load", "ignored", "duplicate"}

\* Nobody else has claimed the transfer.
LEMMA NotRaced == Raced \subseteq Harmless => ~transfer_in_progress
  BY Zenon DEF Raced, Harmless

\* Nobody else receives a list.
LEMMA NotReleased ==
  ASSUME NEW l \in Link, Released(l) \subseteq Harmless
  PROVE  \A m \in Link \ {l} : state[m] # "GETLIST"
  BY Zenon DEF Released, Harmless

\* Nobody else is in update_active_mission.
LEMMA NotTwice ==
  ASSUME NEW l \in Link, Twice(l, "mission") \subseteq Harmless
  PROVE  \A m \in Link \ {l} : ~Updating(m, "mission")
  BY Zenon DEF Twice, Harmless

\* A link that has nothing under way.
LEMMA IdleLink ==
  ASSUME NEW l \in Link, pc'[l] \notin {"claim", "save", "saved"},
         state'[l] # "GETLIST" \/ mission_type'[l] # "mission"
  PROVE  LinkInv(l)'
  BY Zenon DEF LinkInv, Receiving, Updating

\* A link that is about to write.
LEMMA WritingLink ==
  ASSUME NEW l \in Link, pc'[l] = "save", state'[l] # "GETLIST" \/ mission_type'[l] # "mission",
         call'[l].key = "mission" =>
           /\ call'[l].id \in Stores /\ call'[l].count \in 0..MaxCount
           /\ call'[l].then # "item"
           /\ call'[l].count = 0 \/ (call'[l].id = dataman_id' /\ call'[l].count = count'["mission"])
  PROVE  LinkInv(l)'
  BY Zenon DEF LinkInv, Receiving, Updating, Writing

\* A step after which link l has nothing under way.
Rests(l) ==
  /\ pc[l] # "saved" /\ pc'[l] \in {"loop", "load", "loaded"}
  /\ state'[l] = "GETLIST" => /\ state[l] = "GETLIST" /\ mission_type'[l] # "mission"
                             /\ transfer_in_progress' = transfer_in_progress
  /\ \/ transfer_in_progress' = transfer_in_progress
     \/ \A m \in Link \ {l} : state[m] # "GETLIST"

\* A link that rests.
LEMMA CourseOfRest ==
  ASSUME Course, NEW l \in Link, Still, Elsewhere(l), Rests(l)
  PROVE  Course'
  <1>1. LinkInv(l)'
    BY IdleLink, Zenon DEF Rests
  <1>2. Apart(l)
    BY DEF Course, Exclusive, Rests, Apart, Updating
  <1> QED BY <1>1, <1>2, CourseOfLink, Zenon DEF Rests

\* A step with which link l begins an update: of the mission only if no other
\* link is in one, and then to clear the mission or to write it as it is.
Begins(l) ==
  /\ pc[l] # "saved" /\ pc'[l] = "save" /\ state' = state
  /\ state[l] # "GETLIST" \/ mission_type'[l] # "mission"
  /\ transfer_in_progress' \/ transfer_in_progress' = transfer_in_progress
  /\ call'[l].key = "mission" =>
       /\ \A m \in Link \ {l} : ~Updating(m, "mission")
       /\ call'[l].id \in Stores /\ call'[l].count \in 0..MaxCount /\ call'[l].then # "item"
       /\ call'[l].count = 0 \/ (call'[l].id = dataman_id /\ call'[l].count = count["mission"])

\* A link that begins an update.
LEMMA CourseOfBegin ==
  ASSUME Course, NEW l \in Link, Still, Elsewhere(l), Begins(l)
  PROVE  Course'
  <1>1. LinkInv(l)'
    BY WritingLink, Zenon DEF Begins, Still
  <1>2. Apart(l)
    BY DEF Course, Exclusive, Begins, Apart, Updating
  <1> QED BY <1>1, <1>2, CourseOfLink, Zenon DEF Begins


\* A ground station that turns to a new upload changes nothing aboard.
LEMMA NewUploadStep ==
  ASSUME Control, NEW l \in Link, NEW t \in Types, NEW c \in Counts, NewUpload(l, t, c)
  PROVE  Control' /\ Elsewhere(l) /\ (Course /\ Regular' => Course')
  <1>0. Domains /\ FlagHasOwner /\ Position(l)
    BY Zenon DEF Control
  <1>1. Domains' /\ Elsewhere(l)
    BY <1>0, Constants, Zenon
       DEF Domains, Stores, Elsewhere, Untouched, NewUpload, statics, transfer, thread, file
  <1>2. Still
    BY <1>0, Constants, Zenon DEF Domains, Position, Still, NewUpload, statics, transfer, thread, file
  <1>3. UNCHANGED <<state, mission_type, pc, call, transfer_in_progress, fence_lock>>
    BY <1>0, Zenon DEF Domains, NewUpload, statics, transfer, thread, file
  <1>4. Owned(l)
    BY <1>0, <1>3, Zenon DEF FlagHasOwner, Position, Saving, Owned, LockKept, Owner
  <1>5. Control'
    BY <1>1, <1>4, ControlOfLink, Zenon DEF Elsewhere
  <1>6. ASSUME Course, Regular' PROVE Course'
    <2>1. state[l] # "GETLIST" /\ pc[l] = "loop"
      BY <1>6, Zenon DEF Regular, NewUpload
    <2>2. Rests(l)
      BY <1>3, <2>1, Zenon DEF Rests
    <2> QED BY <1>1, <1>2, <1>6, <2>2, CourseOfRest, Zenon
  <1> QED BY <1>1, <1>5, <1>6, Zenon

\* handle_mission_count.
LEMMA CountTestStep ==
  ASSUME Control, NEW l \in Link, CountTest(l)
  PROVE  Control' /\ Elsewhere(l) /\ (Course /\ Regular' => Course')
  <1>0. Domains /\ FlagHasOwner /\ Position(l)
    BY Zenon DEF Control
  <1>1. Domains' /\ Elsewhere(l)
    BY <1>0, Constants, Zenon
       DEF Domains, Stores, Elsewhere, Untouched, CountTest, gcs, statics, transfer, file
  <1>2. Still
    BY <1>0, Constants, Zenon DEF Domains, Position, Still, CountTest, gcs, statics, transfer, file
  <1>3. /\ UNCHANGED <<up, state, mission_type, transfer_in_progress, fence_lock>>
        /\ pc[l] = "loop" /\ state[l] = "IDLE" /\ pc'[l] = "claim" /\ call'[l] = up[l] /\ up[l] # None
    BY <1>0, Zenon DEF Domains, CountTest, gcs, statics, transfer, file
  <1>4. Owned(l)
    BY <1>0, <1>3, Zenon DEF FlagHasOwner, Position, Saving, Owned, LockKept, Owner
  <1>5. Control'
    BY <1>1, <1>4, ControlOfLink, Zenon DEF Elsewhere
  <1>6. ASSUME Course, Regular' PROVE Course'
    <2>1. Apart(l)
      BY <1>3, <1>6, Zenon DEF Course, Exclusive, Apart, Updating
    <2>2. LinkInv(l)'
      BY <1>3, Zenon DEF LinkInv, Receiving, Updating
    <2> QED BY <1>1, <1>2, <1>3, <1>6, <2>1, <2>2, CourseOfLink, Zenon
  <1> QED BY <1>1, <1>5, <1>6, Zenon

\* A count beyond MAX_COUNT is refused.
LEMMA CountTooManyStep ==
  ASSUME Control, NEW l \in Link, CountTooMany(l)
  PROVE  Control' /\ Elsewhere(l) /\ (Course /\ Regular' => Course')
  <1>0. Domains /\ FlagHasOwner /\ Position(l)
    BY Zenon DEF Control
  <1>1. Domains' /\ Elsewhere(l)
    BY <1>0, Constants, Zenon
       DEF Domains, Stores, Elsewhere, Untouched, CountTooMany, return, gcs, file
  <1>2. Still
    BY <1>0, Constants, Zenon DEF Domains, Position, Still, CountTooMany, return, gcs, file
  <1>3. /\ UNCHANGED <<state, fence_lock>> /\ ~transfer_in_progress'
        /\ pc[l] = "claim" /\ pc'[l] = "loop"
    BY <1>0, Zenon DEF Domains, CountTooMany, return, gcs, file
  <1>4. Owned(l)
    BY <1>0, <1>3, Zenon DEF FlagHasOwner, Position, Saving, Owned, LockKept, Owner
  <1>5. Control'
    BY <1>1, <1>4, ControlOfLink, Zenon DEF Elsewhere
  <1>6. ASSUME Course, Regular' PROVE Course'
    <2>1. \A m \in Link \ {l} : state[m] # "GETLIST"
      BY <1>6, NotReleased, Zenon DEF Regular, Harmless, CountTooMany
    <2>2. Rests(l)
      BY <1>0, <1>3, <2>1, Zenon DEF Position, Rests
    <2> QED BY <1>1, <1>2, <1>6, <2>2, CourseOfRest, Zenon
  <1> QED BY <1>1, <1>5, <1>6, Zenon

\* A count of 0 clears the list.
LEMMA CountZeroStep ==
  ASSUME Control, NEW l \in Link, CountZero(l)
  PROVE  Control' /\ Elsewhere(l) /\ (Course /\ Regular' => Course')
  <1>0. Domains /\ FlagHasOwner /\ Position(l)
    BY Zenon DEF Control
  <1>1. Domains' /\ Elsewhere(l)
    BY <1>0, Constants, Zenon
       DEF Domains, Stores, Elsewhere, Untouched, CountZero, update, update_active_mission, update_points_count, gcs, file
  <1>2. Still
    BY <1>0, Constants, Zenon DEF Domains, Position, Still, CountZero, update, update_active_mission, update_points_count, gcs, file
  <1>3. /\ UNCHANGED <<state, fence_lock>> /\ transfer_in_progress'
        /\ pc[l] = "claim" /\ pc'[l] = "save" /\ call'[l].key = call[l].type
        /\ call'[l].count = 0 /\ call'[l].then = "count"
        /\ call[l].type = "mission" => call'[l].id = Other(dataman_id)
    BY <1>0 DEF Domains, CountZero, update, update_active_mission, update_points_count, gcs, file
  <1>4. Owned(l)
    BY <1>0, <1>3, Zenon DEF FlagHasOwner, Position, Saving, Owned, LockKept, Owner
  <1>5. Control'
    BY <1>1, <1>4, ControlOfLink, Zenon DEF Elsewhere
  <1>6. ASSUME Course, Regular' PROVE Course'
    <2>1. call[l].type = "mission" => \A m \in Link \ {l} : ~Updating(m, "mission")
      BY <1>6, NotTwice, Zenon DEF Regular, Harmless, CountZero
    <2>2. Other(dataman_id) \in Stores
      BY <1>6 DEF Course, MissionsWhole, Stores, Other
    <2>3. Begins(l)
      BY <1>0, <1>3, <2>1, <2>2, Constants DEF Position, Begins
    <2> QED BY <1>1, <1>2, <1>6, <2>3, CourseOfBegin, Zenon
  <1> QED BY <1>1, <1>5, <1>6, Zenon

\* Any other count opens the inactive store.
LEMMA CountOpenStep ==
  ASSUME Control, NEW l \in Link, CountOpen(l)
  PROVE  Control' /\ Elsewhere(l) /\ (Course /\ Regular' => Course')
  <1>0. Domains /\ FlagHasOwner /\ Position(l)
    BY Zenon DEF Control
  <1>1. Domains' /\ Elsewhere(l)
    BY <1>0, Constants, Zenon
       DEF Domains, Stores, Elsewhere, Untouched, CountOpen, gcs, file
  <1>2. Still
    BY <1>0, Constants, Zenon DEF Domains, Position, Still, CountOpen, gcs, file
  <1>3. /\ UNCHANGED <<up, dataman_id, fence_lock, mission_state>> /\ transfer_in_progress'
        /\ pc[l] = "claim" /\ state'[l] = "GETLIST" /\ call[l].count \in 1..MaxCount
        /\ mission_type'[l] = call[l].type /\ call'[l] = None
        /\ pc'[l] = IF call[l].type = "fence" THEN "lock" ELSE "loop"
        /\ transfer_count'[l] = call[l].count /\ transfer_seq'[l] = 0
        /\ transfer_dataman_id'[l] = Other(dataman_id)
    BY <1>0, Zenon DEF Domains, CountOpen, gcs, file
  <1>4. Owned(l)
    BY <1>0, <1>3, Zenon DEF FlagHasOwner, Position, Saving, Owned, LockKept, Owner
  <1>5. Control'
    BY <1>1, <1>4, ControlOfLink, Zenon DEF Elsewhere
  <1>6. ASSUME Course, Regular' PROVE Course'
    <2>1. ~transfer_in_progress
      BY <1>6, NotRaced, Zenon DEF Regular, Harmless, CountOpen
    <2>2. \A m \in Link : state[m] # "GETLIST"
      BY <1>6, <2>1, Zenon DEF Course, Exclusive
    <2>3. Apart(l)
      BY <1>3, <2>2, Zenon DEF Apart, Updating
    <2>4. /\ call[l] = up[l] /\ up[l] # None
          /\ dataman_id \in Stores /\ mission_state.dataman_id \in Stores
      BY <1>3, <1>6, Zenon DEF Course, LinkInv, MissionsWhole
    <2>5. mission_state.dataman_id = dataman_id \/ mission_state.count = 0
      <3>1. ASSUME NEW m \in Link, Updating(m, "mission"), pc[m] = "saved"
            PROVE  mission_state.dataman_id = dataman_id \/ mission_state.count = 0
        <4>1. Writing(m) /\ call[m].then # "item"
          BY <1>6, <2>2, <3>1, Zenon DEF Course, LinkInv, Writing, Receiving
        <4> QED BY <3>1, <4>1, Zenon DEF Writing
      <3> QED BY <1>6, <3>1, Zenon DEF Course, Agreement
    <2>6. Receipt(l)'
      BY <1>2, <1>3, <2>4, <2>5 DEF Still, Receipt, Spared, Stores, Other
    <2>7. LinkInv(l)'
      BY <1>3, <2>6, Zenon DEF LinkInv, Updating
    <2> QED BY <1>1, <1>2, <1>3, <1>6, <2>3, <2>7, CourseOfLink, Zenon
  <1> QED BY <1>1, <1>5, <1>6, Zenon

\* The fence lock is granted.
LEMMA LockFenceStep ==
  ASSUME Control, NEW l \in Link, LockFence(l)
  PROVE  Control' /\ Elsewhere(l) /\ (Course /\ Regular' => Course')
  <1>0. Domains /\ FlagHasOwner /\ Position(l)
    BY Zenon DEF Control
  <1>1. Domains' /\ Elsewhere(l)
    BY <1>0, Constants, Zenon
       DEF Domains, Stores, Elsewhere, Untouched, LockFence, return, gcs, statics, transfer, file
  <1>2. Still
    BY <1>0, Constants, Zenon DEF Domains, Position, Still, LockFence, return, gcs, statics, transfer, file
  <1>3. /\ UNCHANGED <<state, mission_type, transfer_in_progress>> /\ fence_lock' = l
        /\ pc[l] = "lock" /\ pc'[l] = "loop"
    BY <1>0, Zenon DEF Domains, LockFence, return, gcs, statics, transfer, file
  <1>4. Owned(l)
    BY <1>0, <1>3, Zenon DEF FlagHasOwner, Position, Saving, Owned, LockKept, Owner
  <1>5. Control'
    BY <1>1, <1>4, ControlOfLink, Zenon DEF Elsewhere
  <1>6. ASSUME Course, Regular' PROVE Course'
    <2>1. Rests(l)
      BY <1>0, <1>3, Zenon DEF Position, Rests
    <2> QED BY <1>1, <1>2, <1>6, <2>1, CourseOfRest, Zenon
  <1> QED BY <1>1, <1>5, <1>6, Zenon

\* handle_mission_item_both.
LEMMA ItemFewVerticesStep ==
  ASSUME Control, NEW l \in Link, NEW k \in Cells, ItemFewVertices(l, k)
  PROVE  Control' /\ Elsewhere(l) /\ (Course /\ Regular' => Course')
  <1>0. Domains /\ FlagHasOwner /\ Position(l)
    BY Zenon DEF Control
  <1>1. Domains' /\ Elsewhere(l)
    BY <1>0, Constants, Zenon
       DEF Domains, Stores, Elsewhere, Untouched, ItemFewVertices, Expected, update_points_count, gcs, transfer, file
  <1>2. Still
    BY <1>0, Constants, Zenon DEF Domains, Position, Still, ItemFewVertices, Expected, update_points_count, gcs, transfer, file
  <1>3. /\ UNCHANGED <<state, mission_type, transfer_in_progress, fence_lock>>
        /\ pc[l] = "loop" /\ state[l] = "GETLIST" /\ mission_type[l] = "fence"
        /\ pc'[l] = "save" /\ call'[l].key = "fence" /\ call'[l].then = "few"
    BY <1>0, Zenon DEF Domains, ItemFewVertices, Expected, update_points_count, gcs, transfer, file
  <1>4. Owned(l)
    BY <1>0, <1>3, Zenon DEF FlagHasOwner, Position, Saving, Owned, LockKept, Owner
  <1>5. Control'
    BY <1>1, <1>4, ControlOfLink, Zenon DEF Elsewhere
  <1>6. ASSUME Course, Regular' PROVE Course'
    <2>1. Begins(l)
      BY <1>3, Zenon DEF Begins
    <2> QED BY <1>1, <1>2, <1>6, <2>1, CourseOfBegin, Zenon
  <1> QED BY <1>1, <1>5, <1>6, Zenon

\* An item after the end of the transfer.
LEMMA ItemDuplicateStep ==
  ASSUME Control, NEW l \in Link, NEW k \in Cells, ItemDuplicate(l, k)
  PROVE  Control' /\ Elsewhere(l) /\ (Course /\ Regular' => Course')
  <1>0. Domains /\ FlagHasOwner /\ Position(l)
    BY Zenon DEF Control
  <1>1. Domains' /\ Elsewhere(l)
    BY <1>0, Constants, Zenon
       DEF Domains, Stores, Elsewhere, Untouched, ItemDuplicate, SendAccepted, statics, transfer, thread, file
  <1>2. Still
    BY <1>0, Constants, Zenon DEF Domains, Position, Still, ItemDuplicate, SendAccepted, statics, transfer, thread, file
  <1>3. /\ UNCHANGED <<state, mission_type, pc, call, transfer_in_progress, fence_lock>>
        /\ pc[l] = "loop" /\ state[l] = "IDLE"
    BY <1>0, Zenon DEF Domains, ItemDuplicate, SendAccepted, statics, transfer, thread, file
  <1>4. Owned(l)
    BY <1>0, <1>3, Zenon DEF FlagHasOwner, Position, Saving, Owned, LockKept, Owner
  <1>5. Control'
    BY <1>1, <1>4, ControlOfLink, Zenon DEF Elsewhere
  <1>6. ASSUME Course, Regular' PROVE Course'
    <2>1. Rests(l)
      BY <1>0, <1>3, Zenon DEF Position, Rests
    <2> QED BY <1>1, <1>2, <1>6, <2>1, CourseOfRest, Zenon
  <1> QED BY <1>1, <1>5, <1>6, Zenon

\* The end of a transfer that was not stored: an item is refused, or none came.
LEMMA GiveUpStep ==
  ASSUME Control, NEW l \in Link, (\E k \in Cells : ItemRefused(l, k)) \/ Timeout(l)
  PROVE  Control' /\ Elsewhere(l) /\ (Course /\ Regular' => Course')
  <1>0. Domains /\ FlagHasOwner /\ Position(l)
    BY Zenon DEF Control
  <1>1. Domains' /\ Elsewhere(l)
    BY <1>0, Constants, Zenon
       DEF Domains, Stores, Elsewhere, Untouched, ItemRefused, Timeout, Expected, GiveUp, switch_to_idle_state, gcs, thread, file
  <1>2. Still
    BY <1>0, Constants, Zenon DEF Domains, Position, Still, ItemRefused, Timeout, Expected, GiveUp, switch_to_idle_state, gcs, thread, file
  <1>3. /\ UNCHANGED <<pc, call, mission_type>> /\ ~transfer_in_progress'
        /\ fence_lock' = IF fence_lock = l THEN None ELSE fence_lock
        /\ pc[l] = "loop" /\ state'[l] = "IDLE"
    BY <1>0, Zenon DEF Domains, ItemRefused, Timeout, Expected, GiveUp, switch_to_idle_state, gcs, thread, file
  <1>4. Owned(l)
    BY <1>0, <1>3, Zenon DEF FlagHasOwner, Position, Saving, Owned, LockKept, Owner
  <1>5. Control'
    BY <1>1, <1>4, ControlOfLink, Zenon DEF Elsewhere
  <1>6. ASSUME Course, Regular' PROVE Course'
    <2>1. \A m \in Link \ {l} : state[m] # "GETLIST"
      BY <1>6, NotReleased, Zenon DEF Regular, Harmless, ItemRefused, Timeout, GiveUp
    <2>2. Rests(l)
      BY <1>0, <1>3, <2>1, Zenon DEF Position, Rests
    <2> QED BY <1>1, <1>2, <1>6, <2>2, CourseOfRest, Zenon
  <1> QED BY <1>1, <1>5, <1>6, Zenon

\* handle_mission_clear_all and handle_mission_set_current.
LEMMA ClearAllStep ==
  ASSUME Control, NEW l \in Link, NEW t \in Types \cup {"all"}, ClearAll(l, t)
  PROVE  Control' /\ Elsewhere(l) /\ (Course /\ Regular' => Course')
  <1>0. Domains /\ FlagHasOwner /\ Position(l)
    BY Zenon DEF Control
  <1>1. Domains' /\ Elsewhere(l)
    BY <1>0, Constants, Zenon
       DEF Domains, Stores, Elsewhere, Untouched, ClearAll, update, update_active_mission, update_points_count, gcs, file
  <1>2. Still
    BY <1>0, Constants, Zenon DEF Domains, Position, Still, ClearAll, update, update_active_mission, update_points_count, gcs, file
  <1>3. /\ UNCHANGED <<state, transfer_in_progress, fence_lock>>
        /\ pc[l] = "loop" /\ state[l] = "IDLE" /\ pc'[l] = "save"
        /\ call'[l].then \in {"all", "clear"} /\ call'[l].count = 0
        /\ call'[l].key = IF t = "all" THEN "mission" ELSE t
        /\ t \in {"all", "mission"} => call'[l].id = Other(dataman_id)
    BY <1>0 DEF Domains, ClearAll, update, update_active_mission, update_points_count, gcs, file
  <1>4. Owned(l)
    BY <1>0, <1>3, Zenon DEF FlagHasOwner, Position, Saving, Owned, LockKept, Owner
  <1>5. Control'
    BY <1>1, <1>4, ControlOfLink, Zenon DEF Elsewhere
  <1>6. ASSUME Course, Regular' PROVE Course'
    <2>1. t \in {"all", "mission"} => \A m \in Link \ {l} : ~Updating(m, "mission")
      BY <1>6, NotTwice, Zenon DEF Regular, Harmless, ClearAll
    <2>2. Other(dataman_id) \in Stores
      BY <1>6 DEF Course, MissionsWhole, Stores, Other
    <2>3. Begins(l)
      BY <1>3, <2>1, <2>2, Constants DEF Begins
    <2> QED BY <1>1, <1>2, <1>6, <2>3, CourseOfBegin, Zenon
  <1> QED BY <1>1, <1>5, <1>6, Zenon

\* The current item is set: the mission is written as it is.
LEMMA SetCurrentStep ==
  ASSUME Control, NEW l \in Link, SetCurrent(l)
  PROVE  Control' /\ Elsewhere(l) /\ (Course /\ Regular' => Course')
  <1>0. Domains /\ FlagHasOwner /\ Position(l)
    BY Zenon DEF Control
  <1>1. Domains' /\ Elsewhere(l)
    BY <1>0, Constants, Zenon
       DEF Domains, Stores, Elsewhere, Untouched, SetCurrent, update_active_mission, gcs, transfer, file
  <1>2. Still
    BY <1>0, Constants, Zenon DEF Domains, Position, Still, SetCurrent, update_active_mission, gcs, transfer, file
  <1>3. /\ UNCHANGED <<state, mission_type, transfer_in_progress, fence_lock>>
        /\ pc[l] = "loop" /\ state[l] = "IDLE" /\ pc'[l] = "save"
        /\ call'[l].key = "mission" /\ call'[l].then = "current"
        /\ call'[l].id = dataman_id /\ call'[l].count = count["mission"]
    BY <1>0, Zenon DEF Domains, SetCurrent, update_active_mission, gcs, transfer, file
  <1>4. Owned(l)
    BY <1>0, <1>3, Zenon DEF FlagHasOwner, Position, Saving, Owned, LockKept, Owner
  <1>5. Control'
    BY <1>1, <1>4, ControlOfLink, Zenon DEF Elsewhere
  <1>6. ASSUME Course, Regular' PROVE Course'
    <2>1. \A m \in Link \ {l} : ~Updating(m, "mission")
      BY <1>6, NotTwice, Zenon DEF Regular, Harmless, SetCurrent
    <2>2. dataman_id \in Stores /\ count["mission"] \in 0..MaxCount
      BY <1>6, Zenon DEF Course, MissionsWhole
    <2>3. Begins(l)
      BY <1>3, <2>1, <2>2, Zenon DEF Begins
    <2> QED BY <1>1, <1>2, <1>6, <2>3, CourseOfBegin, Zenon
  <1> QED BY <1>1, <1>5, <1>6, Zenon

\* handle_mission_request_list, handle_mission_request_both and handle_mission_ack.
LEMMA RequestListStep ==
  ASSUME Control, NEW l \in Link, NEW t \in Types, RequestList(l, t)
  PROVE  Control' /\ Elsewhere(l) /\ (Course /\ Regular' => Course')
  <1>0. Domains /\ FlagHasOwner /\ Position(l)
    BY Zenon DEF Control
  <1>1. Domains' /\ Elsewhere(l)
    BY <1>0, Constants, Zenon
       DEF Domains, Stores, Elsewhere, Untouched, RequestList, StartDownload, gcs, statics, file
  <1>2. Still
    BY <1>0, Constants, Zenon DEF Domains, Position, Still, RequestList, StartDownload, gcs, statics, file
  <1>3. /\ UNCHANGED <<call, transfer_in_progress, fence_lock>>
        /\ pc[l] = "loop" /\ state[l] # "GETLIST" /\ state'[l] = "SENDLIST" /\ mission_type'[l] = t
        /\ pc'[l] = IF t = "mission" THEN "loop" ELSE "load"
    BY <1>0, Zenon DEF Domains, RequestList, StartDownload, gcs, statics, file
  <1>4. Owned(l)
    BY <1>0, <1>3, Zenon DEF FlagHasOwner, Position, Saving, Owned, LockKept, Owner
  <1>5. Control'
    BY <1>1, <1>4, ControlOfLink, Zenon DEF Elsewhere
  <1>6. ASSUME Course, Regular' PROVE Course'
    <2>1. Rests(l)
      BY <1>0, <1>3, Zenon DEF Position, Rests
    <2> QED BY <1>1, <1>2, <1>6, <2>1, CourseOfRest, Zenon
  <1> QED BY <1>1, <1>5, <1>6, Zenon

\* load_geofence_stats, load_safepoint_stats: the read.
LEMMA LoadStep ==
  ASSUME Control, NEW l \in Link, Load(l)
  PROVE  Control' /\ Elsewhere(l) /\ (Course /\ Regular' => Course')
  <1>0. Domains /\ FlagHasOwner /\ Position(l)
    BY Zenon DEF Control
  <1>1. Domains' /\ Elsewhere(l)
    BY <1>0, Constants, Zenon
       DEF Domains, Stores, Elsewhere, Untouched, Load, gcs, statics, transfer, file
  <1>2. Still
    BY <1>0, Constants, Zenon DEF Domains, Position, Still, Load, gcs, statics, transfer, file
  <1>3. /\ UNCHANGED <<state, mission_type, transfer_in_progress, fence_lock>>
        /\ pc[l] = "load" /\ pc'[l] = "loaded"
    BY <1>0, Zenon DEF Domains, Load, gcs, statics, transfer, file
  <1>4. Owned(l)
    BY <1>0, <1>3, Zenon DEF FlagHasOwner, Position, Saving, Owned, LockKept, Owner
  <1>5. Control'
    BY <1>1, <1>4, ControlOfLink, Zenon DEF Elsewhere
  <1>6. ASSUME Course, Regular' PROVE Course'
    <2>1. Rests(l)
      BY <1>0, <1>3, Zenon DEF Position, Rests
    <2> QED BY <1>1, <1>2, <1>6, <2>1, CourseOfRest, Zenon
  <1> QED BY <1>1, <1>5, <1>6, Zenon

\* The same, after the read.
LEMMA LoadedStep ==
  ASSUME Control, NEW l \in Link, Loaded(l)
  PROVE  Control' /\ Elsewhere(l) /\ (Course /\ Regular' => Course')
  <1>0. Domains /\ FlagHasOwner /\ Position(l)
    BY Zenon DEF Control
  <1>1. Domains' /\ Elsewhere(l)
    BY <1>0, Constants, Zenon
       DEF Domains, Stores, Elsewhere, Untouched, Loaded, StartDownload, return, gcs, file
  <1>2. Still
    BY <1>0, Constants, Zenon DEF Domains, Position, Still, Loaded, StartDownload, return, gcs, file
  <1>3. /\ UNCHANGED <<state, mission_type, transfer_in_progress, fence_lock>>
        /\ pc[l] = "loaded" /\ pc'[l] = "loop"
    BY <1>0, Zenon DEF Domains, Loaded, StartDownload, return, gcs, file
  <1>4. Owned(l)
    BY <1>0, <1>3, Zenon DEF FlagHasOwner, Position, Saving, Owned, LockKept, Owner
  <1>5. Control'
    BY <1>1, <1>4, ControlOfLink, Zenon DEF Elsewhere
  <1>6. ASSUME Course, Regular' PROVE Course'
    <2>1. Rests(l)
      BY <1>0, <1>3, Zenon DEF Position, Rests
    <2> QED BY <1>1, <1>2, <1>6, <2>1, CourseOfRest, Zenon
  <1> QED BY <1>1, <1>5, <1>6, Zenon

\* The ground station asks for an item, or has them all.
LEMMA RequestStep ==
  ASSUME Control, NEW l \in Link, (\E k \in Cells : Request(l, k)) \/ DownloadAck(l)
  PROVE  Control' /\ Elsewhere(l) /\ (Course /\ Regular' => Course')
  <1>0. Domains /\ FlagHasOwner /\ Position(l)
    BY Zenon DEF Control
  <1>1. Domains' /\ Elsewhere(l)
    BY <1>0, Constants, Zenon
       DEF Domains, Stores, Elsewhere, Untouched, Request, DownloadAck, switch_to_idle_state, gcs, statics, thread, file
  <1>2. Still
    BY <1>0, Constants, Zenon DEF Domains, Position, Still, Request, DownloadAck, switch_to_idle_state, gcs, statics, thread, file
  <1>3. /\ UNCHANGED <<pc, call, mission_type, transfer_in_progress>>
        /\ fence_lock' = fence_lock \/ fence_lock' = (IF fence_lock = l THEN None ELSE fence_lock)
        /\ pc[l] = "loop" /\ state[l] = "SENDLIST" /\ state'[l] \in {"IDLE", "SENDLIST"}
    BY <1>0, Zenon DEF Domains, Request, DownloadAck, switch_to_idle_state, gcs, statics, thread, file
  <1>4. Owned(l)
    BY <1>0, <1>3, Zenon DEF FlagHasOwner, Position, Saving, Owned, LockKept, Owner
  <1>5. Control'
    BY <1>1, <1>4, ControlOfLink, Zenon DEF Elsewhere
  <1>6. ASSUME Course, Regular' PROVE Course'
    <2>1. Rests(l)
      BY <1>0, <1>3, Zenon DEF Position, Rests
    <2> QED BY <1>1, <1>2, <1>6, <2>1, CourseOfRest, Zenon
  <1> QED BY <1>1, <1>5, <1>6, Zenon

\* The item is written to the inactive store; the last one begins the update.
LEMMA ItemControl ==
  ASSUME Control, NEW l \in Link, NEW k \in Cells, Item(l, k)
  PROVE  Control'
  <1>0. Domains /\ FlagHasOwner /\ Position(l)
    BY Zenon DEF Control
  <1>1. /\ UNCHANGED <<up, dataman_id, count, transfer_in_progress, state, mission_type,
                       transfer_count, transfer_dataman_id, mission_state, fence_lock>>
        /\ transfer_seq' = [transfer_seq EXCEPT ![l] = k + 1]
        /\ pc[l] = "loop" /\ state[l] = "GETLIST"
    BY Zenon DEF Item, Expected
  <1>2. /\ DOMAIN items' = Stores /\ \A s \in Stores : DOMAIN items'[s] = Cells
    BY <1>0, ZenonT(30) DEF Item, Domains, Stores
  <1>3. /\ DOMAIN pc' = Link /\ DOMAIN call' = Link
        /\ \A m \in Link \ {l} : pc'[m] = pc[m] /\ call'[m] = call[m]
        /\ pc'[l] = "loop" \/ (pc'[l] = "save" /\ call'[l].then = "item")
    BY <1>0, <1>1 DEF Item, Domains, update, update_active_mission, update_points_count
  <1>4. Domains' /\ Untouched(l)
    BY <1>0, <1>1, <1>2, <1>3, Zenon DEF Domains, Untouched
  <1>5. Owned(l)
    BY <1>0, <1>1, <1>3, Zenon DEF FlagHasOwner, Position, Saving, Owned, LockKept, Owner
  <1> QED BY <1>4, <1>5, ControlOfLink, Zenon

\* The item goes to a store that is not in use.
LEMMA ItemStep ==
  ASSUME Control, Course, Regular', NEW l \in Link, NEW k \in Cells, Item(l, k)
  PROVE  Course'
  <1> USE Constants DEF Stores, Control, Course
  <1>1. /\ UNCHANGED <<up, dataman_id, count, transfer_in_progress, state, mission_type,
                       transfer_count, transfer_dataman_id, mission_state>>
        /\ transfer_seq' = [transfer_seq EXCEPT ![l] = k + 1]
        /\ pc[l] = "loop" /\ state[l] = "GETLIST" /\ up[l].type = mission_type[l]
        /\ k = transfer_seq[l] /\ k < up[l].count
    BY Zenon DEF Item, Expected
  <1>2. IF k + 1 = transfer_count[l]
        THEN update(l, up[l].type, transfer_dataman_id[l], k + 1, up[l], "item")
        ELSE UNCHANGED <<pc, call>>
    BY Zenon DEF Item
  <1>3. Elsewhere(l)
    <2>1. \A m \in Link \ {l} : pc'[m] = pc[m] /\ call'[m] = call[m]
      BY <1>2, Zenon DEF Domains, update, update_active_mission, update_points_count
    <2> QED BY <1>1, <2>1, Zenon DEF Domains, Elsewhere, Untouched
  <1>4. CASE up[l].type # "mission"
    <2>1. items' = items
      BY <1>4, Zenon DEF Item
    <2>2. pc'[l] = "loop" \/ (pc'[l] = "save" /\ call'[l].key # "mission")
      BY <1>1, <1>2, <1>4 DEF Domains, update, update_points_count
    <2>3. Still
      BY <1>1, <2>1, Zenon DEF Still
    <2>4. Apart(l)
      BY <1>1, <2>2, Zenon DEF Apart, Exclusive, Updating
    <2>5. LinkInv(l)'
      BY <1>1, <1>4, <2>2, IdleLink, WritingLink, Zenon
    <2>6. ~(Updating(l, "mission") /\ pc[l] = "saved")
      BY <1>1, Zenon
    <2> QED BY <1>3, <2>3, <2>4, <2>5, <2>6, CourseOfLink, Zenon
  <1>5. CASE up[l].type = "mission"
    <2>0. /\ items' = [items EXCEPT ![transfer_dataman_id[l]][k] = up[l]]
          /\ Receiving(l) /\ Receipt(l)
      BY <1>1, <1>5, Zenon DEF Item, Receiving, LinkInv
    <2>1. \/ pc'[l] = "loop"
          \/ /\ pc'[l] = "save" /\ k + 1 = transfer_count[l]
             /\ call'[l] = [key |-> "mission", id |-> transfer_dataman_id[l], count |-> k + 1,
                            of |-> up[l], then |-> "item"]
             /\ \A m \in Link \ {l} : ~Updating(m, "mission")
      <3>1. CASE k + 1 = transfer_count[l]
        <4>1. \A m \in Link \ {l} : ~Updating(m, "mission")
          BY <1>5, <3>1, NotTwice, Zenon DEF Item, Regular, Harmless
        <4> QED BY <1>2, <1>5, <3>1, <4>1, Zenon DEF Domains, update, update_active_mission
      <3>2. CASE k + 1 # transfer_count[l]
        BY <1>1, <1>2, <3>2, Zenon
      <3> QED BY <3>1, <3>2, Zenon
    <2>2. Exclusive'
      <3>1. Apart(l)
        BY <1>1, <2>1, Zenon DEF Apart, Exclusive, Updating
      <3> QED BY <1>3, <3>1, ExclusiveOfLink, Zenon DEF Elsewhere
    <2>3. Agreement'
      <3>1. ASSUME NEW m \in Link, Updating(m, "mission"), pc[m] = "saved"
            PROVE  Updating(m, "mission")' /\ pc'[m] = "saved"
        <4>1. m # l
          BY <1>1, <3>1, Zenon
        <4> QED BY <1>3, <3>1, <4>1, Zenon DEF Updating, Elsewhere, Untouched
      <3> QED BY <1>1, <3>1, Zenon DEF Agreement
    <2>4. /\ transfer_dataman_id[l] \in Stores
          /\ \A j \in Cells : items'[transfer_dataman_id[l]][j] =
                                 IF j = k THEN up[l] ELSE items[transfer_dataman_id[l]][j]
          /\ \A s \in Stores : s # transfer_dataman_id[l] => items'[s] = items[s]
      BY <2>0, ZenonT(30) DEF Domains, Receipt
    <2>5. MissionsWhole'
      BY <1>1, <2>0, <2>4 DEF MissionsWhole, Whole, Receipt, Spared
    <2>6. ASSUME NEW m \in Link \ {l} PROVE LinkInv(m)'
      <3>1. state[m] # "GETLIST" /\ state'[m] # "GETLIST"
        BY <1>1, Zenon DEF Exclusive
      <3>2. Updating(m, "mission")' => Writing(m)'
        <4>1. Updating(m, "mission")' => Updating(m, "mission") /\ Writing(m)
          BY <1>3, ZenonT(30) DEF Updating, Elsewhere, Untouched, LinkInv
        <4> QED BY <1>1, <1>3, <3>1, <4>1, ZenonT(30) DEF Writing, Receiving, Elsewhere, Untouched
      <3> QED BY <1>1, <1>3, <3>1, <3>2, Zenon DEF LinkInv, Receiving, Elsewhere, Untouched
    <2>7. Receiving(l)' /\ Receipt(l)'
      <3>1. transfer_seq'[l] = k + 1 /\ k + 1 \in 0..up[l].count /\ k \in Nat
        BY <1>1, <2>0 DEF Domains, Receipt, Cells
      <3>2. \A j \in 0..k : items'[transfer_dataman_id[l]][j] = up[l]
        BY <1>1, <2>0, <2>4, <3>1 DEF Receipt, Cells
      <3>3. /\ Spared(l, dataman_id, count["mission"])'
            /\ Spared(l, mission_state.dataman_id, mission_state.count)'
        BY <1>1, <2>0, Zenon DEF Receipt, Spared
      <3> QED BY SMTT(30), <1>1, <1>5, <2>0, <3>1, <3>2, <3>3 DEF Receiving, Receipt
    <2>8. LinkInv(l)'
      <3>1. ASSUME Updating(l, "mission")' PROVE Writing(l)'
        BY <1>1, <2>0, <2>1, <2>7, <3>1 DEF Domains, Updating, Writing, Receipt
      <3> QED BY <2>1, <2>7, <3>1, ZenonT(30) DEF LinkInv
    <2> QED BY <2>2, <2>3, <2>5, <2>6, <2>8, Zenon
  <1> QED BY <1>4, <1>5, Zenon

\* The write, whatever else happened.
LEMMA SaveControl ==
  ASSUME Control, NEW l \in Link, Save(l)
  PROVE  Control'
  <1>0. Domains /\ FlagHasOwner /\ Position(l)
    BY Zenon DEF Control
  <1>1. Domains' /\ Untouched(l)
    BY <1>0, Zenon DEF Save, gcs, statics, transfer, Domains, Untouched
  <1>2. /\ UNCHANGED <<state, mission_type, call, transfer_in_progress, fence_lock>>
        /\ pc[l] = "save" /\ pc'[l] = "saved"
    BY <1>0, Zenon DEF Save, gcs, statics, transfer, Domains
  <1>3. Owned(l)
    BY <1>0, <1>2, Zenon DEF FlagHasOwner, Position, Saving, Owned, LockKept, Owner
  <1> QED BY <1>1, <1>3, ControlOfLink, Zenon

\* The write of the mission state makes the new mission the one in the file.
LEMMA SaveStep ==
  ASSUME Control, Course, NEW l \in Link, Save(l)
  PROVE  Course'
  <1> USE Constants DEF Stores, Control, Course, gcs, statics, transfer
  <1>1. /\ UNCHANGED <<up, dataman_id, count, transfer_in_progress, state, mission_type,
                       transfer_seq, transfer_count, transfer_dataman_id, call, items>>
        /\ pc[l] = "save" /\ pc'[l] = "saved"
        /\ \A m \in Link \ {l} : pc'[m] = pc[m]
    BY Zenon DEF Save, Domains
  <1>2. Elsewhere(l)
    BY <1>1, Zenon DEF Elsewhere, Untouched
  <1>3. Apart(l)
    BY <1>1, Zenon DEF Apart, Exclusive, Updating
  <1>4. CASE call[l].key # "mission"
    <2>1. Still
      BY <1>1, <1>4, Zenon DEF Save, Still
    <2>2. LinkInv(l)'
      BY <1>1, <1>4, <2>1, ZenonT(30) DEF LinkInv, Receiving, Receipt, Spared, Updating, Still
    <2>3. ~(Updating(l, "mission") /\ pc[l] = "saved")
      BY <1>1, Zenon
    <2> QED BY <1>2, <1>3, <2>1, <2>2, <2>3, CourseOfLink, Zenon
  <1>5. CASE call[l].key = "mission"
    <2>1. /\ mission_state'.dataman_id = call[l].id /\ mission_state'.count = call[l].count
          /\ Updating(l, "mission") /\ Writing(l) /\ Updating(l, "mission")'
      BY <1>1, <1>5 DEF Save, Updating, LinkInv
    <2>2. \A m \in Link \ {l} : ~Updating(m, "mission") /\ ~Updating(m, "mission")'
      BY <1>1, <2>1, Zenon DEF Exclusive, Updating
    <2>3. Exclusive'
      BY <1>2, <1>3, ExclusiveOfLink, Zenon DEF Elsewhere
    <2>4. Agreement'
      BY <1>1, <2>1, Zenon DEF Agreement
    <2>5. MissionsWhole'
      <3>1. Whole(items[call[l].id], call[l].count)
        <4>1. CASE call[l].then = "item"
          BY SMTT(30), <2>1, <4>1 DEF Writing, LinkInv, Receipt, Whole
        <4>2. CASE call[l].then # "item"
          BY <2>1, <4>2 DEF Writing, MissionsWhole, Whole
        <4> QED BY <4>1, <4>2, Zenon
      <3> QED BY <1>1, <2>1, <3>1, ZenonT(30) DEF MissionsWhole, Writing, Whole
    <2>6. ASSUME NEW m \in Link \ {l} PROVE LinkInv(m)'
      <3>1. Receiving(m) => Receipt(m)'
        <4>1. CASE call[l].then = "item"
          BY <1>1, <2>1, <4>1, ZenonT(30) DEF Writing, Receiving, Exclusive
        <4>2. CASE call[l].then # "item"
          BY <1>1, <2>1, <4>2 DEF Writing, LinkInv, Receipt, Spared
        <4> QED BY <4>1, <4>2, Zenon
      <3> QED BY <1>1, <2>2, <3>1, Zenon DEF LinkInv, Receiving
    <2>7. LinkInv(l)'
      <3>1. Receiving(l) => Receipt(l)'
        BY <1>1, <1>5, Zenon DEF LinkInv, Receipt, Spared
      <3>2. Writing(l)'
        BY <1>1, <2>1, Zenon DEF Writing, Receiving
      <3> QED BY <1>1, <3>1, <3>2, Zenon DEF LinkInv, Receiving
    <2> QED BY <2>3, <2>4, <2>5, <2>6, <2>7, Zenon
  <1> QED BY <1>4, <1>5, Zenon

\* What follows the write, whatever else happened.
LEMMA FinishControl ==
  ASSUME Control, NEW l \in Link, Saving(l), NEW ok, Finish(l, ok),
         DOMAIN count' = Types, UNCHANGED <<items, mission_type, transfer_seq>>
  PROVE  Control'
  <1>0. Domains /\ FlagHasOwner /\ Position(l)
    BY Zenon DEF Control
  <1>1. CASE FinishCount(l, ok)
    <2>1. /\ DOMAIN up' = Link /\ DOMAIN pc' = Link /\ DOMAIN call' = Link
          /\ UNCHANGED <<state, fence_lock, transfer_count, transfer_dataman_id>>
          /\ \A m \in Link \ {l} : pc'[m] = pc[m] /\ call'[m] = call[m]
          /\ ~transfer_in_progress' /\ pc'[l] = "loop" /\ call[l].then = "count"
      BY <1>0, <1>1, Zenon DEF Domains, FinishCount, SendAccepted, return
    <2>2. Domains' /\ Untouched(l)
      BY <1>0, <2>1, Zenon DEF Domains, Untouched
    <2>3. Owned(l)
      BY <1>0, <2>1, Zenon DEF FlagHasOwner, Position, Saving, Owned, LockKept
    <2> QED BY <2>2, <2>3, ControlOfLink, Zenon
  <1>2. CASE FinishItem(l, ok) \/ FinishFewVertices(l, ok)
    <2>1. /\ DOMAIN up' = Link /\ switch_to_idle_state(l) /\ return(l) /\ ~transfer_in_progress'
      BY <1>0, <1>2, Zenon DEF Domains, FinishItem, FinishFewVertices, SendAccepted
    <2>2. Domains' /\ Untouched(l)
      BY <1>0, <2>1, Constants, Zenon DEF Domains, Untouched, switch_to_idle_state, return
    <2>3. Owned(l)
      BY <1>0, <2>1, ZenonT(30) DEF Domains, Position, Saving, Owned, LockKept, switch_to_idle_state, return
    <2> QED BY <2>2, <2>3, ControlOfLink, Zenon
  <1>3. CASE FinishClear(l)
    <2>1. /\ UNCHANGED <<up, state, fence_lock, transfer_count, transfer_dataman_id,
                         transfer_in_progress>>
          /\ DOMAIN pc' = Link /\ DOMAIN call' = Link
          /\ \A m \in Link \ {l} : pc'[m] = pc[m] /\ call'[m] = call[m]
          /\ call[l].then \in {"clear", "current", "all"}
          /\ \/ pc'[l] = "loop"
             \/ pc'[l] = "save" /\ call'[l].then = "all"
      BY <1>0, <1>3 DEF Domains, FinishClear, update_points_count, return
    <2>2. Domains' /\ Untouched(l)
      BY <1>0, <2>1, Zenon DEF Domains, Untouched
    <2>3. Owned(l)
      BY <1>0, <2>1, Zenon DEF FlagHasOwner, Position, Saving, Owned, LockKept, Owner
    <2> QED BY <2>2, <2>3, ControlOfLink, Zenon
  <1> QED BY <1>1, <1>2, <1>3, Zenon DEF Finish

\* A failed write, whatever else happened.
LEMMA SaveFailsControl ==
  ASSUME Control, NEW l \in Link, SaveFails(l)
  PROVE  Control'
  BY FinishControl, Zenon DEF SaveFails, Saving, file, Control, Domains

\* After the write, whatever else happened.
LEMMA SavedControl ==
  ASSUME Control, NEW l \in Link, Saved(l)
  PROVE  Control'
  <1>1. DOMAIN count' = Types
    BY Zenon DEF Saved, Control, Domains
  <1> QED BY <1>1, FinishControl, Zenon DEF Saved, Saving, file

\* What follows the write: the transfer is over, or CLEAR_ALL goes on to the next
\* kind of list.
LEMMA FinishStep ==
  ASSUME Control, Course, Regular', NEW l \in Link, Saving(l), NEW ok, Finish(l, ok),
         UNCHANGED <<mission_type, transfer_seq>>
  PROVE  Elsewhere(l) /\ Apart(l) /\ LinkInv(l)'
  <1> USE Constants DEF Control, Course, Domains
  <1>1. Position(l) /\ Saving(l)
    BY Zenon
  <1>2. CASE FinishCount(l, ok)
    <2>1. Elsewhere(l) /\ pc'[l] = "loop" /\ state'[l] = "IDLE"
      BY <1>1, <1>2, Zenon DEF FinishCount, SendAccepted, return, Elsewhere, Untouched, Position
    <2>2. \A m \in Link \ {l} : state[m] # "GETLIST"
      BY <1>2, NotReleased, Zenon DEF FinishCount, Regular, Harmless
    <2> QED BY <2>1, <2>2, IdleLink, Zenon DEF Apart, Updating
  <1>3. CASE FinishItem(l, ok)
    <2>1. Elsewhere(l) /\ pc'[l] = "loop" /\ state'[l] = "IDLE"
      BY <1>1, <1>3, Zenon DEF FinishItem, SendAccepted, return, switch_to_idle_state, Elsewhere, Untouched
    <2>2. \A m \in Link \ {l} : state[m] # "GETLIST"
      BY <1>3, NotReleased, Zenon DEF FinishItem, Regular, Harmless
    <2> QED BY <2>1, <2>2, IdleLink, Zenon DEF Apart, Updating
  <1>4. CASE FinishFewVertices(l, ok)
    <2>1. Elsewhere(l) /\ pc'[l] = "loop" /\ state'[l] = "IDLE"
      BY <1>1, <1>4, Zenon DEF FinishFewVertices, return, switch_to_idle_state, Elsewhere, Untouched
    <2>2. \A m \in Link \ {l} : state[m] # "GETLIST"
      BY <1>4, NotReleased, Zenon DEF FinishFewVertices, Regular, Harmless
    <2> QED BY <2>1, <2>2, IdleLink, Zenon DEF Apart, Updating
  <1>5. CASE FinishClear(l)
    <2>1. Elsewhere(l)
      BY <1>5, ZenonT(30) DEF FinishClear, update_points_count, return, Elsewhere, Untouched
    <2>2. /\ state'[l] = "IDLE" /\ state' = state /\ transfer_in_progress' = transfer_in_progress
          /\ pc'[l] = "loop" \/ (pc'[l] = "save" /\ call'[l].key # "mission")
      BY <1>1, <1>5 DEF FinishClear, update_points_count, return, Position
    <2>3. Apart(l)
      BY <2>2, Zenon DEF Apart, Exclusive, Updating
    <2> QED BY <2>1, <2>2, <2>3, IdleLink, WritingLink, Zenon
  <1> QED BY <1>2, <1>3, <1>4, <1>5, Zenon DEF Finish

\* A failed write leaves the mission as it is.
LEMMA SaveFailsStep ==
  ASSUME Control, Course, Regular', NEW l \in Link, SaveFails(l)
  PROVE  Course'
  <1>1. Elsewhere(l) /\ Apart(l) /\ LinkInv(l)'
    BY FinishStep, Zenon DEF SaveFails, Saving
  <1>2. Still /\ pc[l] # "saved"
    BY Zenon DEF SaveFails, Still, file
  <1> QED BY <1>1, <1>2, CourseOfLink, Zenon

\* The memory follows the file.
LEMMA SavedStep ==
  ASSUME Control, Course, Regular', NEW l \in Link, Saved(l)
  PROVE  Course'
  <1> USE Constants DEF Stores, Control, Course
  <1>1. Elsewhere(l) /\ Apart(l) /\ LinkInv(l)'
    BY FinishStep, Zenon DEF Saved, Saving
  <1>2. UNCHANGED <<items, mission_state>>
    BY Zenon DEF Saved, file
  <1>3. CASE call[l].key # "mission"
    <2>1. Still
      BY <1>2, <1>3, Zenon DEF Saved, Still, Domains
    <2> QED BY <1>1, <1>3, <2>1, CourseOfLink, Zenon DEF Updating
  <1>4. CASE call[l].key = "mission"
    <2>1. Updating(l, "mission") /\ Writing(l) /\ pc[l] = "saved"
      BY <1>4, Zenon DEF Saved, Updating, LinkInv
    <2>2. /\ dataman_id' = mission_state.dataman_id
          /\ count'["mission"] = mission_state.count
      BY <1>4, <2>1, Zenon DEF Saved, Domains, Writing
    <2>3. Exclusive'
      BY <1>1, ExclusiveOfLink, Zenon DEF Elsewhere
    <2>4. Agreement' /\ MissionsWhole'
      BY <1>2, <2>2, Zenon DEF Agreement, MissionsWhole, Whole
    <2>5. ASSUME NEW m \in Link \ {l} PROVE LinkInv(m)'
      <3>0. /\ state'[m] = state[m] /\ mission_type'[m] = mission_type[m]
            /\ pc'[m] = pc[m] /\ call'[m] = call[m] /\ up'[m] = up[m]
            /\ transfer_seq'[m] = transfer_seq[m] /\ transfer_count'[m] = transfer_count[m]
            /\ transfer_dataman_id'[m] = transfer_dataman_id[m]
        BY <1>1, Zenon DEF Elsewhere, Untouched
      <3>1. ~Updating(m, "mission")
        BY <2>1, Zenon DEF Exclusive
      <3>2. ~Updating(m, "mission")'
        BY <3>0, <3>1, Zenon DEF Updating
      <3>3. Receiving(m)' => Receipt(m)'
        <4>1. Receiving(m)' => Receipt(m) /\ Spared(m, mission_state.dataman_id, mission_state.count)
          BY <3>0, <3>1, Zenon DEF LinkInv, Receiving, Receipt, Updating
        <4> QED BY <1>2, <2>2, <3>0, <4>1, Zenon DEF Receipt, Spared
      <3> QED BY <3>0, <3>2, <3>3, Zenon DEF LinkInv
    <2> QED BY <1>1, <2>3, <2>4, <2>5, Zenon
  <1> QED BY <1>3, <1>4, Zenon

-----------------------------------------------------------------------------
(* The theorems.                                                           *)

\* The factory mission is whole.
LEMMA Initially == Init => IInv
  <1> SUFFICES ASSUME Init PROVE Control /\ Course
    BY Zenon DEF IInv
  <1> USE Constants DEF Init, Stores
  <1>1. Domains
    BY Zenon DEF Domains
  <1>2. Control
    BY <1>1, Zenon DEF Control, FlagHasOwner, Position, Saving
  <1>3. Whole(items[0], MaxCount)
    <2>1. /\ \A k \in Cells : items[0][k] = Factory("mission")
          /\ 0..(MaxCount - 1) = Cells /\ 0 \in Cells
      BY DEF Cells
    <2>2. Factory("mission") # None /\ Factory("mission").count = MaxCount
      BY NoneIsNoUpload DEF Factory, Upload
    <2> QED BY <2>1, <2>2, Zenon DEF Whole
  <1>4. Course
    BY <1>3 DEF Course, Exclusive, Agreement, MissionsWhole, LinkInv, Receiving, Updating
  <1> QED BY <1>2, <1>4, Zenon

\* Irregularities are not forgotten.
LEMMA SlipsGrow == [Next]_vars => slip \subseteq slip'
  <1>1. ASSUME NEW l \in Link, Handle(l) PROVE slip \subseteq slip'
    BY <1>1, Zenon DEF Handle, CountTest, RequestList, Item, ItemRefused, ItemFewVertices, ItemDuplicate,
                Request, ClearAll, SetCurrent, DownloadAck, GiveUp, history
  <1>2. ASSUME NEW l \in Link, NEW ok, Finish(l, ok) PROVE slip \subseteq slip'
    BY <1>2, Zenon DEF Finish, FinishCount, FinishItem, FinishFewVertices, FinishClear
  <1>3. ASSUME NEW l \in Link, Proceed(l) PROVE slip \subseteq slip'
    BY <1>2, <1>3, Zenon DEF Proceed, CountTooMany, CountZero, CountOpen, LockFence, Save, SaveFails,
                      Saved, Load, Loaded, history
  <1>4. ASSUME NEW l \in Link, Timeout(l) PROVE slip \subseteq slip'
    BY <1>4, Zenon DEF Timeout, GiveUp
  <1>5. ASSUME NEW l \in Link, NEW t \in Types, NEW c \in Counts, NewUpload(l, t, c)
        PROVE  slip \subseteq slip'
    BY <1>5, Zenon DEF NewUpload
  <1>6. CheckPolygons \/ Restart \/ UNCHANGED vars => slip \subseteq slip'
    BY Zenon DEF CheckPolygons, Restart, vars, history
  <1> QED BY <1>1, <1>3, <1>4, <1>5, <1>6, Zenon DEF Next

\* What is regular has been so.
LEMMA SlipsStay == [Next]_vars => (Regular' => Regular)
  BY SlipsGrow, Zenon DEF Regular

\* After a power loss the memory is what the file says.
LEMMA RestartStep ==
  ASSUME Control, Restart
  PROVE  Control' /\ (Course /\ Regular' => Course')
  <1> USE Constants DEF Restart, Stores, file, gcs
  <1>1. Domains'
    BY Zenon DEF Control, Domains
  <1>2. Control'
    BY <1>1, Zenon DEF Control, FlagHasOwner, Position, Saving
  <1>3. ASSUME Course, Regular' PROVE Course'
    <2>1. dataman_id' = mission_state.dataman_id /\ count'["mission"] = mission_state.count
      <3>1. "unread" \notin slip'
        BY <1>3, Zenon DEF Regular
      <3> QED BY <3>1, Zenon
    <2>2. \A l \in Link : state'[l] = "IDLE" /\ pc'[l] = "loop"
      BY Zenon
    <2>3. UNCHANGED <<items, mission_state>>
      BY Zenon
    <2>4. Agreement' /\ MissionsWhole'
      BY <1>3, <2>1, <2>3, Zenon DEF Course, Agreement, MissionsWhole, Whole
    <2> QED BY <2>2, <2>4, Zenon DEF Course, Exclusive, LinkInv, Receiving, Updating
  <1> QED BY <1>2, <1>3, Zenon

\* A step of the navigator, or none.
LEMMA StutterStep ==
  ASSUME Control, UNCHANGED <<gcs, statics, transfer, thread, file, fence_lock, history>>
  PROVE  Control' /\ (Course => Course')
  <1> USE DEF gcs, statics, transfer, thread, file
  <1>1. Control'
    BY ZenonT(30) DEF Control, Domains, FlagHasOwner, Position, Saving
  <1>2. ASSUME Course PROVE Course'
    BY <1>2 DEF Course, Exclusive, Agreement, MissionsWhole, Whole, LinkInv, Receiving, Receipt,
                Spared, Writing, Updating
  <1> QED BY <1>1, <1>2, Zenon

\* IInv is an invariant: the mission protocol of any number of links, for lists
\* of any length and any number of uploads.
THEOREM Invariance == Spec => []IInv
  <1>1. ASSUME IInv, [Next]_vars PROVE IInv'
    <2> USE <1>1 DEF IInv
    <2>0. Regular' => Regular
      BY SlipsStay, Zenon
    <2>1. CASE Next
      <3>0. (Control' /\ (Course /\ Regular' => Course')) => IInv'
        BY <2>0, Zenon
      <3>1. ASSUME NEW l \in Link PROVE
              \/ \E t \in Types, c \in Counts : NewUpload(l, t, c)
              \/ Handle(l) \/ Proceed(l) \/ Timeout(l)
              => IInv'
        <4>1. (\E t \in Types, c \in Counts : NewUpload(l, t, c)) \/ Timeout(l) => IInv'
          BY <3>0, NewUploadStep, GiveUpStep, ZenonT(30)
        <4>2. Handle(l) => IInv'
          BY SMTT(30), <3>0, CountTestStep, RequestListStep, ItemControl, ItemStep, GiveUpStep,
             ItemFewVerticesStep, ItemDuplicateStep, RequestStep, ClearAllStep, SetCurrentStep
             DEF Handle
        <4>3. Proceed(l) => IInv'
          <5>1. Save(l) \/ SaveFails(l) \/ Saved(l) => IInv'
            BY <3>0, SaveControl, SaveStep, SaveFailsControl, SaveFailsStep, SavedControl, SavedStep, Zenon
          <5> QED
            BY <3>0, <5>1, CountTooManyStep, CountZeroStep, CountOpenStep, LockFenceStep, LoadStep,
               LoadedStep DEF Proceed
        <4> QED BY <4>1, <4>2, <4>3, Zenon
      <3>2. CASE CheckPolygons
        BY <2>0, <3>2, StutterStep, Zenon DEF CheckPolygons
      <3>3. CASE Restart
        BY <2>0, <3>3, RestartStep, Zenon
      <3> QED BY <2>1, <3>1, <3>2, <3>3, Zenon DEF Next
    <2>2. CASE UNCHANGED vars
      BY <2>0, <2>2, StutterStep, Zenon DEF vars
    <2> QED BY <2>1, <2>2, Zenon
  <1> QED BY <1>1, Initially, PTL DEF Spec

\* The mission that is stored and the one in use are always one complete upload,
\* or empty, unless two uploads or two updates overlapped, a ground station began
\* a new upload within one, or the mission state could not be read at the start.
THEOREM MissionsAreWhole == Spec => []MissionIsWhole
  <1>1. IInv => MissionIsWhole
    BY Zenon DEF IInv, Course, MissionsWhole, MissionIsWhole
  <1> QED BY <1>1, Invariance, PTL

\* Whatever happens, a set _transfer_in_progress and a held fence lock have an
\* owner that will release them.
THEOREM FlagsHaveOwners == Spec => []FlagHasOwner
  <1>1. IInv => FlagHasOwner
    BY Zenon DEF IInv, Control
  <1> QED BY <1>1, Invariance, PTL

-----------------------------------------------------------------------------
(* The refinement.                                                         *)

\* What the ground stations offer are uploads.
Offers ==
  /\ uploads \in 0..MaxUploads
  /\ DOMAIN up = Link /\ \A l \in Link : up[l] \in Upload \cup {None}

Current == Stored(mission_state.dataman_id, mission_state.count)

\* A ground station offers uploads only.
LEMMA OfferSteps == Spec => []Offers
  <1> USE Constants DEF Offers
  <1>1. Init => Offers
    BY SMTT(30) DEF Init
  <1>2. ASSUME Offers, NEW l \in Link, NEW t \in Types, NEW c \in Counts, NewUpload(l, t, c)
        PROVE  Offers'
    BY <1>2 DEF NewUpload, Upload
  <1>3. ASSUME Offers, NEW l \in Link, SendAccepted(l), UNCHANGED uploads PROVE Offers'
    BY <1>3, Zenon DEF SendAccepted
  <1>4. ASSUME Offers, UNCHANGED <<uploads, up>> PROVE Offers'
    BY <1>4, Zenon
  <1>5. ASSUME NEW l \in Link, Handle(l)
        PROVE  UNCHANGED <<uploads, up>> \/ (SendAccepted(l) /\ UNCHANGED uploads)
    BY <1>5, Zenon DEF Handle, CountTest, RequestList, Item, ItemRefused, ItemFewVertices, ItemDuplicate,
                Request, ClearAll, SetCurrent, DownloadAck, gcs
  <1>6. ASSUME NEW l \in Link, NEW ok, Finish(l, ok) PROVE SendAccepted(l) \/ UNCHANGED up
    BY <1>6, Zenon DEF Finish, FinishCount, FinishItem, FinishFewVertices, FinishClear
  <1>7. ASSUME NEW l \in Link, Proceed(l) \/ Timeout(l)
        PROVE  UNCHANGED <<uploads, up>> \/ (SendAccepted(l) /\ UNCHANGED uploads)
    BY <1>6, <1>7, Zenon DEF Proceed, CountTooMany, CountZero, CountOpen, LockFence, Save, SaveFails,
                      Saved, Load, Loaded, Timeout, gcs
  <1>8. CheckPolygons \/ Restart \/ UNCHANGED vars => UNCHANGED <<uploads, up>>
    BY Zenon DEF CheckPolygons, Restart, vars, gcs
  <1>9. Offers /\ [Next]_vars => Offers'
    BY <1>2, <1>3, <1>4, <1>5, <1>7, <1>8, Zenon DEF Next
  <1> QED BY <1>1, <1>9, PTL DEF Spec

\* Only the items of an upload and the mission state decide what is stored.
LEMMA FileSteps ==
  ASSUME [Next]_vars
  PROVE  \/ UNCHANGED <<items, mission_state>>
         \/ \E l \in Link : Save(l) \/ \E k \in Cells : Item(l, k)
  <1>1. ASSUME NEW l \in Link, Handle(l)
        PROVE  UNCHANGED <<items, mission_state>> \/ \E k \in Cells : Item(l, k)
    BY <1>1, Zenon DEF Handle, CountTest, RequestList, ItemRefused, ItemFewVertices, ItemDuplicate,
                Request, ClearAll, SetCurrent, DownloadAck, file
  <1>2. ASSUME NEW l \in Link, Proceed(l) \/ Timeout(l)
        PROVE  UNCHANGED <<items, mission_state>> \/ Save(l)
    BY <1>2, Zenon DEF Proceed, CountTooMany, CountZero, CountOpen, LockFence, SaveFails,
                Saved, Load, Loaded, Timeout, file
  <1>3. ASSUME NEW l \in Link, NEW t \in Types, NEW c \in Counts, NewUpload(l, t, c)
        PROVE  UNCHANGED <<items, mission_state>>
    BY <1>3, Zenon DEF NewUpload, file
  <1>4. CheckPolygons \/ Restart \/ UNCHANGED vars => UNCHANGED <<items, mission_state>>
    BY Zenon DEF CheckPolygons, Restart, vars, file
  <1> QED BY <1>1, <1>2, <1>3, <1>4, Zenon DEF Next

\* An item leaves the stored mission alone, because it goes to the other store.
LEMMA ItemIsHidden ==
  ASSUME Control, Course, NEW l \in Link, NEW k \in Cells, Item(l, k)
  PROVE  Current' = Current
  <1> USE Constants DEF Stores, Control, Course
  <1>1. CASE up[l].type # "mission"
    BY <1>1, Zenon DEF Item, Current, Stored
  <1>2. CASE up[l].type = "mission"
    <2>1. Receipt(l) /\ pc[l] = "loop"
      BY <1>2, Zenon DEF Item, Expected, LinkInv, Receiving
    <2>2. Spared(l, mission_state.dataman_id, mission_state.count)
      BY <2>1, Zenon DEF Receipt
    <2>3. /\ items' = [items EXCEPT ![transfer_dataman_id[l]][k] = up[l]]
          /\ UNCHANGED mission_state
      BY <1>2, Zenon DEF Item
    <2> QED BY <2>2, <2>3, Zenon DEF Current, Stored, Spared, Domains, MissionsWhole
  <1> QED BY <1>1, <1>2, Zenon

\* The write of the mission state replaces the mission by one that is offered,
\* clears it, or writes what is there.
LEMMA SaveReplaces ==
  ASSUME Control, Course, NEW l \in Link, Save(l)
  PROVE  Current' = Current \/ Current' = None \/ (Current' = up[l] /\ up[l] # None)
  <1>0. Agreement /\ Exclusive /\ LinkInv(l)
    BY Zenon DEF Course
  <1>1. pc[l] = "save" /\ UNCHANGED items
    BY Zenon DEF Save
  <1>2. CASE call[l].key # "mission"
    BY <1>1, <1>2, Zenon DEF Save, Current, Stored
  <1>3. CASE call[l].key = "mission"
    <2>1. /\ mission_state'.dataman_id = call[l].id /\ mission_state'.count = call[l].count
          /\ Updating(l, "mission") /\ Writing(l)
      BY <1>0, <1>1, <1>3 DEF Save, Updating, LinkInv
    <2>2. CASE call[l].then = "item"
      <3>1. Receipt(l) /\ call[l].id = transfer_dataman_id[l] /\ call[l].count = up[l].count
            /\ transfer_seq[l] = up[l].count
        BY <1>0, <2>1, <2>2, Zenon DEF Writing, LinkInv
      <3>2. call[l].count # 0 /\ items[transfer_dataman_id[l]][0] = up[l] /\ up[l] # None
        <4>1. /\ call[l].count \in 1..MaxCount /\ up[l] # None
              /\ \A k \in 0..(call[l].count - 1) : items[transfer_dataman_id[l]][k] = up[l]
          BY <3>1, Zenon DEF Receipt
        <4>2. call[l].count # 0 /\ items[transfer_dataman_id[l]][0] = up[l]
          BY <4>1, Constants
        <4> QED BY <4>1, <4>2, Zenon
      <3> QED BY <1>1, <2>1, <3>1, <3>2, Zenon DEF Current, Stored
    <2>3. CASE call[l].then # "item" /\ call[l].count = 0
      BY <2>1, <2>3, Zenon DEF Current, Stored
    <2>4. CASE call[l].then # "item" /\ call[l].count # 0
      <3>1. call[l].id = dataman_id /\ call[l].count = count["mission"]
        BY <2>1, <2>4, Zenon DEF Writing
      <3>2. mission_state.dataman_id = dataman_id /\ mission_state.count = count["mission"]
        BY <1>0, <1>1, <2>1, Zenon DEF Agreement, Exclusive
      <3> QED BY <1>1, <2>1, <3>1, <3>2, Zenon DEF Current, Stored
    <2> QED BY <2>2, <2>3, <2>4, Zenon
  <1> QED BY <1>2, <1>3, Zenon

\* The two stores, the memory and the file together behave like one mission that
\* is replaced as a whole, by one that a ground station is offering, or cleared,
\* and that a power loss does not touch.
THEOREM StoreIsAtomic == Spec => StoreSpec
  <1> USE Constants
  <1>1. Init => Store!Init
    <2> SUFFICES ASSUME Init PROVE Store!Init
      BY Zenon
    <2>1. Stored(mission_state.dataman_id, mission_state.count) \in Upload \cup {None}
      <3>1. items[0][0] = Factory("mission") /\ mission_state.dataman_id = 0
        BY DEF Init, Stores, Cells
      <3>2. Factory("mission") \in Upload
        BY DEF Factory, Upload
      <3> QED BY <3>1, <3>2, ZenonT(30) DEF Stored
    <2>2. {up[l] : l \in Link} \ {None} = {}
      BY Zenon DEF Init
    <2>3. Regular = TRUE
      BY Zenon DEF Init, Regular
    <2> QED BY <2>1, <2>2, <2>3, Zenon DEF Store!Init
  <1>2. ASSUME IInv, Offers, Offers', [Next]_vars PROVE [Store!Next]_(Store!storeVars)
    <2> DEFINE offered == {up[l] : l \in Link} \ {None}
    <2>1. offered' \subseteq Upload
      BY <1>2, Zenon DEF Offers
    <2>2. CASE ~Regular
      <3>1. ~Regular'
        BY <1>2, <2>2, SlipsStay, Zenon
      <3>2. (Regular' = FALSE)
        BY <3>1, Zenon DEF Regular
      <3> QED BY <2>2, <3>2, Zenon DEF Store!Next, Store!Irregular
    <2>3. CASE Regular /\ ~Regular'
      <3>1. Current' = Current
        <4>1. ~\E l \in Link : Save(l)
          BY <2>3, Zenon DEF Save, Regular
        <4> QED BY <1>2, <2>3, <4>1, FileSteps, ItemIsHidden, Zenon DEF IInv, Current, Stored
      <3>2. (Regular' = FALSE)
        BY <2>3, Zenon DEF Regular
      <3> QED BY <3>1, <3>2, Zenon DEF Current, Store!Next, Store!Leave
    <2>4. CASE Regular /\ Regular'
      <3>0. (Regular' = Regular)
        BY <2>4, Zenon DEF Regular
      <3>1. CASE Current' = Current
        BY <2>1, <3>0, <3>1, Zenon DEF Current, Store!Next, Store!Offer
      <3>2. CASE Current' # Current
        <4>1. PICK l \in Link : Save(l)
          BY <1>2, <2>4, <3>2, FileSteps, ItemIsHidden, Zenon DEF IInv, Current, Stored
        <4>2. Current' = None \/ (Current' = up[l] /\ up[l] # None)
          BY <1>2, <2>4, <3>2, <4>1, SaveReplaces, Zenon DEF IInv
        <4>3. offered' = offered
          BY <4>1, Zenon DEF Save, gcs
        <4>4. Current' = None \/ Current' \in offered
          BY <4>2, Zenon
        <4> QED BY <3>0, <4>3, <4>4, Zenon DEF Current, Store!Next, Store!Clear, Store!Replace
      <3> QED BY <3>1, <3>2, Zenon
    <2> QED BY <2>2, <2>3, <2>4, Zenon
  <1> QED BY <1>1, <1>2, Invariance, OfferSteps, PTL DEF Spec, StoreSpec, Store!Spec

-----------------------------------------------------------------------------
(* Frames of the steps, for the invariants that follow.                    *)

\* The members and tables these are about.
Shape ==
  /\ DOMAIN last = Link
  /\ DOMAIN points = PointTypes /\ DOMAIN points["fence"] = Cells
  /\ DOMAIN stats = PointTypes /\ DOMAIN update_counter = PointTypes

\* A step of link l, or of its ground station.
LinkStep(l) ==
  (\E t \in Types, c \in Counts : NewUpload(l, t, c)) \/ Handle(l) \/ Proceed(l) \/ Timeout(l)

\* What else such a step leaves alone.
Beside(l) ==
  /\ nav' = nav
  /\ \A m \in Link \ {l} : /\ last'[m] = last[m] /\ (m \in quit' <=> m \in quit)
                           /\ fence_lock' = m <=> fence_lock = m

\* What follows a write leaves the other links alone.
LEMMA FinishFrame ==
  ASSUME Control, NEW l \in Link, NEW ok, Finish(l, ok), UNCHANGED <<mission_type, transfer_seq, last, nav>>
  PROVE  Elsewhere(l) /\ Beside(l) /\ (Shape /\ UNCHANGED <<points, stats>> => Shape')
  <1>1. Domains /\ None \notin Link
    BY Constants, Zenon DEF Control
  <1>2. CASE FinishCount(l, ok)
    BY <1>1, <1>2, Zenon DEF FinishCount, SendAccepted, return, Elsewhere, Untouched, Beside, Shape, Domains
  <1>3. CASE FinishItem(l, ok) \/ FinishFewVertices(l, ok)
    <2>1. /\ switch_to_idle_state(l) /\ return(l) /\ UNCHANGED update_counter
          /\ SendAccepted(l) \/ UNCHANGED up
          /\ quit' = quit \/ quit' = quit \cup {l}
      BY <1>3, Zenon DEF FinishItem, FinishFewVertices
    <2>2. Elsewhere(l)
      BY <1>1, <2>1, Zenon DEF SendAccepted, switch_to_idle_state, return, Elsewhere, Untouched, Domains
    <2>3. Beside(l)
      <3>1. \A m \in Link \ {l} : m \in quit' <=> m \in quit
        BY <2>1, Zenon
      <3>2. \A m \in Link \ {l} : fence_lock' = m <=> fence_lock = m
        BY <1>1, <2>1 DEF switch_to_idle_state
      <3> QED BY <3>1, <3>2, Zenon DEF Beside
    <2> QED BY <2>1, <2>2, <2>3, Zenon DEF Shape
  <1>4. CASE FinishClear(l)
    <2>1. Elsewhere(l)
      BY <1>1, <1>4, ZenonT(30) DEF FinishClear, update_points_count, return, Elsewhere, Untouched, Domains
    <2>2. Beside(l)
      BY <1>4, Zenon DEF FinishClear, Beside
    <2>3. UNCHANGED update_counter \/ DOMAIN update_counter' = DOMAIN update_counter
      BY <1>4, Zenon DEF FinishClear, update_points_count
    <2> QED BY <2>1, <2>2, <2>3, Zenon DEF Shape
  <1> QED BY <1>2, <1>3, <1>4, Zenon DEF Finish

\* Every step of link l leaves the other links, and what the navigator has, alone.
LEMMA FrameOfLink ==
  ASSUME Control, Shape, NEW l \in Link, LinkStep(l)
  PROVE  Elsewhere(l) /\ Beside(l) /\ Shape'
  <1>0. Domains /\ None \notin Link
    BY Constants, Zenon DEF Control
  <1>1. ASSUME NEW t \in Types, NEW c \in Counts, NewUpload(l, t, c) PROVE Elsewhere(l) /\ Beside(l) /\ Shape'
    BY <1>0, <1>1, NewUploadStep, Zenon DEF NewUpload, Beside, Shape, statics, file, told
  <1>2. CASE CountTest(l)
    BY <1>0, <1>2, CountTestStep, Zenon DEF CountTest, Beside, Shape, gcs, statics, file, history, told
  <1>3. CASE CountTooMany(l)
    BY <1>0, <1>3, CountTooManyStep, Zenon DEF CountTooMany, Beside, Shape, gcs, file, told
  <1>4. CASE CountZero(l)
    BY <1>0, <1>4, CountZeroStep, Zenon DEF CountZero, Beside, Shape, update, update_active_mission, update_points_count, gcs, file, told
  <1>5. CASE CountOpen(l)
    BY <1>0, <1>5, CountOpenStep, Zenon DEF CountOpen, Beside, Shape, gcs, file
  <1>6. CASE LockFence(l)
    BY <1>0, <1>6, LockFenceStep, Zenon DEF LockFence, Beside, Shape, gcs, statics, file, history, told
  <1>7. ASSUME NEW k \in Cells, ItemFewVertices(l, k) PROVE Elsewhere(l) /\ Beside(l) /\ Shape'
    BY <1>0, <1>7, ItemFewVerticesStep, Zenon DEF ItemFewVertices, Beside, Shape, update_points_count, gcs, file, history, told
  <1>8. ASSUME NEW k \in Cells, ItemDuplicate(l, k) PROVE Elsewhere(l) /\ Beside(l) /\ Shape'
    BY <1>0, <1>8, ItemDuplicateStep, Zenon DEF ItemDuplicate, Beside, Shape, statics, file
  <1>9. ASSUME NEW k \in Cells, ItemRefused(l, k) PROVE Elsewhere(l) /\ Beside(l) /\ Shape'
    BY <1>0, <1>9, GiveUpStep, Zenon DEF ItemRefused, Beside, Shape, GiveUp, switch_to_idle_state, gcs, file
  <1>10. CASE Timeout(l)
    BY <1>0, <1>10, GiveUpStep, Zenon DEF Timeout, Beside, Shape, GiveUp, switch_to_idle_state, gcs, file
  <1>11. ASSUME NEW t \in Types \cup {"all"}, ClearAll(l, t) PROVE Elsewhere(l) /\ Beside(l) /\ Shape'
    BY <1>0, <1>11, ClearAllStep, Zenon DEF ClearAll, Beside, Shape, update, update_active_mission, update_points_count, gcs, file, told
  <1>12. CASE SetCurrent(l)
    BY <1>0, <1>12, SetCurrentStep, Zenon DEF SetCurrent, Beside, Shape, update_active_mission, gcs, file, told
  <1>13. ASSUME NEW t \in Types, RequestList(l, t) PROVE Elsewhere(l) /\ Beside(l) /\ Shape'
    BY <1>0, <1>13, RequestListStep, Zenon DEF RequestList, Beside, Shape, gcs, statics, file, history, told
  <1>14. CASE Load(l)
    BY <1>0, <1>14, LoadStep, Zenon DEF Load, Beside, Shape, gcs, statics, file, history, told
  <1>15. CASE Loaded(l)
    BY <1>0, <1>15, LoadedStep, Zenon DEF Loaded, Beside, Shape, gcs, file, told
  <1>16. ASSUME NEW k \in Cells, Request(l, k) PROVE Elsewhere(l) /\ Beside(l) /\ Shape'
    BY <1>0, <1>16, RequestStep, Zenon DEF Request, Beside, Shape, switch_to_idle_state, gcs, statics, file, history, told
  <1>17. CASE DownloadAck(l)
    BY <1>0, <1>17, RequestStep, Zenon DEF DownloadAck, Beside, Shape, switch_to_idle_state, gcs, statics, file, history, told
  <1>18. ASSUME NEW k \in Cells, Item(l, k) PROVE Elsewhere(l) /\ Beside(l) /\ Shape'
    <2>1. /\ UNCHANGED <<up, state, mission_type, transfer_count, transfer_dataman_id, stats, fence_lock, nav, quit>>
          /\ transfer_seq' = [transfer_seq EXCEPT ![l] = k + 1] /\ last' = [last EXCEPT ![l] = up[l]]
          /\ UNCHANGED points \/ \E t : points' = [points EXCEPT ![t] = [points[t] EXCEPT ![k] = up[l]]]
      BY <1>18, Zenon DEF Item, told
    <2>2. /\ \A m \in Link \ {l} : pc'[m] = pc[m] /\ call'[m] = call[m]
          /\ DOMAIN update_counter' = DOMAIN update_counter
      BY <1>0, <1>18, Zenon DEF Item, Domains, update, update_active_mission, update_points_count
    <2>3. Elsewhere(l)
      BY <1>0, <2>1, <2>2, Zenon DEF Domains, Elsewhere, Untouched
    <2>4. Beside(l)
      BY <2>1, Zenon DEF Beside, Shape
    <2>5. DOMAIN points' = PointTypes /\ DOMAIN points'["fence"] = Cells
      <3>1. CASE UNCHANGED points
        BY <3>1, Zenon DEF Shape
      <3>2. ASSUME NEW t, points' = [points EXCEPT ![t] = [points[t] EXCEPT ![k] = up[l]]]
            PROVE  DOMAIN points' = PointTypes /\ DOMAIN points'["fence"] = Cells
        <4>1. "fence" \in PointTypes
          BY Constants, Zenon DEF PointTypes
        <4> QED BY <3>2, <4>1, Zenon DEF Shape
      <3> QED BY <2>1, <3>1, <3>2, Zenon
    <2>6. Shape'
      BY <2>1, <2>2, <2>5, Zenon DEF Shape
    <2> QED BY <2>3, <2>4, <2>6, Zenon
  <1>19. CASE Save(l)
    <2>1. /\ UNCHANGED <<up, last, state, mission_type, transfer_seq, transfer_count, transfer_dataman_id,
                         call, points, update_counter, fence_lock, nav, quit>>
          /\ pc' = [pc EXCEPT ![l] = "saved"]
          /\ UNCHANGED stats \/ \E t, x : stats' = [stats EXCEPT ![t] = x]
      BY <1>19, Zenon DEF Save, gcs, statics, transfer
    <2> QED BY <1>0, <2>1, Zenon DEF Elsewhere, Untouched, Beside, Shape, Domains
  <1>20. CASE SaveFails(l)
    BY <1>20, FinishFrame, Zenon DEF SaveFails, file
  <1>21. CASE Saved(l)
    BY <1>21, FinishFrame, Zenon DEF Saved, file
  <1>22. CASE Handle(l)
    BY <1>22, <1>2, <1>7, <1>8, <1>9, <1>11, <1>12, <1>13, <1>16, <1>17, <1>18, Zenon DEF Handle
  <1>23. CASE Proceed(l)
    BY <1>23, <1>3, <1>4, <1>5, <1>6, <1>14, <1>15, <1>19, <1>20, <1>21, Zenon DEF Proceed
  <1> QED BY <1>1, <1>10, <1>22, <1>23, Zenon DEF LinkStep

-----------------------------------------------------------------------------
(* What ground stations are told.                                          *)

\* No exception of AcceptedIsStored has happened.
Quiet == {"restart", "duplicate", "ignored"} \cap slip = {}

\* The upload that link l stores, has stored or gave up is the one its ground
\* station is busy with; every upload has a number of its own.
Told(l) ==
  /\ pc[l] = "claim" => call[l] = up[l] /\ up[l] # None
  /\ Saving(l) /\ call[l].then \in {"count", "item"} => call[l].of = up[l] /\ up[l] # None
  /\ pc[l] = "saved" => call[l].of \in stored \cup {None}
  /\ last[l] = up[l] /\ up[l] # None /\ l \notin quit /\ state[l] # "GETLIST" => up[l] \in stored
  /\ last[l] # None => last[l].no \in 0..uploads
  /\ up[l] # None => up[l].no \in 0..uploads

Acceptance == uploads \in Nat /\ accepted \subseteq stored /\ \A l \in Link : Told(l)

\* What is left to show of a step of link l.
LEMMA AcceptanceOfLink ==
  ASSUME Acceptance, NEW l \in Link, Elsewhere(l), Beside(l), Told(l)',
         uploads' = uploads \/ uploads' = uploads + 1,
         stored \subseteq stored', accepted' \subseteq stored'
  PROVE  Acceptance'
  <1>1. uploads' \in Nat /\ 0..uploads \subseteq 0..uploads'
    BY DEF Acceptance
  <1>2. ASSUME NEW m \in Link \ {l} PROVE Told(m)'
    <2>1. /\ Told(m) /\ last'[m] = last[m] /\ up'[m] = up[m] /\ state'[m] = state[m]
          /\ pc'[m] = pc[m] /\ call'[m] = call[m] /\ (m \in quit' <=> m \in quit)
      BY Zenon DEF Acceptance, Elsewhere, Untouched, Beside
    <2>2. Saving(m)' <=> Saving(m)
      BY <2>1, Zenon DEF Saving
    <2> QED BY <1>1, <2>1, <2>2, Zenon DEF Told
  <1> QED BY <1>1, <1>2, Zenon DEF Acceptance

\* A step with which no ground station is told anything and none turns to another upload.
Silent(l) ==
  /\ UNCHANGED <<uploads, up, last, accepted>> /\ stored \subseteq stored'
  /\ pc'[l] = "claim" => call'[l] = up[l] /\ up[l] # None
  /\ Saving(l)' /\ call'[l].then \in {"count", "item"} => call'[l].of = up[l] /\ up[l] # None
  /\ pc'[l] = "saved" => call'[l].of \in stored' \cup {None}
  /\ l \notin quit' /\ state'[l] # "GETLIST" => l \notin quit /\ state[l] # "GETLIST"

\* Then what holds still does.
LEMMA SilentSteps ==
  ASSUME Acceptance, NEW l \in Link, Elsewhere(l), Beside(l), Silent(l)
  PROVE  Acceptance'
  <1>1. Told(l)'
    BY Zenon DEF Acceptance, Told, Silent
  <1>2. accepted' \subseteq stored'
    BY Zenon DEF Acceptance, Silent
  <1> QED BY <1>1, <1>2, AcceptanceOfLink, Zenon DEF Silent

\* The ground station takes an upload that is stored for accepted, or is not told.
LEMMA AcceptedSteps ==
  ASSUME Acceptance, NEW l \in Link, Elsewhere(l), Beside(l), DOMAIN up = Link, SendAccepted(l),
         up[l] \in stored, UNCHANGED <<uploads, last, stored>>,
         pc'[l] = "loop", l \in quit => l \in quit'
  PROVE  Acceptance'
  <1>1. up'[l] = up[l] \/ up'[l] = None
    BY Zenon DEF SendAccepted
  <1>2. Told(l)'
    BY <1>1, Zenon DEF Acceptance, Told, Saving
  <1>3. accepted' \subseteq stored'
    BY Zenon DEF Acceptance, SendAccepted
  <1> QED BY <1>2, <1>3, AcceptanceOfLink, Zenon

\* What follows a write: only after a write that succeeded a ground station is told so.
LEMMA FinishAccepts ==
  ASSUME Control, Acceptance, Quiet', NEW l \in Link, NEW ok \in BOOLEAN, Finish(l, ok),
         Saving(l), ok => pc[l] = "saved", Elsewhere(l), Beside(l),
         UNCHANGED <<uploads, last, stored>>
  PROVE  Acceptance'
  <1>1. DOMAIN up = Link /\ DOMAIN state = Link /\ DOMAIN pc = Link /\ Position(l) /\ Told(l)
    BY Zenon DEF Control, Domains, Acceptance
  <1>2. CASE FinishCount(l, ok)
    <2>1. ok
      BY <1>2, Zenon DEF FinishCount, Quiet
    <2>2. up[l] \in stored
      BY <1>1, <1>2, <2>1, Zenon DEF FinishCount, Told
    <2> QED BY <1>1, <1>2, <2>2, AcceptedSteps, Zenon DEF FinishCount, return
  <1>3. CASE FinishItem(l, ok)
    <2>1. pc'[l] = "loop" /\ state'[l] = "IDLE"
      BY <1>1, <1>3, Zenon DEF FinishItem, return, switch_to_idle_state
    <2>2. CASE ok
      <3>1. up[l] \in stored
        BY <1>1, <1>3, <2>2, Zenon DEF FinishItem, Told
      <3> QED BY <1>1, <1>3, <2>1, <2>2, <3>1, AcceptedSteps, Zenon DEF FinishItem
    <2>3. CASE ~ok
      <3>1. Silent(l)
        BY <1>3, <2>1, <2>3, Zenon DEF FinishItem, Silent, Saving
      <3> QED BY <3>1, SilentSteps, Zenon
    <2> QED BY <2>2, <2>3, Zenon
  <1>4. CASE FinishFewVertices(l, ok)
    <2>1. pc'[l] = "loop"
      BY <1>1, <1>4, Zenon DEF FinishFewVertices, return
    <2>2. Silent(l)
      BY <1>4, <2>1, Zenon DEF FinishFewVertices, Silent, Saving
    <2> QED BY <2>2, SilentSteps, Zenon
  <1>5. CASE FinishClear(l)
    <2>1. pc'[l] = "loop" \/ (pc'[l] = "save" /\ call'[l].then = "all")
      BY <1>1, <1>5 DEF FinishClear, return, update_points_count, Control, Domains
    <2>2. Silent(l)
      BY <1>5, <2>1, Zenon DEF FinishClear, Silent, Saving
    <2> QED BY <2>2, SilentSteps, Zenon
  <1> QED BY <1>2, <1>3, <1>4, <1>5, Zenon DEF Finish

\* Every step of a link and of its ground station.
LEMMA AcceptanceStep ==
  ASSUME Control, Shape, Acceptance, Quiet', NEW l \in Link, LinkStep(l)
  PROVE  Acceptance'
  <1>0. /\ Domains /\ Position(l) /\ Told(l) /\ Elsewhere(l) /\ Beside(l)
        /\ DOMAIN last = Link
    BY FrameOfLink, Zenon DEF Control, Shape, Acceptance
  <1>a. Silent(l) => Acceptance'
    BY <1>0, SilentSteps, Zenon
  <1>1. CASE CountTest(l)
    <2>1. Silent(l)
      BY <1>0, <1>1, Zenon DEF CountTest, Silent, Saving, Told, Position, Domains, gcs, history, told, transfer
    <2> QED BY <1>a, <2>1, Zenon
  <1>2. CASE CountTooMany(l)
    <2>1. Silent(l)
      BY <1>0, <1>2, Zenon DEF CountTooMany, Silent, Saving, Told, Position, Domains, return, gcs, told
    <2> QED BY <1>a, <2>1, Zenon
  <1>3. CASE CountZero(l)
    <2>1. pc'[l] = "save" /\ call'[l].of = up[l] /\ up[l] # None
      BY <1>0, <1>3 DEF CountZero, Told, Domains, update, update_active_mission, update_points_count
    <2>2. Silent(l)
      BY <1>3, <2>1, Zenon DEF CountZero, Silent, Saving, gcs, told
    <2> QED BY <1>a, <2>2, Zenon
  <1>4. CASE CountOpen(l)
    <2>1. Silent(l)
      BY <1>0, <1>4, Zenon DEF CountOpen, Silent, Saving, Told, Position, Domains, gcs
    <2> QED BY <1>a, <2>1, Zenon
  <1>5. CASE LockFence(l)
    <2>1. Silent(l)
      BY <1>0, <1>5, Zenon DEF LockFence, Silent, Saving, Told, Position, Domains, return, gcs, history, told, transfer
    <2> QED BY <1>a, <2>1, Zenon
  <1>6. ASSUME NEW k \in Cells, ItemFewVertices(l, k) PROVE Acceptance'
    <2>1. Silent(l)
      BY <1>0, <1>6, Zenon DEF ItemFewVertices, Silent, Saving, Told, Position, Domains, Expected, update_points_count, gcs, history, told, transfer
    <2> QED BY <1>a, <2>1, Zenon
  <1>7. ASSUME NEW k \in Cells, ItemRefused(l, k) PROVE Acceptance'
    <2>1. Silent(l)
      BY <1>0, <1>7, Zenon DEF ItemRefused, Silent, Saving, Told, Position, Domains, Expected, GiveUp, switch_to_idle_state, gcs, thread
    <2> QED BY <1>a, <2>1, Zenon
  <1>8. CASE Timeout(l)
    <2>1. Silent(l)
      BY <1>0, <1>8, Zenon DEF Timeout, Silent, Saving, Told, Position, Domains, GiveUp, switch_to_idle_state, gcs, thread
    <2> QED BY <1>a, <2>1, Zenon
  <1>9. ASSUME NEW t \in Types \cup {"all"}, ClearAll(l, t) PROVE Acceptance'
    <2>1. pc'[l] = "save" /\ call'[l].then \in {"all", "clear"}
      BY <1>0, <1>9 DEF ClearAll, Domains, update, update_active_mission, update_points_count
    <2>2. Silent(l)
      BY <1>9, <2>1, Zenon DEF ClearAll, Silent, Saving, gcs, told
    <2> QED BY <1>a, <2>2, Zenon
  <1>10. CASE SetCurrent(l)
    <2>1. Silent(l)
      BY <1>0, <1>10, Zenon DEF SetCurrent, Silent, Saving, Told, Position, Domains, update_active_mission, gcs, told, transfer
    <2> QED BY <1>a, <2>1, Zenon
  <1>11. ASSUME NEW t \in Types, RequestList(l, t) PROVE Acceptance'
    <2>1. Silent(l)
      BY <1>0, <1>11, Zenon DEF RequestList, Silent, Saving, Told, Position, Domains, gcs, history, told
    <2> QED BY <1>a, <2>1, Zenon
  <1>12. CASE Load(l)
    <2>1. Silent(l)
      BY <1>0, <1>12, Zenon DEF Load, Silent, Saving, Told, Position, Domains, gcs, history, told, transfer
    <2> QED BY <1>a, <2>1, Zenon
  <1>13. CASE Loaded(l)
    <2>1. Silent(l)
      BY <1>0, <1>13, Zenon DEF Loaded, Silent, Saving, Told, Position, Domains, return, gcs, told
    <2> QED BY <1>a, <2>1, Zenon
  <1>14. ASSUME NEW k \in Cells, Request(l, k) PROVE Acceptance'
    <2>1. Silent(l)
      BY <1>0, <1>14, Zenon DEF Request, Silent, Saving, Told, Position, Domains, switch_to_idle_state, gcs, history, told, thread
    <2> QED BY <1>a, <2>1, Zenon
  <1>15. CASE DownloadAck(l)
    <2>1. Silent(l)
      BY <1>0, <1>15, Zenon DEF DownloadAck, Silent, Saving, Told, Position, Domains, switch_to_idle_state, gcs, history, told, thread
    <2> QED BY <1>a, <2>1, Zenon
  <1>16. ASSUME NEW t \in Types, NEW c \in Counts, NewUpload(l, t, c) PROVE Acceptance'
    <2>1. /\ pc[l] = "loop" /\ state[l] # "GETLIST"
          /\ UNCHANGED <<last, pc, call, state, accepted, stored, quit>>
          /\ uploads' = uploads + 1 /\ up'[l] = [no |-> uploads + 1, type |-> t, count |-> c]
      BY <1>0, <1>16, Zenon DEF NewUpload, Quiet, Domains, transfer, thread, told
    <2>2. /\ uploads \in Nat /\ uploads + 1 \notin 0..uploads /\ uploads + 1 \in 0..(uploads + 1)
          /\ 0..uploads \subseteq 0..(uploads + 1)
      BY DEF Acceptance
    <2>3. up'[l].no = uploads + 1
      BY <2>1
    <2>4. last[l] # None => last[l] # up'[l]
      BY <1>0, <2>2, <2>3, Zenon DEF Told
    <2>5. Told(l)'
      BY <1>0, <2>1, <2>2, <2>3, <2>4, Zenon DEF Told, Saving
    <2>6. stored \subseteq stored' /\ accepted' \subseteq stored'
      BY <2>1, Zenon DEF Acceptance
    <2> QED BY <1>0, <2>1, <2>5, <2>6, AcceptanceOfLink, Zenon
  <1>17. ASSUME NEW k \in Cells, ItemDuplicate(l, k) PROVE Acceptance'
    <2>1. l \notin quit /\ up[l] \in stored
      BY <1>0, <1>17, Zenon DEF ItemDuplicate, Quiet, Told
    <2> QED BY <1>0, <1>17, <2>1, AcceptedSteps, Zenon DEF ItemDuplicate, Domains, thread
  <1>18. ASSUME NEW k \in Cells, Item(l, k) PROVE Acceptance'
    <2>1. /\ pc[l] = "loop" /\ state[l] = "GETLIST" /\ up[l] # None /\ last'[l] = up[l]
          /\ UNCHANGED <<uploads, up, state, accepted, stored, quit>>
      BY <1>0, <1>18, Zenon DEF Item, Expected, told
    <2>2. pc'[l] = "loop" \/ (pc'[l] = "save" /\ call'[l].of = up[l])
      BY <1>0, <1>18, <2>1 DEF Item, Domains, update, update_active_mission, update_points_count
    <2>3. Told(l)'
      BY <1>0, <2>1, <2>2, Zenon DEF Told, Saving
    <2>4. stored \subseteq stored' /\ accepted' \subseteq stored'
      BY <2>1, Zenon DEF Acceptance
    <2> QED BY <1>0, <2>1, <2>3, <2>4, AcceptanceOfLink, Zenon
  <1>19. CASE Save(l)
    <2>1. Silent(l)
      BY <1>0, <1>19, Zenon DEF Save, Silent, Saving, Told, Domains, gcs, transfer
    <2> QED BY <1>a, <2>1, Zenon
  <1>20. CASE SaveFails(l)
    BY <1>0, <1>20, FinishAccepts, Zenon DEF SaveFails, Saving
  <1>21. CASE Saved(l)
    BY <1>0, <1>21, FinishAccepts, Zenon DEF Saved, Saving
  <1>22. CASE Handle(l)
    BY <1>22, <1>1, <1>6, <1>7, <1>9, <1>10, <1>11, <1>14, <1>15, <1>17, <1>18, Zenon DEF Handle
  <1>23. CASE Proceed(l)
    BY <1>23, <1>2, <1>3, <1>4, <1>5, <1>12, <1>13, <1>19, <1>20, <1>21, Zenon DEF Proceed
  <1> QED BY <1>8, <1>16, <1>22, <1>23, Zenon DEF LinkStep

-----------------------------------------------------------------------------
(* The fence lock.                                                         *)

\* A link that receives a fence has the lock before it writes the first point.
Holds(l) ==
  /\ transfer_seq[l] \in Nat
  /\ pc[l] = "lock" => fence_lock # l /\ transfer_seq[l] = 0
  /\ state[l] = "GETLIST" /\ mission_type[l] = "fence" /\ pc[l] # "lock" => fence_lock = l
  /\ Saving(l) /\ call[l].then \in {"item", "few"} => call[l].key = mission_type[l]

Locking == \A l \in Link : Holds(l)

\* What is left to show of a step of link l.
LEMMA LockingOfLink ==
  ASSUME Locking, NEW l \in Link, Elsewhere(l), Beside(l), Holds(l)'
  PROVE  Locking'
  <1>1. ASSUME NEW m \in Link \ {l} PROVE Holds(m)'
    <2>1. /\ Holds(m) /\ state'[m] = state[m] /\ mission_type'[m] = mission_type[m]
          /\ pc'[m] = pc[m] /\ call'[m] = call[m] /\ transfer_seq'[m] = transfer_seq[m]
          /\ fence_lock' = m <=> fence_lock = m
      BY Zenon DEF Locking, Elsewhere, Untouched, Beside
    <2>2. Saving(m)' <=> Saving(m)
      BY <2>1, Zenon DEF Saving
    <2> QED BY <2>1, <2>2, Zenon DEF Holds
  <1> QED BY <1>1, Zenon DEF Locking

\* A link that receives no fence, or has just given one up.
LEMMA HoldsNothing ==
  ASSUME NEW l \in Link, transfer_seq'[l] \in Nat, pc'[l] # "lock",
         state'[l] # "GETLIST" \/ mission_type'[l] # "fence",
         Saving(l)' => call'[l].then \notin {"item", "few"}
  PROVE  Holds(l)'
  BY Zenon DEF Holds

\* What follows a write releases the lock of a fence transfer.
LEMMA FinishReleases ==
  ASSUME Control, Locking, NEW l \in Link, Saving(l), NEW ok, Finish(l, ok),
         UNCHANGED <<mission_type, transfer_seq>>
  PROVE  Holds(l)' /\ state'[l] # "GETLIST"
  <1>1. Domains /\ Position(l) /\ Holds(l)
    BY Zenon DEF Control, Locking
  <1>2. CASE FinishCount(l, ok) \/ FinishItem(l, ok) \/ FinishFewVertices(l, ok)
    <2>1. pc'[l] = "loop" /\ state'[l] = "IDLE"
      BY <1>1, <1>2, Zenon DEF FinishCount, FinishItem, FinishFewVertices, return, switch_to_idle_state,
                               Domains, Position
    <2> QED BY <1>1, <2>1, HoldsNothing, Zenon DEF Holds, Saving
  <1>3. CASE FinishClear(l)
    <2>1. /\ state'[l] = "IDLE"
          /\ pc'[l] = "loop" \/ (pc'[l] = "save" /\ call'[l].then = "all")
      BY <1>1, <1>3 DEF FinishClear, return, update_points_count, Domains, Position
    <2> QED BY <1>1, <2>1, HoldsNothing, Zenon DEF Holds, Saving
  <1> QED BY <1>2, <1>3, Zenon DEF Finish

\* Every step of a link and of its ground station.
LEMMA LockingStep ==
  ASSUME Control, Shape, Locking, NEW l \in Link, LinkStep(l)
  PROVE  Locking'
  <1>0. Domains /\ FlagHasOwner /\ Position(l) /\ Holds(l) /\ None \notin Link
    BY Constants, Zenon DEF Control, Locking
  <1>a. Holds(l)' => Locking'
    BY FrameOfLink, LockingOfLink, Zenon
  <1>1. ASSUME NEW t \in Types, NEW c \in Counts, NewUpload(l, t, c) PROVE Locking'
    BY <1>0, <1>a, <1>1, Zenon DEF NewUpload, Holds, Saving, transfer, thread
  <1>2. CASE CountTest(l)
    <2>1. pc'[l] = "claim" /\ state'[l] = "IDLE" /\ transfer_seq' = transfer_seq
      BY <1>0, <1>2, Zenon DEF CountTest, Domains, Position, Holds, transfer
    <2>2. transfer_seq'[l] \in Nat
      BY <1>0, <2>1, Zenon DEF Holds
    <2> QED BY <1>a, <2>1, <2>2, HoldsNothing, Zenon DEF Saving
  <1>3. CASE CountTooMany(l)
    <2>1. pc'[l] = "loop" /\ state'[l] = "IDLE" /\ transfer_seq' = transfer_seq
      BY <1>0, <1>3, Zenon DEF CountTooMany, Domains, Position, Holds, return
    <2>2. transfer_seq'[l] \in Nat
      BY <1>0, <2>1, Zenon DEF Holds
    <2> QED BY <1>a, <2>1, <2>2, HoldsNothing, Zenon DEF Saving
  <1>4. CASE CountZero(l)
    <2>1. pc'[l] = "save" /\ state'[l] = "IDLE" /\ call'[l].then = "count" /\ transfer_seq' = transfer_seq
      BY <1>0, <1>4 DEF CountZero, Domains, Position, Holds, update, update_active_mission, update_points_count
    <2>2. transfer_seq'[l] \in Nat
      BY <1>0, <2>1, Zenon DEF Holds
    <2> QED BY <1>a, <2>1, <2>2, HoldsNothing, Zenon DEF Saving
  <1>5. CASE CountOpen(l)
    <2>1. /\ transfer_seq'[l] = 0 /\ mission_type'[l] = call[l].type /\ fence_lock' = fence_lock /\ fence_lock # l
          /\ pc'[l] = IF call[l].type = "fence" THEN "lock" ELSE "loop"
      BY <1>0, <1>5, Zenon DEF CountOpen, Domains, Position, FlagHasOwner
    <2>2. 0 \in Nat
      OBVIOUS
    <2> QED BY <1>a, <2>1, <2>2, Zenon DEF Holds, Saving
  <1>6. CASE LockFence(l)
    <2>1. fence_lock' = l /\ pc'[l] = "loop" /\ UNCHANGED transfer_seq
      BY <1>0, <1>6, Zenon DEF LockFence, return, transfer, Domains
    <2> QED BY <1>0, <1>a, <2>1, Zenon DEF Holds, Saving
  <1>7. ASSUME NEW k \in Cells, ItemFewVertices(l, k) PROVE Locking'
    <2>1. /\ pc[l] = "loop" /\ pc'[l] = "save" /\ call'[l].key = mission_type[l]
          /\ UNCHANGED <<transfer_seq, state, mission_type, fence_lock>>
      BY <1>0, <1>7 DEF ItemFewVertices, Expected, update_points_count, transfer, Domains
    <2> QED BY <1>0, <1>a, <2>1, Zenon DEF Holds, Saving
  <1>8. ASSUME NEW k \in Cells, ItemDuplicate(l, k) PROVE Locking'
    <2>1. pc'[l] = "loop" /\ state'[l] = "IDLE" /\ transfer_seq' = transfer_seq
      BY <1>0, <1>8, Zenon DEF ItemDuplicate, Domains, Position, Holds, thread, transfer
    <2>2. transfer_seq'[l] \in Nat
      BY <1>0, <2>1, Zenon DEF Holds
    <2> QED BY <1>a, <2>1, <2>2, HoldsNothing, Zenon DEF Saving
  <1>9. ASSUME NEW k \in Cells, ItemRefused(l, k) PROVE Locking'
    <2>1. pc'[l] = "loop" /\ state'[l] = "IDLE" /\ transfer_seq' = transfer_seq
      BY <1>0, <1>9, Zenon DEF ItemRefused, Domains, Position, Holds, Expected, GiveUp, switch_to_idle_state, thread
    <2>2. transfer_seq'[l] \in Nat
      BY <1>0, <2>1, Zenon DEF Holds
    <2> QED BY <1>a, <2>1, <2>2, HoldsNothing, Zenon DEF Saving
  <1>10. CASE Timeout(l)
    <2>1. pc'[l] = "loop" /\ state'[l] = "IDLE" /\ transfer_seq' = transfer_seq
      BY <1>0, <1>10, Zenon DEF Timeout, Domains, Position, Holds, GiveUp, switch_to_idle_state, thread
    <2>2. transfer_seq'[l] \in Nat
      BY <1>0, <2>1, Zenon DEF Holds
    <2> QED BY <1>a, <2>1, <2>2, HoldsNothing, Zenon DEF Saving
  <1>11. ASSUME NEW t \in Types \cup {"all"}, ClearAll(l, t) PROVE Locking'
    <2>1. pc'[l] = "save" /\ state'[l] = "IDLE" /\ call'[l].then \in {"all", "clear"} /\ transfer_seq' = transfer_seq
      BY <1>0, <1>11 DEF ClearAll, Domains, Position, Holds, update, update_active_mission, update_points_count
    <2>2. transfer_seq'[l] \in Nat
      BY <1>0, <2>1, Zenon DEF Holds
    <2> QED BY <1>a, <2>1, <2>2, HoldsNothing, Zenon DEF Saving
  <1>12. CASE SetCurrent(l)
    <2>1. pc'[l] = "save" /\ state'[l] = "IDLE" /\ call'[l].then = "current" /\ transfer_seq' = transfer_seq
      BY <1>0, <1>12 DEF SetCurrent, Domains, Position, Holds, update_active_mission, transfer
    <2>2. transfer_seq'[l] \in Nat
      BY <1>0, <2>1, Zenon DEF Holds
    <2> QED BY <1>a, <2>1, <2>2, HoldsNothing, Zenon DEF Saving
  <1>13. ASSUME NEW t \in Types, RequestList(l, t) PROVE Locking'
    <2>1. pc'[l] \in {"loop", "load"} /\ state'[l] = "SENDLIST" /\ transfer_seq'[l] \in {0, transfer_seq[l]}
      BY <1>0, <1>13, Zenon DEF RequestList, Domains, Position, Holds, StartDownload
    <2>2. transfer_seq'[l] \in Nat
      BY <1>0, <2>1 DEF Holds
    <2> QED BY <1>a, <2>1, <2>2, HoldsNothing, Zenon DEF Saving
  <1>14. CASE Load(l)
    <2>1. pc'[l] = "loaded" /\ state'[l] = "SENDLIST" /\ transfer_seq' = transfer_seq
      BY <1>0, <1>14, Zenon DEF Load, Domains, Position, Holds, transfer
    <2>2. transfer_seq'[l] \in Nat
      BY <1>0, <2>1, Zenon DEF Holds
    <2> QED BY <1>a, <2>1, <2>2, HoldsNothing, Zenon DEF Saving
  <1>15. CASE Loaded(l)
    <2>1. pc'[l] = "loop" /\ state'[l] = "SENDLIST" /\ transfer_seq'[l] = 0
      BY <1>0, <1>15, Zenon DEF Loaded, Domains, Position, Holds, StartDownload, return
    <2>2. transfer_seq'[l] \in Nat
      BY <1>0, <2>1 DEF Holds
    <2> QED BY <1>a, <2>1, <2>2, HoldsNothing, Zenon DEF Saving
  <1>16. ASSUME NEW k \in Cells, Request(l, k) PROVE Locking'
    <2>1. pc'[l] = "loop" /\ state'[l] # "GETLIST" /\ transfer_seq'[l] \in {transfer_seq[l], transfer_seq[l] + 1}
      BY <1>0, <1>16 DEF Request, Domains, Position, Holds, switch_to_idle_state, thread
    <2>2. transfer_seq'[l] \in Nat
      BY <1>0, <2>1 DEF Holds
    <2> QED BY <1>a, <2>1, <2>2, HoldsNothing, Zenon DEF Saving
  <1>17. CASE DownloadAck(l)
    <2>1. pc'[l] = "loop" /\ state'[l] = "IDLE" /\ transfer_seq' = transfer_seq
      BY <1>0, <1>17, Zenon DEF DownloadAck, Domains, Position, Holds, switch_to_idle_state, thread
    <2>2. transfer_seq'[l] \in Nat
      BY <1>0, <2>1, Zenon DEF Holds
    <2> QED BY <1>a, <2>1, <2>2, HoldsNothing, Zenon DEF Saving
  <1>18. ASSUME NEW k \in Cells, Item(l, k) PROVE Locking'
    <2>1. /\ pc[l] = "loop" /\ up[l].type = mission_type[l] /\ transfer_seq'[l] = k + 1
          /\ UNCHANGED <<state, mission_type, fence_lock>>
      BY <1>0, <1>18, Zenon DEF Item, Expected, Domains
    <2>2. pc'[l] = "loop" \/ (pc'[l] = "save" /\ call'[l].key = mission_type[l])
      BY <1>0, <1>18, <2>1 DEF Item, Domains, update, update_active_mission, update_points_count
    <2>3. k + 1 \in Nat
      BY Constants DEF Cells
    <2> QED BY <1>0, <1>a, <2>1, <2>2, <2>3, Zenon DEF Holds, Saving
  <1>19. CASE Save(l)
    <2>1. /\ pc[l] = "save" /\ pc'[l] = "saved"
          /\ UNCHANGED <<state, mission_type, transfer_seq, call, fence_lock>>
      BY <1>0, <1>19, Zenon DEF Save, Domains, transfer
    <2> QED BY <1>0, <1>a, <2>1, Zenon DEF Holds, Saving
  <1>20. CASE SaveFails(l)
    BY <1>a, <1>20, FinishReleases, Zenon DEF SaveFails, Saving
  <1>21. CASE Saved(l)
    BY <1>a, <1>21, FinishReleases, Zenon DEF Saved, Saving
  <1>22. CASE Handle(l)
    BY <1>22, <1>2, <1>7, <1>8, <1>9, <1>11, <1>12, <1>13, <1>16, <1>17, <1>18, Zenon DEF Handle
  <1>23. CASE Proceed(l)
    BY <1>23, <1>3, <1>4, <1>5, <1>6, <1>14, <1>15, <1>19, <1>20, <1>21, Zenon DEF Proceed
  <1> QED BY <1>1, <1>10, <1>22, <1>23, Zenon DEF LinkStep

-----------------------------------------------------------------------------
(* The fence.                                                              *)

\* No point has been overwritten since the stats were written.
Intact == fence_lock = None \/ transfer_seq[fence_lock] = 0

\* Link l is about to write the stats of the fence.
Writes(l) == pc[l] = "save" /\ call[l].key = "fence"

\* Link l has written the stats of its fence, or of none, and still holds the lock.
Wrote(l) == pc[l] = "saved" /\ call[l].key = "fence" /\ call[l].then \in {"item", "few"}

\* What link l has received of a list is what its ground station is sending, and
\* the points received are in the file; stats are written of all of them or of none.
Gathers(l) ==
  /\ pc[l] = "claim" => call[l] = up[l] /\ up[l] # None
  /\ state[l] = "GETLIST" =>
       /\ up[l] # None /\ mission_type[l] = up[l].type /\ transfer_count[l] = up[l].count
       /\ up[l].count \in 1..MaxCount /\ transfer_seq[l] \in 0..up[l].count
  /\ state[l] = "GETLIST" /\ mission_type[l] = "fence" =>
       \A k \in 0..(transfer_seq[l] - 1) : points["fence"][k] = up[l]
  /\ Saving(l) /\ call[l].key = "fence" =>
       IF call[l].then = "item" THEN call[l].count = up[l].count /\ transfer_seq[l] = up[l].count
       ELSE call[l].count = 0
  /\ Wrote(l) => Whole(points["fence"], stats["fence"].num)

FenceCourse ==
  /\ \A l \in Link : Gathers(l)
  /\ ~torn /\ Intact => Whole(points["fence"], stats["fence"].num)

\* Nobody is about to write a counter that the file or the navigator has, or that
\* another link is about to write.
Numbered ==
  /\ update_counter["fence"] \in Nat
  /\ nav.counter \in 0..update_counter["fence"] /\ stats["fence"].counter \in 0..update_counter["fence"]
  /\ \A l \in Link : Writes(l) =>
       /\ call[l].id \in 0..update_counter["fence"]
       /\ call[l].id # nav.counter /\ call[l].id # stats["fence"].counter
  /\ \A l, m \in Link : Writes(l) /\ Writes(m) /\ call[l].id = call[m].id => l = m

Reload ==
  /\ Numbered
  /\ \A l \in Link : Wrote(l) => nav.counter # stats["fence"].counter
  /\ ~torn /\ Intact /\ nav.counter = stats["fence"].counter => nav = updateFence

-----------------------------------------------------------------------------
\* A step after which the fence in the file is as before, and counts only if it
\* did before or its stats had just been written.
Kept(l) ==
  /\ points'["fence"] = points["fence"] /\ stats'["fence"] = stats["fence"]
  /\ ~Wrote(l)'
  /\ ~torn' /\ Intact' => (~torn /\ Intact) \/ Wrote(l)

\* The counter is incremented for a write.
Counted(l) ==
  \/ update_counter'["fence"] = update_counter["fence"] /\ ~Writes(l)'
  \/ /\ update_counter'["fence"] = update_counter["fence"] + 1
     /\ call'[l].id = update_counter["fence"] + 1

\* What is left to show of such a step.
LEMMA CourseOfFence ==
  ASSUME FenceCourse, NEW l \in Link, Elsewhere(l), Kept(l), Gathers(l)'
  PROVE  FenceCourse'
  <1>1. ASSUME NEW m \in Link \ {l} PROVE Gathers(m)'
    <2>1. /\ Gathers(m) /\ state'[m] = state[m] /\ mission_type'[m] = mission_type[m]
          /\ pc'[m] = pc[m] /\ call'[m] = call[m] /\ transfer_seq'[m] = transfer_seq[m]
          /\ transfer_count'[m] = transfer_count[m] /\ up'[m] = up[m]
      BY Zenon DEF FenceCourse, Elsewhere, Untouched
    <2>2. (Saving(m)' <=> Saving(m)) /\ (Wrote(m)' <=> Wrote(m))
      BY <2>1, Zenon DEF Saving, Wrote
    <2> QED BY <2>1, <2>2, Zenon DEF Gathers, Kept
  <1>2. ASSUME ~torn', Intact' PROVE Whole(points'["fence"], stats'["fence"].num)
    <2>1. (~torn /\ Intact) \/ Wrote(l)
      BY <1>2, Zenon DEF Kept
    <2>2. Whole(points["fence"], stats["fence"].num)
      BY <2>1, Zenon DEF FenceCourse, Gathers
    <2> QED BY <2>2, Zenon DEF Kept
  <1> QED BY <1>1, <1>2, Zenon DEF FenceCourse

\* The counters after a step of link l that leaves those of the file and of the navigator.
LEMMA NumberedOfLink ==
  ASSUME Numbered, NEW l \in Link, Elsewhere(l), Beside(l), Counted(l), stats'["fence"] = stats["fence"]
  PROVE  Numbered'
  <1> DEFINE n == update_counter["fence"]
  <1>1. /\ n \in Nat /\ nav.counter \in 0..n /\ stats["fence"].counter \in 0..n /\ nav' = nav
        /\ n + 1 \in Nat /\ n + 1 \notin 0..n /\ n + 1 \in 0..(n + 1) /\ 0..n \subseteq 0..(n + 1)
    BY DEF Numbered, Beside
  <1>2. \A m \in Link \ {l} : pc'[m] = pc[m] /\ call'[m] = call[m]
    BY Zenon DEF Elsewhere, Untouched
  <1>3. \A m \in Link \ {l} : (Writes(m)' <=> Writes(m)) /\ (Writes(m) => call[m].id \in 0..n)
    BY <1>2, Zenon DEF Writes, Numbered
  <1>4. CASE update_counter'["fence"] = n /\ ~Writes(l)'
    BY <1>1, <1>2, <1>3, <1>4, Zenon DEF Numbered
  <1>5. CASE update_counter'["fence"] = n + 1 /\ call'[l].id = n + 1
    <2> HIDE DEF n
    <2>1. call'[l].id # nav.counter /\ call'[l].id # stats["fence"].counter
      BY <1>1, <1>5, Zenon
    <2>2. \A m \in Link \ {l} : Writes(m)' => call'[m].id \in 0..n /\ call'[m].id # call'[l].id
      BY <1>1, <1>2, <1>3, <1>5, Zenon
    <2>3. \A m \in Link : Writes(m)' =>
            /\ call'[m].id \in 0..(n + 1)
            /\ call'[m].id # nav.counter /\ call'[m].id # stats["fence"].counter
      BY <1>1, <1>2, <1>3, <1>5, <2>1, <2>2, Zenon DEF Numbered
    <2>4. \A k, m \in Link : Writes(k)' /\ Writes(m)' /\ call'[k].id = call'[m].id => k = m
      BY <1>2, <1>3, <2>2, Zenon DEF Numbered
    <2> QED BY <1>1, <1>5, <2>3, <2>4, Zenon DEF Numbered
  <1> QED BY <1>4, <1>5, Zenon DEF Counted

\* And what the navigator has of the fence.
LEMMA ReloadOfLink ==
  ASSUME Reload, NEW l \in Link, Elsewhere(l), Beside(l), Kept(l), Counted(l)
  PROVE  Reload'
  <1>1. Numbered'
    BY NumberedOfLink, Zenon DEF Reload, Kept
  <1>2. stats'["fence"] = stats["fence"] /\ points'["fence"] = points["fence"] /\ nav' = nav /\ ~Wrote(l)'
    BY Zenon DEF Kept, Beside
  <1>3. \A m \in Link \ {l} : Wrote(m)' <=> Wrote(m)
    BY Zenon DEF Wrote, Elsewhere, Untouched
  <1>4. updateFence' = updateFence
    BY <1>2, Zenon DEF updateFence
  <1>5. \A m \in Link : Wrote(m)' => nav'.counter # stats'["fence"].counter
    BY <1>2, <1>3, Zenon DEF Reload
  <1>6. ~torn' /\ Intact' /\ nav'.counter = stats'["fence"].counter => nav' = updateFence'
    BY <1>2, <1>4, Zenon DEF Reload, Kept
  <1> QED BY <1>1, <1>5, <1>6, Zenon DEF Reload

-----------------------------------------------------------------------------
\* What is shown of the steps that write neither points nor stats of the fence.
Fine(l) ==
  /\ Kept(l)
  /\ FenceCourse => Gathers(l)'
  /\ "load" \notin slip' => Counted(l)

\* A step of a link that does not hold the lock.
Aside(l) ==
  /\ fence_lock # l /\ fence_lock' = fence_lock /\ (torn => torn')
  /\ points'["fence"] = points["fence"] /\ stats'["fence"] = stats["fence"]

\* It leaves the fence as it is.
LEMMA AsideKeeps ==
  ASSUME Control, NEW l \in Link, Elsewhere(l), Aside(l), ~Wrote(l)'
  PROVE  Kept(l)
  <1>1. fence_lock \in Link \cup {None}
    BY Zenon DEF Control, Domains
  <1>2. Intact' => Intact
    BY <1>1, Zenon DEF Intact, Aside, Elsewhere
  <1> QED BY <1>2, Zenon DEF Kept, Aside

\* The lock is held for a fence only.
LEMMA NotHeld ==
  ASSUME Control, NEW l \in Link, state[l] # "GETLIST" \/ mission_type[l] # "fence"
  PROVE  fence_lock # l
  BY Constants, Zenon DEF Control, FlagHasOwner

\* The call with which an update of the mission state begins; no counter changes.
LEMMA MissionBegins ==
  ASSUME Control, NEW l \in Link, NEW id, NEW n, NEW of, NEW then, update_active_mission(l, id, n, of, then)
  PROVE  /\ pc'[l] = "save" /\ call'[l].key = "mission" /\ call'[l].then = then
         /\ UNCHANGED update_counter
  BY DEF update_active_mission, Control, Domains

\* The call with which the update of the stats of points begins.
Begun(l, t, n, then) ==
  /\ pc'[l] = "save" /\ call'[l].key = t /\ call'[l].then = then /\ call'[l].count = n
  /\ t = "fence" => /\ update_counter'["fence"] = update_counter["fence"] + 1
                    /\ call'[l].id = update_counter["fence"] + 1
  /\ t # "fence" => update_counter'["fence"] = update_counter["fence"]

\* The counter of the fence is incremented for its stats, and for no others.
LEMMA PointsBegin ==
  ASSUME Control, Shape, NEW l \in Link, NEW t, NEW n, NEW of, NEW then, update_points_count(l, t, n, of, then)
  PROVE  Begun(l, t, n, then)
  <1>1. "fence" \in PointTypes
    BY Constants, Zenon DEF PointTypes
  <1>2. /\ pc'[l] = "save" /\ call'[l].key = t /\ call'[l].then = then /\ call'[l].count = n
        /\ call'[l].id = update_counter[t] + 1
    BY DEF update_points_count, Control, Domains
  <1>3. IF t = "fence" THEN update_counter'["fence"] = update_counter["fence"] + 1
        ELSE update_counter'["fence"] = update_counter["fence"]
    BY <1>1, Zenon DEF update_points_count, Shape
  <1> QED BY <1>2, <1>3, Zenon DEF Begun

\* A step of such a link after which it writes nothing and receives nothing.
LEMMA FineRest ==
  ASSUME Control, NEW l \in Link, Elsewhere(l), Aside(l),
         pc'[l] \notin {"claim", "save", "saved"}, state'[l] # "GETLIST",
         "load" \notin slip' => UNCHANGED update_counter
  PROVE  Fine(l)
  <1>1. ~Wrote(l)' /\ ~Writes(l)' /\ Gathers(l)'
    BY Zenon DEF Wrote, Writes, Gathers, Saving
  <1> QED BY <1>1, AsideKeeps, Zenon DEF Fine, Counted

\* A step with which such a link begins an update: the fence can only be cleared.
LEMMA FineBegin ==
  ASSUME Control, NEW l \in Link, Elsewhere(l), Aside(l), pc'[l] = "save", state'[l] # "GETLIST",
         IF call'[l].key = "fence"
         THEN /\ call'[l].then # "item" /\ call'[l].count = 0
              /\ update_counter'["fence"] = update_counter["fence"] + 1
              /\ call'[l].id = update_counter["fence"] + 1
         ELSE update_counter'["fence"] = update_counter["fence"]
  PROVE  Fine(l)
  <1>1. ~Wrote(l)' /\ Gathers(l)'
    BY Zenon DEF Wrote, Gathers, Saving
  <1>2. Counted(l)
    BY Zenon DEF Counted, Writes
  <1> QED BY <1>1, <1>2, AsideKeeps, Zenon DEF Fine

\* The lock is released: the fence is torn if points had been overwritten, unless
\* the stats had been written.
LEMMA FineRelease ==
  ASSUME Control, Locking, NEW l \in Link, fence_lock = l, fence_lock' = None,
         Wrote(l) \/ (torn' <=> torn \/ Halfway(l)),
         UNCHANGED <<points, stats, update_counter>>, pc'[l] = "loop", state'[l] # "GETLIST"
  PROVE  Fine(l)
  <1>1. ~Wrote(l)' /\ ~Writes(l)' /\ Gathers(l)'
    BY Zenon DEF Wrote, Writes, Gathers, Saving
  <1>2. state[l] = "GETLIST" /\ mission_type[l] = "fence" /\ transfer_seq[l] \in Nat
    BY Constants, Zenon DEF Control, FlagHasOwner, Locking, Holds
  <1>3. ~Halfway(l) => transfer_seq[l] = 0
    BY <1>2 DEF Halfway
  <1> QED BY <1>1, <1>3, Zenon DEF Fine, Kept, Intact, Counted

\* What follows a write.
LEMMA FinishIsFine ==
  ASSUME Control, Locking, NEW l \in Link, Saving(l), NEW ok \in BOOLEAN, Finish(l, ok),
         ok <=> pc[l] = "saved", Elsewhere(l), Shape, UNCHANGED <<points, stats>>
  PROVE  Fine(l)
  <1>0. Domains /\ Position(l) /\ Holds(l) /\ None \notin Link
    BY Constants, Zenon DEF Control, Locking
  <1>1. CASE FinishCount(l, ok)
    <2>1. state[l] = "IDLE" /\ state' = state /\ pc'[l] = "loop" /\ UNCHANGED <<fence_lock, torn, update_counter>>
      BY <1>0, <1>1, Zenon DEF FinishCount, return, Position, Domains
    <2> QED BY <2>1, NotHeld, FineRest, Zenon DEF Aside
  <1>2. CASE FinishItem(l, ok) \/ FinishFewVertices(l, ok)
    <2>1. /\ state'[l] = "IDLE" /\ pc'[l] = "loop" /\ UNCHANGED update_counter
          /\ fence_lock' = IF fence_lock = l THEN None ELSE fence_lock
          /\ torn' <=> torn \/ (~ok /\ Halfway(l))
          /\ call[l].then \in {"item", "few"}
      BY <1>0, <1>2, Zenon DEF FinishItem, FinishFewVertices, return, switch_to_idle_state, Tear, Domains
    <2>2. CASE fence_lock = l
      <3>1. ok => Wrote(l)
        BY <1>0, <2>1, <2>2, Zenon DEF Wrote, Holds, Control, FlagHasOwner
      <3> QED BY <2>1, <2>2, <3>1, FineRelease, Zenon
    <2>3. CASE fence_lock # l
      BY <2>1, <2>3, FineRest, Zenon DEF Aside
    <2> QED BY <2>2, <2>3, Zenon
  <1>3. CASE FinishClear(l)
    <2>1. /\ state[l] = "IDLE" /\ state' = state /\ UNCHANGED <<fence_lock, torn>>
          /\ \/ pc'[l] = "loop" /\ UNCHANGED update_counter
             \/ /\ pc'[l] = "save" /\ call'[l].then = "all" /\ call'[l].count = 0
                /\ IF call'[l].key = "fence"
                   THEN /\ update_counter'["fence"] = update_counter["fence"] + 1
                        /\ call'[l].id = update_counter["fence"] + 1
                   ELSE update_counter'["fence"] = update_counter["fence"]
      <3>1. state[l] = "IDLE" /\ state' = state /\ UNCHANGED <<fence_lock, torn>>
        BY <1>0, <1>3, Zenon DEF FinishClear, Position
      <3>2. CASE return(l) /\ UNCHANGED update_counter
        BY <1>0, <3>1, <3>2, Zenon DEF return, Domains
      <3>3. ASSUME NEW t, t \in {"fence", "rally"}, update_points_count(l, t, 0, None, "all")
            PROVE  /\ pc'[l] = "save" /\ call'[l].then = "all" /\ call'[l].count = 0
                   /\ IF call'[l].key = "fence"
                      THEN /\ update_counter'["fence"] = update_counter["fence"] + 1
                           /\ call'[l].id = update_counter["fence"] + 1
                      ELSE update_counter'["fence"] = update_counter["fence"]
        <4>1. Begun(l, t, 0, "all")
          BY <3>3, PointsBegin, Zenon
        <4> QED BY <4>1, Zenon DEF Begun
      <3> QED BY <1>3, <3>1, <3>2, <3>3, Zenon DEF FinishClear
    <2>2. Aside(l)
      BY <2>1, NotHeld, Zenon DEF Aside
    <2>3. CASE pc'[l] = "loop" /\ UNCHANGED update_counter
      BY <2>1, <2>2, <2>3, FineRest, Zenon
    <2>4. CASE ~(pc'[l] = "loop" /\ UNCHANGED update_counter)
      BY <2>1, <2>2, <2>4, FineBegin, Zenon
    <2> QED BY <2>3, <2>4, Zenon
  <1> QED BY <1>1, <1>2, <1>3, Zenon DEF Finish

-----------------------------------------------------------------------------
\* A transfer is given up: if it is the holder's, the lock is released.
LEMMA GiveUpIsFine ==
  ASSUME Control, Locking, NEW l \in Link, GiveUp(l), Elsewhere(l), pc[l] = "loop",
         UNCHANGED <<pc, points, stats, update_counter>>
  PROVE  Fine(l)
  <1>1. /\ state'[l] = "IDLE" /\ pc'[l] = "loop"
        /\ fence_lock' = IF fence_lock = l THEN None ELSE fence_lock
        /\ torn' <=> torn \/ Halfway(l)
    BY Zenon DEF Control, Domains, GiveUp, switch_to_idle_state, Tear
  <1>2. CASE fence_lock = l
    BY <1>1, <1>2, FineRelease, Zenon
  <1>3. CASE fence_lock # l
    BY <1>1, <1>3, FineRest, Zenon DEF Aside
  <1> QED BY <1>2, <1>3, Zenon

\* The count of a list that is not empty: nothing has been received yet.
LEMMA OpenIsFine ==
  ASSUME Control, NEW l \in Link, CountOpen(l), Elsewhere(l)
  PROVE  Fine(l)
  <1>0. Domains /\ Position(l)
    BY Zenon DEF Control
  <1>1. /\ pc[l] = "claim" /\ state[l] = "IDLE" /\ call[l].count \in 1..MaxCount
        /\ pc'[l] \in {"lock", "loop"} /\ mission_type'[l] = call[l].type
        /\ transfer_seq'[l] = 0 /\ transfer_count'[l] = call[l].count
        /\ UNCHANGED <<up, update_counter, points, stats, fence_lock, torn>>
    BY <1>0, Zenon DEF CountOpen, Position, Domains, gcs, file
  <1>2. Aside(l) /\ ~Wrote(l)' /\ ~Writes(l)'
    BY <1>1, NotHeld, Zenon DEF Aside, Wrote, Writes
  <1>3. ASSUME FenceCourse PROVE Gathers(l)'
    <2>1. call[l] = up[l] /\ up[l] # None
      BY <1>1, <1>3, Zenon DEF FenceCourse, Gathers
    <2>2. 0 \in 0..up[l].count /\ \A k \in 0..(0 - 1) : FALSE
      BY <1>1, <2>1, Constants
    <2> QED BY <1>1, <1>2, <2>1, <2>2, Zenon DEF Gathers, Saving
  <1> QED BY <1>1, <1>2, <1>3, AsideKeeps, Zenon DEF Fine, Counted

\* The lock is taken before the first point is written.
LEMMA LockIsFine ==
  ASSUME Control, Locking, NEW l \in Link, LockFence(l)
  PROVE  Fine(l)
  <1>1. /\ pc[l] = "lock" /\ pc'[l] = "loop" /\ fence_lock = None /\ fence_lock' = l /\ transfer_seq[l] = 0
        /\ UNCHANGED <<up, state, mission_type, transfer_seq, transfer_count, update_counter, points, stats, torn>>
    BY Zenon DEF Control, Domains, Locking, Holds, LockFence, return, gcs, statics, transfer, file, history
  <1>2. Kept(l) /\ ~Wrote(l)' /\ ~Writes(l)' /\ ~Saving(l)'
    BY <1>1, Zenon DEF Kept, Intact, Wrote, Writes, Saving
  <1>3. Gathers(l) => Gathers(l)'
    BY <1>1, <1>2, Zenon DEF Gathers
  <1> QED BY <1>1, <1>2, <1>3, Zenon DEF Fine, Counted, FenceCourse

\* A polygon with too few vertices: the fence will be cleared.
LEMMA FewIsFine ==
  ASSUME Control, Shape, NEW l \in Link, NEW k \in Cells, ItemFewVertices(l, k)
  PROVE  Fine(l)
  <1>0. Domains /\ "fence" \in PointTypes
    BY Constants, Zenon DEF Control, PointTypes
  <1>1. /\ pc'[l] = "save" /\ call'[l].then = "few" /\ call'[l].count = 0
        /\ update_counter'["fence"] = update_counter["fence"] + 1
        /\ call'[l].id = update_counter["fence"] + 1
    <2>1. Begun(l, "fence", 0, "few")
      BY PointsBegin, Zenon DEF ItemFewVertices
    <2> QED BY <2>1, Zenon DEF Begun
  <1>2. UNCHANGED <<up, state, mission_type, transfer_seq, transfer_count, points, stats, fence_lock, torn>>
    BY Zenon DEF ItemFewVertices, gcs, transfer, file, history
  <1>3. Kept(l) /\ ~Wrote(l)'
    BY <1>1, <1>2, Zenon DEF Kept, Intact, Wrote
  <1>4. Gathers(l) => Gathers(l)'
    BY <1>1, <1>2, <1>3, Zenon DEF Gathers
  <1> QED BY <1>1, <1>3, <1>4, Zenon DEF Fine, Counted, FenceCourse

\* An item of another list.
LEMMA ItemIsFine ==
  ASSUME Control, Shape, NEW l \in Link, NEW k \in Cells, Item(l, k), up[l].type # "fence", Elsewhere(l)
  PROVE  Fine(l)
  <1>0. Domains /\ k \in Nat /\ "fence" \in PointTypes
    BY Constants DEF Control, Cells, PointTypes
  <1>1. /\ state[l] = "GETLIST" /\ mission_type[l] = up[l].type /\ pc[l] = "loop"
        /\ k < up[l].count /\ transfer_seq'[l] = k + 1
        /\ UNCHANGED <<up, state, mission_type, transfer_count, stats, fence_lock, torn>>
    BY <1>0, Zenon DEF Item, Expected, Domains
  <1>2. points'["fence"] = points["fence"]
    BY <1>0, Zenon DEF Item, Shape
  <1>3. fence_lock # l
    BY <1>1, NotHeld, Zenon
  <1>4. (pc'[l] = "loop" \/ call'[l].key # "fence") /\ update_counter'["fence"] = update_counter["fence"]
        /\ pc'[l] \in {"loop", "save"}
    <2>1. CASE k + 1 # transfer_count[l]
      BY <1>1, <2>1, Zenon DEF Item
    <2>2. CASE k + 1 = transfer_count[l] /\ up[l].type = "mission"
      <3>1. update_active_mission(l, transfer_dataman_id[l], k + 1, up[l], "item")
        BY <2>2, Zenon DEF Item, update
      <3> QED BY <3>1, MissionBegins, Zenon
    <2>3. CASE k + 1 = transfer_count[l] /\ up[l].type # "mission"
      <3>1. Begun(l, up[l].type, k + 1, "item")
        BY <2>3, PointsBegin, Zenon DEF Item, update
      <3> QED BY <3>1, Zenon DEF Begun
    <2> QED BY <2>1, <2>2, <2>3, Zenon
  <1>5. Aside(l) /\ ~Wrote(l)' /\ ~Writes(l)'
    BY <1>1, <1>2, <1>3, <1>4, Zenon DEF Aside, Wrote, Writes
  <1>6. ASSUME FenceCourse PROVE Gathers(l)'
    <2>1. up[l] # None /\ transfer_count[l] = up[l].count /\ up[l].count \in 1..MaxCount
      BY <1>1, <1>6, Zenon DEF FenceCourse, Gathers
    <2>2. k + 1 \in 0..up[l].count
      BY <1>0, <1>1, <2>1, Constants
    <2> QED BY <1>1, <1>4, <1>5, <2>1, <2>2, Zenon DEF Gathers, Saving
  <1> QED BY <1>4, <1>5, <1>6, AsideKeeps, Zenon DEF Fine, Counted

\* The write of another state.
LEMMA SaveIsFine ==
  ASSUME Control, Shape, Locking, NEW l \in Link, Save(l), call[l].key # "fence", Elsewhere(l)
  PROVE  Fine(l)
  <1>0. Domains /\ Position(l) /\ Holds(l) /\ "fence" \in PointTypes
    BY Constants, Zenon DEF Control, Locking, PointTypes
  <1>1. /\ pc[l] = "save" /\ pc'[l] = "saved"
        /\ UNCHANGED <<up, state, mission_type, transfer_seq, transfer_count, call, points, update_counter, fence_lock>>
    BY <1>0, Zenon DEF Save, Domains, gcs, statics, transfer
  <1>2. stats'["fence"] = stats["fence"] /\ (torn => torn')
    BY <1>0, Zenon DEF Save, Mend, Shape
  <1>3. state[l] # "GETLIST" \/ mission_type[l] # "fence"
    BY <1>0, <1>1, Zenon DEF Position, Holds, Saving
  <1>4. Aside(l) /\ ~Wrote(l)' /\ ~Writes(l)'
    BY <1>1, <1>2, <1>3, NotHeld, Zenon DEF Aside, Wrote, Writes
  <1>5. Gathers(l) => Gathers(l)'
    BY <1>1, <1>3, <1>4, Zenon DEF Gathers, Saving
  <1> QED BY <1>1, <1>4, <1>5, AsideKeeps, Zenon DEF Fine, Counted, FenceCourse

-----------------------------------------------------------------------------
\* The steps that write a point, or the stats, of the fence.
WritesPoint(l) == \E k \in Cells : Item(l, k) /\ up[l].type = "fence"
WritesStats(l) == Save(l) /\ call[l].key = "fence"

\* All others leave the fence alone.
LEMMA FineStep ==
  ASSUME Control, Shape, Locking, "restart" \notin slip', NEW l \in Link, LinkStep(l)
  PROVE  Fine(l) \/ WritesPoint(l) \/ WritesStats(l)
  <1>0. Domains /\ Position(l) /\ Elsewhere(l) /\ "fence" \in PointTypes
    BY Constants, FrameOfLink, Zenon DEF Control, PointTypes
  <1>a. ASSUME state[l] # "GETLIST", fence_lock' = fence_lock, torn' = torn,
               points' = points, stats' = stats
        PROVE  Aside(l)
    BY <1>a, NotHeld, Zenon DEF Aside
  <1>1. ASSUME NEW t \in Types, NEW c \in Counts, NewUpload(l, t, c) PROVE Fine(l)
    <2>1. pc[l] = "loop" /\ state[l] # "GETLIST" /\ UNCHANGED <<pc, state, points, stats, fence_lock, torn, update_counter>>
      BY <1>1, Zenon DEF NewUpload, statics, transfer, thread, file
    <2> QED BY <1>0, <1>a, <2>1, FineRest, Zenon
  <1>2. CASE CountTest(l)
    <2>1. /\ state[l] = "IDLE" /\ pc'[l] = "claim" /\ call'[l] = up[l] /\ up[l] # None
          /\ UNCHANGED <<up, state, points, stats, fence_lock, torn, update_counter>>
      BY <1>0, <1>2, Zenon DEF CountTest, Domains, gcs, statics, transfer, file, history
    <2>2. Aside(l) /\ ~Wrote(l)' /\ ~Writes(l)'
      BY <1>a, <2>1, Zenon DEF Wrote, Writes
    <2>3. Gathers(l)'
      BY <2>1, <2>2, Zenon DEF Gathers, Saving
    <2> QED BY <1>0, <2>1, <2>2, <2>3, AsideKeeps, Zenon DEF Fine, Counted
  <1>3. CASE CountTooMany(l)
    <2>1. state[l] = "IDLE" /\ pc'[l] = "loop" /\ UNCHANGED <<state, points, stats, fence_lock, torn, update_counter>>
      BY <1>0, <1>3, Zenon DEF CountTooMany, return, Domains, Position, file
    <2> QED BY <1>0, <1>a, <2>1, FineRest, Zenon
  <1>4. CASE CountZero(l)
    <2>1. state[l] = "IDLE" /\ UNCHANGED <<state, points, stats, fence_lock, torn>>
      BY <1>0, <1>4, Zenon DEF CountZero, Position, file
    <2>2. /\ pc'[l] = "save"
          /\ IF call'[l].key = "fence"
             THEN /\ call'[l].then = "count" /\ call'[l].count = 0
                  /\ update_counter'["fence"] = update_counter["fence"] + 1
                  /\ call'[l].id = update_counter["fence"] + 1
             ELSE update_counter'["fence"] = update_counter["fence"]
      <3>1. CASE call[l].type = "mission"
        <4>1. update_active_mission(l, Other(dataman_id), 0, call[l], "count")
          BY <1>4, <3>1, Zenon DEF CountZero, update
        <4> QED BY <4>1, MissionBegins, Zenon
      <3>2. CASE call[l].type # "mission"
        <4>1. Begun(l, call[l].type, 0, "count")
          BY <1>4, <3>2, PointsBegin, Zenon DEF CountZero, update
        <4> QED BY <4>1, Zenon DEF Begun
      <3> QED BY <3>1, <3>2, Zenon
    <2> QED BY <1>0, <1>a, <2>1, <2>2, FineBegin, Zenon
  <1>5. CASE CountOpen(l)
    BY <1>0, <1>5, OpenIsFine, Zenon
  <1>6. CASE LockFence(l)
    BY <1>6, LockIsFine, Zenon
  <1>7. ASSUME NEW k \in Cells, ItemFewVertices(l, k) PROVE Fine(l)
    BY <1>7, FewIsFine, Zenon
  <1>8. ASSUME NEW k \in Cells, ItemDuplicate(l, k) PROVE Fine(l)
    <2>1. pc[l] = "loop" /\ state[l] = "IDLE" /\ UNCHANGED <<pc, state, points, stats, fence_lock, torn, update_counter>>
      BY <1>8, Zenon DEF ItemDuplicate, statics, transfer, thread, file
    <2> QED BY <1>0, <1>a, <2>1, FineRest, Zenon
  <1>9. ASSUME NEW k \in Cells, ItemRefused(l, k) PROVE Fine(l)
    BY <1>0, <1>9, GiveUpIsFine, Zenon DEF ItemRefused, Expected, thread, file
  <1>10. CASE Timeout(l)
    BY <1>0, <1>10, GiveUpIsFine, Zenon DEF Timeout, thread, file
  <1>11. ASSUME NEW t \in Types \cup {"all"}, ClearAll(l, t) PROVE Fine(l)
    <2>1. state[l] = "IDLE" /\ UNCHANGED <<state, points, stats, fence_lock, torn>>
      BY <1>11, Zenon DEF ClearAll, file
    <2>2. /\ pc'[l] = "save"
          /\ IF call'[l].key = "fence"
             THEN /\ call'[l].then = "clear" /\ call'[l].count = 0
                  /\ update_counter'["fence"] = update_counter["fence"] + 1
                  /\ call'[l].id = update_counter["fence"] + 1
             ELSE update_counter'["fence"] = update_counter["fence"]
      <3>1. CASE t = "mission" \/ t = "all"
        <4>1. \E then : update_active_mission(l, Other(dataman_id), 0, None, then)
          BY <1>11, <3>1, Zenon DEF ClearAll, update
        <4> QED BY <4>1, MissionBegins, Zenon
      <3>2. CASE t # "mission" /\ t # "all"
        <4>1. Begun(l, t, 0, "clear")
          BY <1>11, <3>2, PointsBegin, Zenon DEF ClearAll, update
        <4> QED BY <4>1, Zenon DEF Begun
      <3> QED BY <3>1, <3>2, Zenon
    <2> QED BY <1>0, <1>a, <2>1, <2>2, FineBegin, Zenon
  <1>12. CASE SetCurrent(l)
    <2>1. state[l] = "IDLE" /\ UNCHANGED <<state, points, stats, fence_lock, torn, update_counter>>
      BY <1>12, Zenon DEF SetCurrent, update_active_mission, transfer, file
    <2>2. pc'[l] = "save" /\ call'[l].key = "mission"
      BY <1>12, MissionBegins, Zenon DEF SetCurrent
    <2> QED BY <1>0, <1>a, <2>1, <2>2, FineBegin, Zenon
  <1>13. ASSUME NEW t \in Types, RequestList(l, t) PROVE Fine(l)
    <2>1. /\ state[l] # "GETLIST" /\ state'[l] = "SENDLIST" /\ pc'[l] \in {"loop", "load"}
          /\ UNCHANGED <<points, stats, fence_lock, torn, update_counter>>
      BY <1>0, <1>13, Zenon DEF RequestList, Domains, statics, file, history
    <2> QED BY <1>0, <1>a, <2>1, FineRest, Zenon
  <1>14. CASE Load(l)
    <2>1. state[l] = "SENDLIST" /\ pc'[l] = "loaded" /\ UNCHANGED <<state, points, stats, fence_lock, torn, update_counter>>
      BY <1>0, <1>14, Zenon DEF Load, Domains, Position, statics, transfer, file, history
    <2> QED BY <1>0, <1>a, <2>1, FineRest, Zenon
  <1>15. CASE Loaded(l)
    <2>1. state[l] = "SENDLIST" /\ pc'[l] = "loop" /\ UNCHANGED <<state, points, stats, fence_lock, torn>>
      BY <1>0, <1>15, Zenon DEF Loaded, return, Domains, Position, file
    <2>2. "load" \notin slip' => UNCHANGED update_counter
      BY <1>15, Zenon DEF Loaded
    <2> QED BY <1>0, <1>a, <2>1, <2>2, FineRest, Zenon
  <1>16. ASSUME NEW k \in Cells, Request(l, k) PROVE Fine(l)
    <2>1. /\ pc[l] = "loop" /\ state[l] = "SENDLIST" /\ state'[l] # "GETLIST"
          /\ fence_lock' = fence_lock \/ fence_lock' = IF fence_lock = l THEN None ELSE fence_lock
          /\ UNCHANGED <<pc, points, stats, torn, update_counter>>
      BY <1>0, <1>16, Zenon DEF Request, switch_to_idle_state, Domains, statics, thread, file, history
    <2>2. fence_lock # l
      BY <2>1, NotHeld, Zenon
    <2> QED BY <1>0, <1>a, <2>1, <2>2, FineRest, Zenon
  <1>17. CASE DownloadAck(l)
    <2>1. /\ pc[l] = "loop" /\ state[l] = "SENDLIST" /\ state'[l] = "IDLE"
          /\ fence_lock' = IF fence_lock = l THEN None ELSE fence_lock
          /\ UNCHANGED <<pc, points, stats, torn, update_counter>>
      BY <1>0, <1>17, Zenon DEF DownloadAck, switch_to_idle_state, Domains, statics, thread, file, history
    <2>2. fence_lock # l
      BY <2>1, NotHeld, Zenon
    <2> QED BY <1>0, <1>a, <2>1, <2>2, FineRest, Zenon
  <1>18. ASSUME NEW k \in Cells, Item(l, k) PROVE Fine(l) \/ WritesPoint(l)
    BY <1>0, <1>18, ItemIsFine, Zenon DEF WritesPoint
  <1>19. CASE Save(l)
    BY <1>0, <1>19, SaveIsFine, Zenon DEF WritesStats
  <1>20. CASE SaveFails(l)
    BY <1>0, <1>20, FinishIsFine, Zenon DEF SaveFails, Saving, file
  <1>21. CASE Saved(l)
    BY <1>0, <1>21, FinishIsFine, Zenon DEF Saved, Saving, file
  <1>22. CASE Handle(l)
    BY <1>22, <1>2, <1>7, <1>8, <1>9, <1>11, <1>12, <1>13, <1>16, <1>17, <1>18, Zenon DEF Handle
  <1>23. CASE Proceed(l)
    BY <1>23, <1>3, <1>4, <1>5, <1>6, <1>14, <1>15, <1>19, <1>20, <1>21, Zenon DEF Proceed
  <1> QED BY <1>1, <1>10, <1>22, <1>23, Zenon DEF LinkStep

-----------------------------------------------------------------------------
\* Only the holder of the lock has written the stats of a fence it received.
LEMMA OthersWait ==
  ASSUME Control, Locking, NEW l \in Link, fence_lock # l
  PROVE  ~Wrote(l) /\ (state[l] = "GETLIST" /\ mission_type[l] = "fence" => transfer_seq[l] = 0)
  BY Zenon DEF Control, Position, Locking, Holds, Wrote, Saving

\* A point is written: what was received before stays, and nothing counts
\* until the stats are written.
LEMMA PointIsWritten ==
  ASSUME Control, Shape, Locking, NEW l \in Link, WritesPoint(l), Elsewhere(l), Beside(l)
  PROVE  (FenceCourse => FenceCourse') /\ (Reload => Reload')
  <1>0. Domains /\ None \notin Link /\ "fence" \in PointTypes
    BY Constants, Zenon DEF Control, PointTypes
  <1>1. PICK k \in Cells : Item(l, k) /\ up[l].type = "fence"
    BY Zenon DEF WritesPoint
  <1>2. /\ pc[l] = "loop" /\ state[l] = "GETLIST" /\ mission_type[l] = "fence" /\ up[l].type = "fence"
        /\ k < up[l].count /\ k = transfer_seq[l] /\ transfer_seq'[l] = k + 1
        /\ UNCHANGED <<up, state, mission_type, transfer_count, stats, fence_lock, torn>>
    BY <1>0, <1>1, Zenon DEF Item, Expected, Domains
  <1>3. fence_lock = l /\ k \in Nat /\ k + 1 # 0
    <2>1. fence_lock = l
      BY <1>2, Zenon DEF Locking, Holds
    <2>2. k \in Nat /\ k + 1 # 0
      BY Constants DEF Cells
    <2> QED BY <2>1, <2>2, Zenon
  <1>4. points'["fence"] = [points["fence"] EXCEPT ![k] = up[l]]
    BY <1>0, <1>1, Zenon DEF Item, Shape
  <1>5. \/ pc'[l] = "loop" /\ update_counter' = update_counter
        \/ /\ pc'[l] = "save" /\ call'[l].key = "fence" /\ call'[l].then = "item"
           /\ call'[l].count = k + 1 /\ k + 1 = transfer_count[l]
           /\ update_counter'["fence"] = update_counter["fence"] + 1
           /\ call'[l].id = update_counter["fence"] + 1
    <2>1. CASE k + 1 = transfer_count[l]
      <3>1. Begun(l, "fence", k + 1, "item")
        BY <1>1, <2>1, PointsBegin, Zenon DEF Item, update
      <3> QED BY <2>1, <3>1, Zenon DEF Begun
    <2>2. CASE k + 1 # transfer_count[l]
      BY <1>1, <1>2, <2>2, Zenon DEF Item
    <2> QED BY <2>1, <2>2, Zenon
  <1>6. ~Intact' /\ ~Wrote(l)'
    BY <1>0, <1>2, <1>3, <1>5, Zenon DEF Intact, Wrote
  <1>7. ASSUME NEW m \in Link \ {l}
        PROVE  /\ ~Wrote(m)'
               /\ state'[m] = "GETLIST" /\ mission_type'[m] = "fence" => transfer_seq'[m] = 0
    <2>1. ~Wrote(m) /\ (state[m] = "GETLIST" /\ mission_type[m] = "fence" => transfer_seq[m] = 0)
      BY <1>3, OthersWait, Zenon
    <2> QED BY <2>1, Zenon DEF Elsewhere, Untouched, Wrote
  <1>8. ASSUME FenceCourse PROVE FenceCourse'
    <2>1. ASSUME NEW m \in Link \ {l} PROVE Gathers(m)'
      <3>1. /\ Gathers(m) /\ state'[m] = state[m] /\ mission_type'[m] = mission_type[m]
            /\ pc'[m] = pc[m] /\ call'[m] = call[m] /\ transfer_seq'[m] = transfer_seq[m]
            /\ transfer_count'[m] = transfer_count[m] /\ up'[m] = up[m]
        BY <1>8, Zenon DEF FenceCourse, Elsewhere, Untouched
      <3>2. Saving(m)' <=> Saving(m)
        BY <3>1, Zenon DEF Saving
      <3>3. \A j \in 0..(0 - 1) : FALSE
        OBVIOUS
      <3> QED BY <1>7, <3>1, <3>2, <3>3, Zenon DEF Gathers
    <2>2. Gathers(l)'
      <3>1. /\ up[l] # None /\ transfer_count[l] = up[l].count /\ up[l].count \in 1..MaxCount
            /\ \A j \in 0..(k - 1) : points["fence"][j] = up[l]
        BY <1>2, <1>8, Zenon DEF FenceCourse, Gathers
      <3>2. /\ k + 1 \in 0..up[l].count
            /\ \A j \in 0..(k + 1 - 1) : j \in Cells /\ (j = k \/ j \in 0..(k - 1))
        BY <1>2, <1>3, <3>1, Constants DEF Cells
      <3>3. \A j \in 0..(k + 1 - 1) : points'["fence"][j] = up[l]
        BY <1>4, <3>1, <3>2, Zenon DEF Shape
      <3>4. ~(pc'[l] = "claim") /\ (Saving(l)' /\ call'[l].key = "fence" =>
              call'[l].then = "item" /\ call'[l].count = up[l].count /\ k + 1 = up[l].count)
        BY <1>5, <3>1, Zenon DEF Saving
      <3>5. /\ up'[l] # None /\ mission_type'[l] = up'[l].type /\ transfer_count'[l] = up'[l].count
            /\ up'[l].count \in 1..MaxCount /\ transfer_seq'[l] \in 0..up'[l].count
        BY <1>2, <3>1, <3>2, Zenon
      <3>6. \A j \in 0..(transfer_seq'[l] - 1) : points'["fence"][j] = up'[l]
        <4>1. up' = up /\ transfer_seq'[l] = k + 1
          BY <1>2, Zenon
        <4> QED BY <1>3, <3>3, <4>1
      <3>7. ~(pc'[l] = "claim") /\ (Saving(l)' /\ call'[l].key = "fence" =>
              call'[l].then = "item" /\ call'[l].count = up'[l].count /\ transfer_seq'[l] = up'[l].count)
        BY <1>2, <3>4, Zenon
      <3> QED BY <1>6, <3>5, <3>6, <3>7, Zenon DEF Gathers
    <2> QED BY <1>6, <2>1, <2>2, Zenon DEF FenceCourse
  <1>9. ASSUME Reload PROVE Reload'
    <2>1. Counted(l)
      BY <1>5, Zenon DEF Counted, Writes
    <2>2. Numbered'
      BY <1>2, <1>9, <2>1, NumberedOfLink, Zenon DEF Reload
    <2> QED BY <1>6, <1>7, <2>2, Zenon DEF Reload
  <1> QED BY <1>8, <1>9, Zenon

\* The stats are written: of all points received, or of none, with a counter of their own.
LEMMA StatsAreWritten ==
  ASSUME Control, Shape, Locking, NEW l \in Link, WritesStats(l), Elsewhere(l), Beside(l)
  PROVE  (FenceCourse => FenceCourse') /\ (Reload => Reload')
  <1>0. Domains /\ Position(l) /\ Holds(l) /\ "fence" \in PointTypes
    BY Constants, Zenon DEF Control, Locking, PointTypes
  <1>1. /\ pc[l] = "save" /\ call[l].key = "fence" /\ pc'[l] = "saved"
        /\ UNCHANGED <<up, state, mission_type, transfer_seq, transfer_count, call, points, update_counter, nav>>
    BY <1>0, Zenon DEF WritesStats, Save, Domains, gcs, statics, transfer
  <1>2. stats'["fence"].num = call[l].count /\ stats'["fence"].counter = call[l].id
    BY <1>0 DEF WritesStats, Save, Shape
  <1>3. \A m \in Link \ {l} : /\ pc'[m] = pc[m] /\ (Saving(m)' <=> Saving(m))
                              /\ Wrote(m)' <=> Wrote(m)
                              /\ Writes(m)' <=> Writes(m)
    BY <1>1, Zenon DEF Elsewhere, Untouched, Saving, Wrote, Writes
  <1>4. ASSUME FenceCourse PROVE FenceCourse'
    <2>1. Whole(points["fence"], call[l].count)
      <3>1. CASE call[l].then = "item"
        <4>1. /\ state[l] = "GETLIST" /\ mission_type[l] = "fence" /\ Gathers(l) /\ Saving(l)
          BY <1>0, <1>1, <1>4, <3>1, Zenon DEF Position, Holds, Saving, FenceCourse
        <4>2. /\ up[l] # None /\ up[l].count \in 1..MaxCount /\ call[l].count = up[l].count
              /\ \A k \in 0..(up[l].count - 1) : points["fence"][k] = up[l]
          BY <1>1, <3>1, <4>1, Zenon DEF Gathers
        <4>3. 0 \in 0..(up[l].count - 1)
          BY <4>2, Constants
        <4> QED BY <4>2, <4>3, Zenon DEF Whole
      <3>2. CASE call[l].then # "item"
        <4>1. call[l].count = 0
          BY <1>1, <1>4, <3>2, Zenon DEF FenceCourse, Gathers, Saving
        <4> QED BY <4>1 DEF Whole
      <3> QED BY <3>1, <3>2, Zenon
    <2>2. Whole(points'["fence"], stats'["fence"].num)
      BY <1>1, <1>2, <2>1, Zenon
    <2>3. Gathers(l)'
      BY <1>1, <1>4, <2>2, Zenon DEF FenceCourse, Gathers, Saving
    <2>4. ASSUME NEW m \in Link \ {l} PROVE Gathers(m)'
      <3>1. Gathers(m) /\ pc'[m] = pc[m] /\ (Saving(m)' <=> Saving(m))
        BY <1>3, <1>4, Zenon DEF FenceCourse
      <3> QED BY <1>1, <2>2, <3>1, Zenon DEF Gathers
    <2> QED BY <2>2, <2>3, <2>4, Zenon DEF FenceCourse
  <1>5. ASSUME Reload PROVE Reload'
    <2>1. /\ Writes(l) /\ ~Writes(l)' /\ call[l].id \in 0..update_counter["fence"] /\ call[l].id # nav.counter
      BY <1>1, <1>5, Zenon DEF Writes, Reload, Numbered
    <2>2. \A m \in Link \ {l} : Writes(m) => call[m].id # call[l].id
      BY <1>5, <2>1, Zenon DEF Reload, Numbered
    <2>3. Numbered'
      BY <1>1, <1>2, <1>3, <1>5, <2>1, <2>2, Zenon DEF Reload, Numbered
    <2> QED BY <1>1, <1>2, <2>1, <2>3, Zenon DEF Reload
  <1> QED BY <1>4, <1>5, Zenon

-----------------------------------------------------------------------------
(* The navigator, the power and the start.                                 *)

\* The inductive invariant of the three properties, each with its exceptions.
FInv ==
  /\ Shape /\ Locking
  /\ Quiet => Acceptance
  /\ "restart" \notin slip => FenceCourse
  /\ {"restart", "load"} \cap slip = {} => Reload

\* The navigator loads the fence only when nobody holds the lock.
LEMMA FenceIsLoaded ==
  ASSUME Control, FInv, CheckPolygons
  PROVE  FInv'
  <1>1. /\ UNCHANGED <<uploads, up, last, update_counter, state, mission_type, transfer_seq, transfer_count, pc, call,
                        points, stats, fence_lock, accepted, stored, quit, torn, slip>>
        /\ fence_lock = None /\ nav' = updateFence
    BY Zenon DEF CheckPolygons, gcs, statics, transfer, thread, file, history, told
  <1>2. Shape' /\ Locking' /\ (Quiet' => Acceptance')
    BY <1>1, Zenon DEF FInv, Shape, Locking, Holds, Saving, Quiet, Acceptance, Told
  <1>3. "restart" \notin slip' => FenceCourse'
    BY <1>1, Zenon DEF FInv, FenceCourse, Gathers, Saving, Wrote, Intact
  <1>4. ASSUME Reload PROVE Reload'
    <2>1. nav'.counter = stats["fence"].counter
      BY <1>1 DEF updateFence
    <2>2. \A l \in Link : ~Wrote(l)
      BY <1>1, Constants, OthersWait, Zenon DEF FInv
    <2>3. Numbered'
      BY <1>1, <1>4, <2>1, Zenon DEF Reload, Numbered, Writes
    <2> QED BY <1>1, <2>2, <2>3, Zenon DEF Reload, Wrote, updateFence
  <1> QED BY <1>1, <1>2, <1>3, <1>4, Zenon DEF FInv

\* After a power loss every link is idle, nobody holds the lock, the counter is
\* the one in the file and the navigator has loaded what the file holds.
LEMMA FenceAfterRestart ==
  ASSUME Control, FInv, Restart
  PROVE  FInv'
  <1>0. "fence" \in PointTypes /\ fence_lock \in Link \cup {None}
    BY Constants, Zenon DEF Control, Domains, PointTypes
  <1>1. /\ \A l \in Link : state'[l] = "IDLE" /\ transfer_seq'[l] = 0 /\ pc'[l] = "loop"
        /\ UNCHANGED <<uploads, up, last, points, stats, accepted, stored>>
        /\ DOMAIN update_counter' = PointTypes /\ update_counter'["fence"] = stats["fence"].counter
        /\ fence_lock' = None /\ nav' = updateFence
        /\ quit' = quit \cup {l \in Link : state[l] = "GETLIST"}
        /\ slip \subseteq slip' /\ ("restart" \in slip' <=> "restart" \in slip)
        /\ torn' <=> torn \/ \E l \in Link : Halfway(l)
    BY <1>0, Zenon DEF Restart, Tear, gcs, file
  <1>2. Shape'
    BY <1>1, Zenon DEF FInv, Shape
  <1>3. \A l \in Link : ~Saving(l)' /\ ~Wrote(l)' /\ ~Writes(l)' /\ pc'[l] # "claim" /\ pc'[l] # "lock"
    BY <1>1, Zenon DEF Saving, Wrote, Writes
  <1>4. Locking'
    <2>1. 0 \in Nat
      OBVIOUS
    <2> QED BY <1>1, <1>3, <2>1, Zenon DEF Locking, Holds
  <1>5. ASSUME Quiet' PROVE Acceptance'
    <2>1. Acceptance
      BY <1>1, <1>5, Zenon DEF FInv, Quiet
    <2>2. ASSUME NEW l \in Link PROVE Told(l)'
      BY <1>1, <1>3, <2>1, Zenon DEF Acceptance, Told
    <2> QED BY <1>1, <2>1, <2>2, Zenon DEF Acceptance
  <1>6. ~torn' => ~torn /\ Intact
    <2>1. ASSUME ~torn', fence_lock # None PROVE transfer_seq[fence_lock] = 0
      <3>1. PICK l \in Link : l = fence_lock
        BY <1>0, <2>1, Zenon
      <3>2. ~Halfway(l) /\ state[l] = "GETLIST" /\ mission_type[l] = "fence" /\ transfer_seq[l] \in Nat
        BY <1>1, <2>1, <3>1, Zenon DEF Control, FlagHasOwner, FInv, Locking, Holds
      <3>3. transfer_seq[l] = 0
        BY <3>2 DEF Halfway
      <3> QED BY <3>1, <3>3, Zenon
    <2> QED BY <1>1, <2>1, Zenon DEF Intact
  <1>7. ASSUME "restart" \notin slip' PROVE FenceCourse'
    <2>1. FenceCourse
      BY <1>1, <1>7, Zenon DEF FInv
    <2>2. ~torn' => Whole(points'["fence"], stats'["fence"].num)
      BY <1>1, <1>6, <2>1, Zenon DEF FenceCourse
    <2>3. \A l \in Link : Gathers(l)'
      BY <1>1, <1>3, Zenon DEF Gathers
    <2> QED BY <2>2, <2>3, Zenon DEF FenceCourse
  <1>8. ASSUME {"restart", "load"} \cap slip' = {} PROVE Reload'
    <2>1. Numbered
      BY <1>1, <1>8, Zenon DEF FInv, Reload
    <2>2. /\ nav'.counter = stats["fence"].counter /\ stats["fence"].counter \in Nat
          /\ stats["fence"].counter \in 0..stats["fence"].counter
      BY <1>1, <2>1 DEF updateFence, Numbered
    <2>3. Numbered'
      BY <1>1, <1>3, <2>2, Zenon DEF Numbered
    <2> QED BY <1>1, <1>3, <2>3, Zenon DEF Reload, updateFence
  <1> QED BY <1>2, <1>4, <1>5, <1>7, <1>8, Zenon DEF FInv

\* Aboard is a fence that was stored as a whole, and the navigator has loaded it.
LEMMA FenceInitially ==
  ASSUME Init
  PROVE  FInv
  <1>0. "fence" \in PointTypes /\ MaxCount \in Nat \ {0} /\ 0 \in Cells
    BY Constants DEF PointTypes, Cells
  <1>1. /\ uploads = 0 /\ accepted = {} /\ torn = FALSE /\ fence_lock = None
        /\ update_counter["fence"] = 0
        /\ \A l \in Link : /\ up[l] = None /\ last[l] = None /\ state[l] = "IDLE"
                           /\ transfer_seq[l] = 0 /\ pc[l] = "loop"
    BY <1>0, Zenon DEF Init
  <1>2. Shape
    BY <1>0, Zenon DEF Init, Shape
  <1>3. \A l \in Link : ~Saving(l) /\ ~Wrote(l) /\ ~Writes(l) /\ pc[l] # "claim" /\ pc[l] # "lock"
    BY <1>1, Zenon DEF Saving, Wrote, Writes
  <1>4. 0 \in Nat /\ 0 \in 0..0
    OBVIOUS
  <1>5. Locking
    BY <1>1, <1>3, <1>4, Zenon DEF Locking, Holds
  <1>6. Acceptance
    BY <1>1, <1>3, <1>4, Zenon DEF Acceptance, Told
  <1>7. points["fence"] = [k \in Cells |-> Factory("fence")] /\ stats["fence"] = [num |-> MaxCount, counter |-> 0]
    BY <1>0, Zenon DEF Init
  <1>8. /\ stats["fence"].num = MaxCount /\ stats["fence"].counter = 0
        /\ nav.counter = 0
    BY <1>7 DEF Init
  <1>9. FenceCourse
    <2>1. Factory("fence").count = MaxCount /\ Factory("fence") # None
      <3>1. Factory("fence") \in Upload
        BY Constants DEF Factory, Upload
      <3> QED BY <3>1, NoneIsNoUpload DEF Factory
    <2>2. \A k \in 0..(MaxCount - 1) : k \in Cells
      BY Zenon DEF Cells
    <2>3. Whole(points["fence"], stats["fence"].num)
      BY <1>0, <1>7, <1>8, <2>1, <2>2, Zenon DEF Whole
    <2> QED BY <1>1, <1>3, <2>3, Zenon DEF FenceCourse, Gathers
  <1>10. Reload
    <2>1. points["fence"][0] = Factory("fence") /\ MaxCount # 0
      BY <1>0, <1>7, Zenon
    <2>2. nav = updateFence
      BY <1>8, <2>1, Zenon DEF Init, updateFence, Polygon
    <2> QED BY <1>1, <1>3, <1>4, <1>8, <2>2, Zenon DEF Reload, Numbered
  <1> QED BY <1>2, <1>5, <1>6, <1>9, <1>10, Zenon DEF FInv

-----------------------------------------------------------------------------
\* Every step keeps it.
LEMMA FenceStep ==
  ASSUME Control, FInv, [Next]_vars
  PROVE  FInv'
  <1>1. slip \subseteq slip'
    BY SlipsGrow, Zenon
  <1>2. ASSUME NEW l \in Link, LinkStep(l) PROVE FInv'
    <2>1. Shape /\ Locking /\ Elsewhere(l) /\ Beside(l) /\ Shape'
      BY <1>2, FrameOfLink, Zenon DEF FInv
    <2>2. Locking'
      BY <1>2, <2>1, LockingStep, Zenon
    <2>3. ASSUME Quiet' PROVE Acceptance'
      <3>1. Quiet
        BY <1>1, <2>3, Zenon DEF Quiet
      <3> QED BY <1>2, <2>1, <2>3, <3>1, AcceptanceStep, Zenon DEF FInv
    <2>4. ASSUME "restart" \notin slip' PROVE Fine(l) \/ WritesPoint(l) \/ WritesStats(l)
      BY <1>2, <2>1, <2>4, FineStep, Zenon
    <2>5. ASSUME "restart" \notin slip' PROVE FenceCourse'
      <3>1. FenceCourse
        BY <1>1, <2>5, Zenon DEF FInv
      <3>2. CASE Fine(l)
        BY <2>1, <3>1, <3>2, CourseOfFence, Zenon DEF Fine
      <3> QED BY <2>1, <2>4, <2>5, <3>1, <3>2, PointIsWritten, StatsAreWritten, Zenon
    <2>6. ASSUME {"restart", "load"} \cap slip' = {} PROVE Reload'
      <3>1. Reload /\ "restart" \notin slip' /\ "load" \notin slip'
        BY <1>1, <2>6, Zenon DEF FInv
      <3>2. CASE Fine(l)
        BY <2>1, <3>1, <3>2, ReloadOfLink, Zenon DEF Fine
      <3> QED BY <2>1, <2>4, <3>1, <3>2, PointIsWritten, StatsAreWritten, Zenon
    <2> QED BY <2>1, <2>2, <2>3, <2>5, <2>6, Zenon DEF FInv
  <1>3. CASE UNCHANGED vars
    <2>1. UNCHANGED <<uploads, up, last, update_counter, state, mission_type, transfer_seq, transfer_count, pc, call,
                      points, stats, fence_lock, nav, accepted, stored, quit, torn, slip>>
      BY <1>3, Zenon DEF vars, gcs, statics, transfer, thread, file, history, told
    <2>2. Shape' /\ Locking' /\ (Quiet' => Acceptance')
      BY <2>1, Zenon DEF FInv, Shape, Locking, Holds, Saving, Quiet, Acceptance, Told
    <2>3. "restart" \notin slip' => FenceCourse'
      BY <2>1, Zenon DEF FInv, FenceCourse, Gathers, Saving, Wrote, Intact
    <2>4. Reload => Reload'
      BY <2>1, Zenon DEF Reload, Numbered, Writes, Wrote, Intact, updateFence
    <2> QED BY <2>1, <2>2, <2>3, <2>4, Zenon DEF FInv
  <1> QED BY <1>2, <1>3, FenceIsLoaded, FenceAfterRestart, Zenon DEF Next, LinkStep

\* What is told, the lock, the fence and the counters, in every reachable state.
THEOREM FenceInvariance == Spec => []FInv
  <1>1. Init => FInv
    BY FenceInitially, Zenon
  <1>2. IInv /\ FInv /\ [Next]_vars => FInv'
    BY FenceStep, Zenon DEF IInv
  <1> QED BY <1>1, <1>2, Invariance, PTL DEF Spec

\* A ground station is told ACCEPTED only for an upload whose state was written,
\* in spite of lost acknowledgements, repeated items, timeouts, failed writes and
\* power loss: except for an item taken for a duplicate of an upload that was
\* given up, a count of zero whose write failed, and a new upload begun within one.
THEOREM AcceptedAreStored == Spec => []AcceptedIsStored
  <1>1. FInv => AcceptedIsStored
    BY Zenon DEF FInv, Quiet, Acceptance, AcceptedIsStored
  <1> QED BY <1>1, FenceInvariance, PTL

\* Whenever the navigator gets the fence lock, the points that the stats count
\* are those of one upload, although they are overwritten in place: except after
\* a fence transfer was given up halfway, or a new upload was begun within one.
THEOREM FencesAreWhole == Spec => []FenceIsWhole
  <1>1. FInv => FenceIsWhole
    BY Zenon DEF FInv, FenceCourse, Intact, FenceIsWhole
  <1> QED BY <1>1, FenceInvariance, PTL

\* A fence that differs from the one the navigator has loaded has another update
\* counter, so that the navigator loads it: unless a download put a counter that
\* was used already back.
THEOREM FencesAreReloaded == Spec => []FenceIsReloaded
  <1>1. FInv => FenceIsReloaded
    BY Zenon DEF FInv, Reload, Intact, FenceIsReloaded
  <1> QED BY <1>1, FenceInvariance, PTL
=============================================================================
