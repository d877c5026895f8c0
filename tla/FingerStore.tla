---------------------------- MODULE FingerStore -----------------------------
(***************************************************************************)
(* The finger table tz.finger and the sqlite database behind it: loading   *)
(* the active group, converting Samsung's database, enrolling, matching    *)
(* and removing fingers, with crashes of the process in between            *)
(* (fingerprint/fingerprint.c, db_* and HAL functions; fingerprint_tz.c,   *)
(* the parts of vcs_enroll and vcs_authenticate that touch the table).     *)
(*                                                                         *)
(* A finger's data and payload are one template, a number.  A table of the *)
(* database is the function from ids to the template a "select" delivers   *)
(* last, which is all the code can see of it: the table has no key, a      *)
(* "delete ... where id" drops every row of the id, and loading keeps the  *)
(* last row of each id.  The threads and locks are those of                *)
(* FingerprintSession; here the worker is only where it stands in its use  *)
(* of the table, which it reads and writes without vdev->lock.             *)
(***************************************************************************)
EXTENDS Integers, FiniteSets

CONSTANTS
    MaxFingers,   \* MAX_NUM_FINGERS
    Groups,       \* group ids the framework uses; 0 is active after open
    MaxEnrolls,   \* bound: enrolments completed in one behaviour
    Faults,       \* sqlite or file calls that may fail: "insert", "delete", "select", "samsung"
    Crashes,      \* whether the process may die
    Exclusive     \* whether the framework leaves the table alone while an
                  \* enrolment or authentication runs

ASSUME StoreAssumption ==
    /\ MaxFingers \in Nat \ {0}
    /\ 0 \in Groups
    /\ MaxEnrolls \in Nat
    /\ Faults \subseteq {"insert", "delete", "select", "samsung"}
    /\ Crashes \in BOOLEAN
    /\ Exclusive \in BOOLEAN

Ids == 1..MaxFingers
Slots == 0..MaxFingers          \* finger[MAX_NUM_FINGERS + 1], "Start from finger[1]"
None == 0
Blank == -1                     \* a row of zeroes
\* Samsung's finger id holds template id; enrolments create the later ones.
Templates == {Blank} \cup 1..(MaxFingers + MaxEnrolls)

VARIABLES
    db,       \* db[g][id]: the stored template of the finger, or None
    old,      \* Samsung's database: a function like db[g], or <<>> without the file
    gid,      \* vdev->active_gid
    finger,   \* tz.finger: finger[idx] is its template, None when it does not exist
    cpc,      \* caller: "down", loading, converting, "ready" or removing all
    cidx,     \* caller: loop index of db_convert_old_db or fingerprint_remove
    wpc,      \* worker: "idle", or where vcs_enroll / vcs_authenticate stands
    slot,     \* vcs_enroll's idx
    rank,     \* vcs_authenticate's fake_fid
    found,    \* the template the trusted application matched
    index,    \* vcs_authenticate's fingerindex
    fresh,    \* the next template an enrolment creates
    gone,     \* ghost: templates whose removal was reported to the framework
    touched,  \* ghost: the table was changed under the worker's feet
    strayed   \* ghost: Samsung's database could not be opened or removed once, or a row
              \* was inserted from a table changed under the enrolment

diskVars == <<db, old, gone, strayed>>
callerVars == <<cpc, cidx, gid>>
workerVars == <<wpc, slot, rank, found, index, touched>>
vars == <<diskVars, callerVars, workerVars, finger, fresh>>

NoFile == <<>>
Empty == [id \in Ids |-> None]

\* The HAL has just been opened for the first time; after an upgrade from
\* Samsung's system their database is there, with any of its fingers.
Init ==
    /\ db = [g \in Groups |-> Empty]
    /\ old \in {NoFile} \cup {[id \in Ids |-> IF id \in s THEN id ELSE None] : s \in SUBSET Ids}
    /\ gid = 0 /\ finger = [id \in Slots |-> None]
    /\ cpc = "load" /\ cidx = 0
    /\ wpc = "idle" /\ slot = 0 /\ rank = 0 /\ found = None /\ index = 0
    /\ fresh = MaxFingers + 1
    /\ gone = {} /\ strayed = FALSE /\ touched = FALSE

-----------------------------------------------------------------------------
(* Loading: db_read_to_tz and db_convert_old_db. *)

\* Mutant: the rows are read over the old table without any memset.
NothingCleared == [id \in Slots |-> finger[id]]

\* memset(tz.finger, 0, MAX_NUM_FINGERS * sizeof(finger_t)): the first
\* MAX_NUM_FINGERS entries, finger[0] among them.
Cleared == [id \in Slots |-> IF id < MaxFingers THEN None ELSE finger[id]]

\* The table after reading rows over the cleared one.
Loaded(rows) ==
    [id \in Slots |-> IF id \in Ids /\ rows[id] # None THEN rows[id] ELSE Cleared[id]]

\* insert into gid_%d: what the row holds when the entry was zeroed meanwhile.
RowOf(id) == IF finger[id] = None THEN Blank ELSE finger[id]
Inserted(id) == [db EXCEPT ![gid][id] = RowOf(id)]

\* What a select delivers: the rows, or nothing when it cannot be prepared, which is not
\* looked at; so it is when the HAL's database could not be opened.  An error after some
\* of the rows is left out.
Selected(rows) == {rows} \cup {Empty : f \in Faults \cap {"select"}}

LoadGroup ==
    /\ cpc = "load" /\ old = NoFile
    /\ \E rows \in Selected(db[gid]) : finger' = Loaded(rows)
    /\ cpc' = "ready"
    /\ UNCHANGED <<diskVars, gid, cidx, workerVars, fresh>>

\* "Samsung fingerprint database exist! Convert it"
LoadSamsung ==
    /\ cpc = "load" /\ old # NoFile
    /\ \/ /\ \E rows \in Selected(old) : finger' = Loaded(rows)
          /\ cpc' = "convert" /\ cidx' = 1 /\ UNCHANGED strayed
       \/ /\ "samsung" \in Faults /\ strayed' = TRUE
          /\ finger' = Cleared /\ cpc' = "ready" /\ UNCHANGED cidx
    /\ UNCHANGED <<db, old, gone, gid, workerVars, fresh>>

\* db_write_to_db for each existing finger; the result is not looked at.
ConvertNext ==
    /\ cpc = "convert" /\ cidx <= MaxFingers
    /\ \/ finger[cidx] # None /\ db' = Inserted(cidx)
       \/ (finger[cidx] = None \/ "insert" \in Faults) /\ UNCHANGED db
    /\ cidx' = cidx + 1
    /\ UNCHANGED <<old, gone, strayed, cpc, gid, workerVars, finger, fresh>>

\* sqlite3_close and remove(SAMSUNG_FP_DB_PATH)
ConvertDone ==
    /\ cpc = "convert" /\ cidx > MaxFingers
    /\ \/ old' = NoFile /\ UNCHANGED strayed
       \/ "samsung" \in Faults /\ strayed' = TRUE /\ UNCHANGED old
    /\ cpc' = "ready" /\ cidx' = 0
    /\ UNCHANGED <<db, gone, gid, workerVars, finger, fresh>>

-----------------------------------------------------------------------------
(* The caller. *)

\* A call that changes the table, perhaps while a worker uses it.
TouchTable ==
    /\ cpc = "ready" /\ (Exclusive => wpc = "idle")
    /\ touched' = (touched \/ wpc # "idle")
    /\ UNCHANGED <<wpc, slot, rank, found, index>>

\* Mutant: the group is switched without db_read_to_tz.
SetActiveGroupNoReload(g) ==
    /\ TouchTable
    /\ gid' = g
    /\ UNCHANGED <<diskVars, cpc, cidx, finger, fresh>>

\* fingerprint_set_active_group
SetActiveGroup(g) ==
    /\ TouchTable
    /\ gid' = g
    /\ cpc' = "load"
    /\ UNCHANGED <<diskVars, cidx, finger, fresh>>

\* Mutant: the entry stays in the table after the row is deleted.
DeleteRowOnly(id) ==
    /\ db' = [db EXCEPT ![gid][id] = None]
    /\ gone' = IF db[gid][id] = None THEN gone ELSE gone \cup {db[gid][id]}
    /\ UNCHANGED finger

\* db_write_to_db(vdev, true, id), and send_remove_notice when it succeeds: the
\* table entry is cleared even when the row cannot be deleted.  The removal of an id without
\* a row of this group is reported too, but no stored finger has gone by it: an entry that
\* a switch has left over is still in its own group.
Delete(id) ==
    /\ \/ /\ db' = [db EXCEPT ![gid][id] = None]
          /\ gone' = IF db[gid][id] = None THEN gone ELSE gone \cup {db[gid][id]}
       \/ "delete" \in Faults /\ UNCHANGED <<db, gone>>
    /\ finger' = [finger EXCEPT ![id] = None]

\* fingerprint_remove with a finger id ...
RemoveOne(fid) ==
    /\ TouchTable
    /\ Delete(fid)
    /\ UNCHANGED <<old, strayed, callerVars, fresh>>

\* ... and with 0: one finger at a time, each under vdev->lock of its own.
RemoveAll ==
    /\ TouchTable
    /\ cpc' = "removing" /\ cidx' = 1
    /\ UNCHANGED <<diskVars, gid, finger, fresh>>

\* Mutant: the loop runs one entry too far.
RemoveNextTooFar ==
    /\ cpc = "removing" /\ cidx <= MaxFingers + 1
    /\ IF cidx \in Ids /\ finger[cidx] # None THEN Delete(cidx)
       ELSE UNCHANGED <<db, gone, finger>>
    /\ cidx' = cidx + 1
    /\ UNCHANGED <<old, strayed, gid, cpc, workerVars, fresh>>

RemoveNext ==
    /\ cpc = "removing" /\ cidx <= MaxFingers
    /\ IF finger[cidx] # None THEN Delete(cidx) ELSE UNCHANGED <<db, gone, finger>>
    /\ cidx' = cidx + 1
    /\ UNCHANGED <<old, strayed, gid, cpc, workerVars, fresh>>

RemoveDone ==
    /\ cpc = "removing" /\ cidx > MaxFingers
    /\ cpc' = "ready" /\ cidx' = 0
    /\ UNCHANGED <<diskVars, gid, workerVars, finger, fresh>>

\* Mutant: fingerprint_enroll without the search for a free finger.
EnrollUnchecked ==
    /\ cpc = "ready" /\ wpc = "idle" /\ fresh <= MaxFingers + MaxEnrolls
    /\ wpc' = "begin" /\ touched' = FALSE
    /\ UNCHANGED <<diskVars, callerVars, slot, rank, found, index, finger, fresh>>

\* fingerprint_enroll finds a free finger and starts vcs_enroll.
Enroll ==
    /\ cpc = "ready" /\ wpc = "idle" /\ fresh <= MaxFingers + MaxEnrolls
    /\ \E id \in Ids : finger[id] = None
    /\ wpc' = "begin" /\ touched' = FALSE
    /\ UNCHANGED <<diskVars, callerVars, slot, rank, found, index, finger, fresh>>

Authenticate ==
    /\ cpc = "ready" /\ wpc = "idle"
    /\ wpc' = "match" /\ touched' = FALSE
    /\ UNCHANGED <<diskVars, callerVars, slot, rank, found, index, finger, fresh>>

-----------------------------------------------------------------------------
(* The worker. *)

\* Mutant: finger[1], free or not.
FirstIndex(idx) == idx = 1

\* The first idx of 1 .. MAX_NUM_FINGERS with no finger, MAX_NUM_FINGERS + 1
\* when there is none.
FirstFree(idx) ==
    /\ \A j \in 1..(idx - 1) : finger[j] # None
    /\ idx \in Ids => finger[idx] = None

EnrollBegin ==
    /\ wpc = "begin"
    /\ \E idx \in 1..(MaxFingers + 1) : FirstFree(idx) /\ slot' = idx
    /\ wpc' = "samples"
    /\ UNCHANGED <<diskVars, callerVars, rank, found, index, finger, fresh, touched>>

\* Cancelled, timed out or failed before vfmEnrollFinish.
EnrollAbandon ==
    /\ wpc = "samples"
    /\ wpc' = "idle" /\ slot' = 0
    /\ UNCHANGED <<diskVars, callerVars, rank, found, index, finger, fresh, touched>>

\* vfmEnrollFinish and vfmPayloadBind fill tz.finger[idx].  An idx past the array
\* is undefined behaviour, which is not followed further.
EnrollStore ==
    /\ wpc = "samples" /\ slot \in Ids
    /\ finger' = [finger EXCEPT ![slot] = fresh]
    /\ fresh' = fresh + 1
    /\ wpc' = "insert"
    /\ UNCHANGED <<diskVars, callerVars, slot, rank, found, index, touched>>

\* db_write_to_db(vdev, false, idx); its result is not looked at.
EnrollInsert ==
    /\ wpc = "insert"
    /\ \/ db' = Inserted(slot) /\ strayed' = (strayed \/ touched)
       \/ "insert" \in Faults /\ UNCHANGED <<db, strayed>>
    /\ wpc' = "idle" /\ slot' = 0
    /\ UNCHANGED <<old, gone, callerVars, rank, found, index, finger, fresh, touched>>

Existing == {id \in Ids : finger[id] # None}
\* The idx at which the scan of the table has counted n existing fingers.
NthExisting(n, id) == id \in Existing /\ Cardinality({j \in Existing : j <= id}) = n

\* vfmMatchImageToTemplates gets the existing fingers in table order and answers
\* with the position of the matching one; fake_fid counts from 1.
Match ==
    /\ wpc = "match"
    /\ \E n \in Ids, id \in Ids :
          /\ NthExisting(n, id)
          /\ rank' = n /\ found' = finger[id]
    /\ wpc' = "resolve"
    /\ UNCHANGED <<diskVars, callerVars, slot, index, finger, fresh, touched>>

\* Cancelled, or no match.
MatchAbandon ==
    /\ wpc = "match"
    /\ wpc' = "idle"
    /\ UNCHANGED <<diskVars, callerVars, slot, rank, found, index, finger, fresh, touched>>

\* Mutant: the position from the application is used as the finger's index.
ResolveDirectly ==
    /\ wpc = "resolve"
    /\ index' = rank
    /\ wpc' = "report"
    /\ UNCHANGED <<diskVars, callerVars, slot, rank, found, finger, fresh, touched>>

\* The second scan of the table turns the position back into a finger id; 0 when
\* the table has become too short.
Resolve ==
    /\ wpc = "resolve"
    /\ \/ \E id \in Ids : NthExisting(rank, id) /\ index' = id
       \/ (\A id \in Ids : ~NthExisting(rank, id)) /\ index' = 0
    /\ wpc' = "report"
    /\ UNCHANGED <<diskVars, callerVars, slot, rank, found, finger, fresh, touched>>

\* vfmPayloadRelease and send_authenticated_notice.
Report ==
    /\ wpc = "report"
    /\ wpc' = "idle" /\ rank' = 0 /\ found' = None /\ index' = 0
    /\ UNCHANGED <<diskVars, callerVars, slot, finger, fresh, touched>>

-----------------------------------------------------------------------------
\* The process dies; only the files are left.
Crash ==
    /\ Crashes /\ cpc # "down"
    /\ cpc' = "down" /\ cidx' = 0 /\ gid' = 0
    /\ wpc' = "idle" /\ slot' = 0 /\ rank' = 0 /\ found' = None /\ index' = 0
    /\ touched' = FALSE
    /\ finger' = [id \in Slots |-> None]
    /\ UNCHANGED <<diskVars, fresh>>

\* fingerprint_open: active_gid is 0, tz is zeroed, then db_init loads the group.
Open ==
    /\ cpc = "down"
    /\ cpc' = "load"
    /\ UNCHANGED <<diskVars, cidx, gid, workerVars, finger, fresh>>

CallerNext == \/ LoadGroup \/ LoadSamsung \/ ConvertNext \/ ConvertDone
              \/ RemoveAll \/ RemoveNext \/ RemoveDone \/ Enroll \/ Authenticate
              \/ \E g \in Groups : SetActiveGroup(g)
              \/ \E id \in Ids : RemoveOne(id)
WorkerNext == \/ EnrollBegin \/ EnrollAbandon \/ EnrollStore \/ EnrollInsert
              \/ Match \/ MatchAbandon \/ Resolve \/ Report

Next == CallerNext \/ WorkerNext \/ Crash \/ Open

Spec == Init /\ [][Next]_vars

-----------------------------------------------------------------------------
(* Properties. *)

\* The table and the database hold templates, and the program counters are
\* places of the code.
TypeOK ==
    /\ db \in [Groups -> [Ids -> Templates \cup {None}]]
    /\ old = NoFile \/ old \in [Ids -> Templates \cup {None}]
    /\ gone \subseteq Templates /\ strayed \in BOOLEAN /\ touched \in BOOLEAN
    /\ gid \in Groups /\ finger \in [Slots -> Templates \cup {None}]
    /\ cpc \in {"down", "load", "convert", "ready", "removing"}
    /\ cidx \in 0..(MaxFingers + 1)
    /\ wpc \in {"idle", "begin", "samples", "insert", "match", "resolve", "report"}
    /\ slot \in 0..(MaxFingers + 1) /\ rank \in Slots /\ index \in Slots
    /\ found \in Templates \cup {None}
    /\ fresh \in (MaxFingers + 1)..(MaxFingers + MaxEnrolls + 1)

\* The table is up: no load or conversion is under way.
Serving == cpc \in {"ready", "removing"}

\* Every finger stored for the active group can be matched: it is in tz.finger
\* with the template of the database, across enrolments, removals, group switches,
\* Samsung's conversion and restarts.
StoredIsLoaded ==
    Serving => \A id \in Ids : db[gid][id] # None => finger[id] = db[gid][id]

\* Below the last index nothing else is in tz.finger: the fingers of another
\* group, and of a removed row, are gone from it (db_read_to_tz's memset).
LoadedIsStored ==
    Serving /\ wpc # "insert" =>
        \A id \in Ids \ {MaxFingers} : finger[id] # None => db[gid][id] = finger[id]

\* "Start from finger[1]": the table is finger[1] .. finger[MAX_NUM_FINGERS], and
\* all of it is the active group's.
TableIsActiveGroup ==
    Serving /\ wpc # "insert" =>
        \A id \in Ids : finger[id] # None => db[gid][id] = finger[id]

\* The finger id that vcs_authenticate reports is the one whose template matched,
\* although it is found again by counting in a table with holes; unless the table
\* was changed under the running authentication.
ReportsTheMatch == wpc = "report" /\ ~touched => index # 0 /\ finger[index] = found

\* A finger whose removal was reported never comes back, neither in the database
\* nor in the table, through group switches, later enrolments, restarts and rows
\* that could not be inserted, deleted or selected.  Two things alone can bring it back:
\* Samsung's database, when db_convert_old_db could not open or unlink it, and a copy in
\* another group, when the group was switched between vcs_enroll's writing of tz.finger
\* and its db_write_to_db.  strayed is wider than they are: it is set by every insertion
\* whose enrolment saw the table changed, and stays set.
GoneStaysGone ==
    ~strayed => /\ \A g \in Groups, id \in Ids : db[g][id] \notin gone
                /\ \A id \in Ids : finger[id] \notin gone

\* finger[MAX_NUM_FINGERS + 1] has no entry MAX_NUM_FINGERS + 1: vcs_enroll stores
\* its finger inside the array, unless another group was loaded between
\* fingerprint_enroll's search for a free finger and its own.
SlotInArray == wpc = "samples" /\ ~touched => slot \in Slots

\* The database implements the promise of EnrolledFingers.
Enrolled == INSTANCE EnrolledFingers WITH enrolled <- db, retired <- gone
KeepsPromise == Enrolled!Spec

=============================================================================
