------------------------- MODULE FingerStoreProofs --------------------------
(* Proofs about FingerStore: for any number of fingers, groups and enrolments. *)
EXTENDS FingerStore, FiniteSetTheorems, TLAPS

-----------------------------------------------------------------------------
(* The inductive invariants. *)

\* What TypeOK rests on: the loops over the table are inside it, Samsung's database is
\* there while it is converted, an enrolment under way has a template to create, and
\* its row is one of the table's.
LoopInv ==
    /\ cpc \in {"convert", "removing"} => cidx \in 1..(MaxFingers + 1)
    /\ cpc = "convert" => old # NoFile
    /\ wpc \in {"begin", "samples"} => fresh <= MaxFingers + MaxEnrolls
    /\ wpc = "insert" => slot \in Ids

TypeInv == TypeOK /\ LoopInv

\* What a worker whose table nobody touched can rely on, at each of its steps.
WorkerInv ==
    ~touched =>
        /\ wpc # "idle" => cpc = "ready"
        /\ wpc = "begin" => \E id \in Ids : finger[id] = None
        /\ wpc = "samples" => slot \in Ids /\ finger[slot] = None
        /\ wpc = "insert" => finger[slot] = fresh - 1
        /\ wpc = "resolve" => \E id \in Ids : NthExisting(rank, id) /\ finger[id] = found
        /\ wpc = "report" => index \in Ids /\ finger[index] = found

\* While Samsung's database is there and nothing went wrong with it, only the
\* conversion has run: nothing is stored or loaded that is not its finger of that id.
Converting ==
    /\ cpc \in {"down", "load", "convert"} /\ wpc = "idle" /\ gid = 0 /\ gone = {}
    /\ \A id \in Ids : old[id] \in {None, id}
    /\ \A id \in Ids : db[0][id] \in {None, old[id]}
    /\ \A g \in Groups \ {0}, id \in Ids : db[g][id] = None
    /\ \A id \in Ids : finger[id] \in {None, old[id]}
    /\ cpc \in {"down", "load"} => \A id \in Ids : finger[id] = None

\* A template has one place: the group and the id it was enrolled under.
OnePlace ==
    /\ \A g, h \in Groups, i, j \in Ids : db[g][i] # None /\ db[g][i] = db[h][j] => g = h /\ i = j
    /\ \A g \in Groups, i, j \in Ids : finger[i] # None /\ finger[i] = db[g][j] => i = j

\* All templates have been created before the next one, and none is both gone and there.
Accounted ==
    /\ gone \subseteq 1..(fresh - 1)
    /\ \A g \in Groups, id \in Ids : db[g][id] \in 0..(fresh - 1) /\ db[g][id] \notin gone
    /\ \A id \in Ids : finger[id] \in 0..(fresh - 1) /\ finger[id] \notin gone

\* The template that vcs_enroll is about to insert is nowhere else yet.
NewTemplate ==
    wpc = "insert" /\ ~touched =>
        /\ \A g \in Groups, id \in Ids : db[g][id] # fresh - 1
        /\ \A id \in Ids : id # slot => finger[id] # fresh - 1

GoneInv == ~strayed => Accounted /\ OnePlace /\ NewTemplate /\ (old # NoFile => Converting)

\* When the framework leaves the table alone during a session and sqlite never fails:
\* the table is the active group's rows, but for the row that is about to be inserted,
\* the last entry, and what is left to convert.
TableParts ==
    /\ StoredIsLoaded
    /\ Serving => \A id \in Ids \ {MaxFingers} :
                      finger[id] # None /\ ~(wpc = "insert" /\ id = slot) => db[gid][id] = finger[id]
    /\ wpc = "insert" => db[gid][slot] = None
    /\ cpc = "convert" => \A id \in Ids : /\ finger[id] = old[id]
                                          /\ id < cidx => db[0][id] = finger[id]

TableInv == ~touched /\ ~strayed /\ TableParts

-----------------------------------------------------------------------------
(* Types. *)

USE StoreAssumption

\* What TLAPS needs to know of the numbers: ids are entries of the table, and 0 is no
\* template.
LEMMA Numbers ==
    /\ Ids \subseteq Slots /\ Ids \subseteq Nat /\ 0 \notin Ids /\ MaxFingers \in Ids
    /\ Ids \subseteq Templates /\ None \notin Templates /\ Blank \in Templates
  BY DEF Ids, Slots, Templates, None, Blank

\* db_read_to_tz leaves a table of templates, whatever rows it reads.
LEMMA LoadTypes ==
  ASSUME TypeOK, NEW rows \in [Ids -> Templates \cup {None}]
  PROVE  /\ Cleared \in [Slots -> Templates \cup {None}]
         /\ Loaded(rows) \in [Slots -> Templates \cup {None}]
  BY DEF TypeOK, Cleared, Loaded

\* A select delivers rows of the table it reads, and all of them if it does not fail.
LEMMA SelectedRows ==
  ASSUME NEW table \in [Ids -> Templates \cup {None}], NEW rows \in Selected(table)
  PROVE  /\ rows \in [Ids -> Templates \cup {None}]
         /\ \A id \in Ids : rows[id] \in {None, table[id]}
         /\ Faults = {} => rows = table
  BY DEF Selected, Empty

\* db_write_to_db inserts a template, that of a zeroed entry included.
LEMMA InsertTypes ==
  ASSUME TypeOK, NEW id \in Ids
  PROVE  /\ RowOf(id) \in Templates
         /\ Inserted(id) \in [Groups -> [Ids -> Templates \cup {None}]]
  <1>1. RowOf(id) \in Templates
    BY Numbers DEF TypeOK, RowOf
  <1> QED
    BY <1>1 DEF TypeOK, Inserted

\* db_write_to_db deletes one row and clears one entry.
LEMMA DeleteTypes ==
  ASSUME TypeOK, NEW id \in Ids, Delete(id)
  PROVE  /\ db' \in [Groups -> [Ids -> Templates \cup {None}]]
         /\ gone' \subseteq Templates
         /\ finger' \in [Slots -> Templates \cup {None}]
  <1>1. finger' \in [Slots -> Templates \cup {None}]
    BY DEF Delete, TypeOK
  <1>2. CASE UNCHANGED <<db, gone>>
    BY <1>1, <1>2 DEF TypeOK
  <1>3. CASE /\ db' = [db EXCEPT ![gid][id] = None]
             /\ gone' = IF db[gid][id] = None THEN gone ELSE gone \cup {db[gid][id]}
    BY <1>1, <1>3 DEF TypeOK
  <1> QED
    BY <1>2, <1>3 DEF Delete

\* Loading and converting keep the types.
LEMMA TypeLoad ==
  ASSUME TypeInv, LoadGroup \/ LoadSamsung \/ ConvertNext \/ ConvertDone
  PROVE  TypeInv'
  <1> USE Numbers DEF TypeInv, LoopInv, diskVars, workerVars
  <1>0. db[gid] \in [Ids -> Templates \cup {None}]
    BY DEF TypeOK
  <1>1. CASE LoadGroup
    <2>1. finger' \in [Slots -> Templates \cup {None}]
      BY <1>0, <1>1, SelectedRows, LoadTypes DEF LoadGroup
    <2> QED
      BY <1>1, <2>1 DEF LoadGroup, TypeOK
  <1>2. CASE LoadSamsung
    <2>1. old \in [Ids -> Templates \cup {None}]
      BY <1>2 DEF LoadSamsung, TypeOK
    <2>2. finger' \in [Slots -> Templates \cup {None}]
      BY <1>2, <2>1, SelectedRows, LoadTypes DEF LoadSamsung
    <2>3. strayed' \in BOOLEAN
      BY <1>2, Zenon DEF LoadSamsung, TypeOK
    <2> QED
      BY <1>2, <2>2, <2>3 DEF LoadSamsung, TypeOK
  <1>3. CASE ConvertNext
    <2>1. cidx \in Ids /\ cidx + 1 \in 1..(MaxFingers + 1)
      BY <1>3 DEF ConvertNext, TypeOK, Ids
    <2>2. db' \in [Groups -> [Ids -> Templates \cup {None}]]
      BY <1>3, <2>1, InsertTypes DEF ConvertNext, TypeOK
    <2> QED
      BY <1>3, <2>1, <2>2 DEF ConvertNext, TypeOK
  <1>4. CASE ConvertDone
    <2>1. strayed' \in BOOLEAN
      BY <1>4, Zenon DEF ConvertDone, TypeOK
    <2> QED
      BY <1>4, <2>1 DEF ConvertDone, TypeOK
  <1> QED
    BY <1>1, <1>2, <1>3, <1>4

\* The HAL calls keep the types.
LEMMA TypeCall ==
  ASSUME TypeInv,
         \/ RemoveAll \/ RemoveNext \/ RemoveDone \/ Enroll \/ Authenticate
         \/ \E g \in Groups : SetActiveGroup(g)
         \/ \E id \in Ids : RemoveOne(id)
  PROVE  TypeInv'
  <1> USE Numbers DEF TypeInv, LoopInv, diskVars, callerVars, workerVars, TouchTable
  <1>1. CASE RemoveAll
    BY <1>1 DEF RemoveAll, TypeOK
  <1>2. CASE RemoveNext
    <2>1. cidx \in Ids /\ cidx + 1 \in 1..(MaxFingers + 1)
      BY <1>2 DEF RemoveNext, TypeOK, Ids
    <2>2. /\ db' \in [Groups -> [Ids -> Templates \cup {None}]] /\ gone' \subseteq Templates
          /\ finger' \in [Slots -> Templates \cup {None}]
      BY <1>2, <2>1, DeleteTypes DEF RemoveNext, TypeOK
    <2> QED
      BY <1>2, <2>1, <2>2 DEF RemoveNext, TypeOK
  <1>3. CASE RemoveDone
    BY <1>3 DEF RemoveDone, TypeOK
  <1>4. CASE Enroll
    BY <1>4 DEF Enroll, TypeOK
  <1>5. CASE Authenticate
    BY <1>5 DEF Authenticate, TypeOK
  <1>6. ASSUME NEW g \in Groups, SetActiveGroup(g) PROVE TypeInv'
    BY <1>6 DEF SetActiveGroup, TypeOK
  <1>7. ASSUME NEW id \in Ids, RemoveOne(id) PROVE TypeInv'
    <2>1. /\ db' \in [Groups -> [Ids -> Templates \cup {None}]] /\ gone' \subseteq Templates
          /\ finger' \in [Slots -> Templates \cup {None}]
      BY <1>7, DeleteTypes DEF RemoveOne
    <2> QED
      BY <1>7, <2>1 DEF RemoveOne, TypeOK
  <1> QED
    BY <1>1, <1>2, <1>3, <1>4, <1>5, <1>6, <1>7

\* The worker's steps keep the types.
LEMMA TypeWorker ==
  ASSUME TypeInv, WorkerNext
  PROVE  TypeInv'
  <1> USE Numbers DEF TypeInv, LoopInv, diskVars, callerVars
  <1>1. CASE EnrollBegin
    BY <1>1 DEF EnrollBegin, TypeOK
  <1>2. CASE EnrollAbandon
    BY <1>2 DEF EnrollAbandon, TypeOK
  <1>3. CASE EnrollStore
    <2>1. fresh \in Templates /\ fresh + 1 \in (MaxFingers + 1)..(MaxFingers + MaxEnrolls + 1)
      BY <1>3 DEF EnrollStore, TypeOK, Templates
    <2> QED
      BY <1>3, <2>1 DEF EnrollStore, TypeOK
  <1>4. CASE EnrollInsert
    <2>1. db' \in [Groups -> [Ids -> Templates \cup {None}]]
      BY <1>4, InsertTypes DEF EnrollInsert, TypeOK
    <2> QED
      BY <1>4, <2>1 DEF EnrollInsert, TypeOK
  <1>5. CASE Match
    BY <1>5 DEF Match, TypeOK
  <1>6. CASE MatchAbandon
    BY <1>6 DEF MatchAbandon, TypeOK
  <1>7. CASE Resolve
    BY <1>7 DEF Resolve, TypeOK, Slots
  <1>8. CASE Report
    BY <1>8 DEF Report, TypeOK, Slots
  <1> QED
    BY <1>1, <1>2, <1>3, <1>4, <1>5, <1>6, <1>7, <1>8 DEF WorkerNext

\* Every step keeps the types.
LEMMA TypeStep == TypeInv /\ [Next]_vars => TypeInv'
  <1> SUFFICES ASSUME TypeInv, [Next]_vars PROVE TypeInv'
    OBVIOUS
  <1> USE DEF diskVars, callerVars, workerVars
  <1>1. CASE Crash
    <2>1. touched' \in BOOLEAN
      BY <1>1, Zenon DEF Crash
    <2> QED
      BY <1>1, <2>1 DEF Crash, TypeInv, LoopInv, TypeOK, Slots
  <1>2. CASE Open
    BY <1>2 DEF Open, TypeInv, LoopInv, TypeOK
  <1>3. CASE UNCHANGED vars
    BY <1>3 DEF vars, TypeInv, LoopInv, TypeOK
  <1> QED
    BY <1>1, <1>2, <1>3, TypeLoad, TypeCall, TypeWorker DEF Next, CallerNext

\* The HAL as fingerprint_open leaves it is well typed, with any fingers of Samsung's.
LEMMA TypeInit == Init => TypeInv
  <1> SUFFICES ASSUME Init PROVE TypeInv
    OBVIOUS
  <1>1. old = NoFile \/ old \in [Ids -> Templates \cup {None}]
    BY Numbers DEF Init
  <1>2. db \in [Groups -> [Ids -> Templates \cup {None}]]
    BY DEF Init, Empty
  <1>3. strayed \in BOOLEAN /\ touched \in BOOLEAN
    BY Zenon DEF Init
  <1> QED
    BY <1>1, <1>2, <1>3 DEF Init, TypeInv, TypeOK, LoopInv, Slots

\* The table, the database and the loops over them keep their types, however calls,
\* worker, failures and crashes interleave: no loop leaves the table, and no enrolment
\* creates a template past the bound.
THEOREM StoreTypes == Spec => []TypeOK
  <1>1. TypeInv => TypeOK
    BY DEF TypeInv
  <1> QED
    BY <1>1, TypeInit, TypeStep, PTL DEF Spec

-----------------------------------------------------------------------------
(* The worker and a table that nobody touches. *)

\* The scan of the table counts up: it reaches a count at one finger only.
LEMMA OneNthExisting ==
  ASSUME NEW n, NEW i \in Ids, NEW j \in Ids, NthExisting(n, i), NthExisting(n, j)
  PROVE  i = j
  <1> DEFINE Upto(k) == {e \in Existing : e <= k}
  <1>1. IsFiniteSet(Ids)
    BY FS_Interval DEF Ids
  <1>2. ASSUME NEW k \in Ids PROVE IsFiniteSet(Upto(k))
    BY <1>1, FS_Subset DEF Existing
  <1>3. ASSUME NEW k \in Ids, NEW m \in Ids, NthExisting(n, k), NthExisting(n, m), k < m
        PROVE  FALSE
    <2>1. Upto(k) \subseteq Upto(m)
      <3>1. \A e \in Ids : e <= k => e <= m
        BY <1>3 DEF Ids
      <3> QED
        BY <3>1 DEF Existing
    <2>2. m \in Upto(m) /\ m \notin Upto(k)
      BY <1>3, Numbers DEF NthExisting
    <2>3. Cardinality(Upto(k)) = Cardinality(Upto(m))
      BY <1>3 DEF NthExisting
    <2> HIDE DEF Upto
    <2>4. Upto(k) = Upto(m)
      BY <1>2, <2>1, <2>3, FS_Subset
    <2> QED
      BY <2>2, <2>4
  <1>4. i < j \/ j < i \/ i = j
    BY Numbers
  <1> QED
    BY <1>3, <1>4

\* A step that leaves worker, table and fresh alone, and keeps a ready caller ready.
LEMMA WorkerFrame ==
  ASSUME WorkerInv, UNCHANGED <<workerVars, finger, fresh>>, cpc = "ready" => cpc' = "ready"
  PROVE  WorkerInv'
  BY DEF WorkerInv, workerVars, NthExisting, Existing

\* Nothing is claimed of a worker that is idle or whose table was touched.
LEMMA WorkerIdle ==
  ASSUME touched' \/ wpc' = "idle"
  PROVE  WorkerInv'
  BY DEF WorkerInv

\* A call that changes the table under a running worker says so in touched.
LEMMA WorkerTouched ==
  ASSUME TouchTable
  PROVE  WorkerInv'
  <1>1. touched' \/ wpc' = "idle"
    BY DEF TouchTable
  <1> QED
    BY <1>1, WorkerIdle

\* The caller's steps keep WorkerInv.
LEMMA WorkerCall ==
  ASSUME TypeInv, WorkerInv, CallerNext
  PROVE  WorkerInv'
  <1>0. cpc # "ready" => touched \/ wpc = "idle"
    BY DEF WorkerInv
  <1>1. CASE LoadGroup
    BY <1>0, <1>1, WorkerIdle DEF LoadGroup, workerVars
  <1>2. CASE LoadSamsung
    BY <1>0, <1>2, WorkerIdle DEF LoadSamsung, workerVars
  <1>3. CASE ConvertNext
    BY <1>0, <1>3, WorkerIdle DEF ConvertNext, workerVars
  <1>4. CASE ConvertDone
    BY <1>0, <1>4, WorkerIdle DEF ConvertDone, workerVars
  <1>5. CASE RemoveAll
    BY <1>5, WorkerTouched DEF RemoveAll
  <1>6. CASE RemoveNext
    BY <1>0, <1>6, WorkerIdle DEF RemoveNext, workerVars
  <1>7. CASE RemoveDone
    BY <1>0, <1>7, WorkerIdle DEF RemoveDone, workerVars
  <1>8. CASE Enroll
    BY <1>8 DEF Enroll, callerVars, WorkerInv
  <1>9. CASE Authenticate
    BY <1>9 DEF Authenticate, callerVars, WorkerInv
  <1>10. ASSUME NEW g \in Groups, SetActiveGroup(g) PROVE WorkerInv'
    BY <1>10, WorkerTouched DEF SetActiveGroup
  <1>11. ASSUME NEW id \in Ids, RemoveOne(id) PROVE WorkerInv'
    BY <1>11, WorkerTouched DEF RemoveOne
  <1> QED
    BY <1>1, <1>2, <1>3, <1>4, <1>5, <1>6, <1>7, <1>8, <1>9, <1>10, <1>11 DEF CallerNext

\* The worker's own steps keep WorkerInv.
LEMMA WorkerWork ==
  ASSUME TypeInv, WorkerInv, WorkerNext
  PROVE  WorkerInv'
  <1> USE DEF WorkerInv, diskVars, callerVars
  <1>1. CASE EnrollBegin
    <2> SUFFICES ASSUME ~touched PROVE cpc = "ready" /\ slot' \in Ids /\ finger[slot'] = None
      BY <1>1 DEF EnrollBegin
    <2>1. PICK idx \in 1..(MaxFingers + 1) : FirstFree(idx) /\ slot' = idx
      BY <1>1 DEF EnrollBegin
    <2>2. PICK id \in Ids : finger[id] = None
      BY <1>1 DEF EnrollBegin
    <2>3. idx \in Ids
      BY <2>1, <2>2 DEF FirstFree, Ids
    <2> QED
      BY <1>1, <2>1, <2>3 DEF EnrollBegin, FirstFree
  <1>2. CASE EnrollAbandon
    BY <1>2 DEF EnrollAbandon
  <1>3. CASE EnrollStore
    <2>1. finger'[slot] = fresh /\ fresh' - 1 = fresh
      BY <1>3, Numbers DEF EnrollStore, TypeInv, TypeOK
    <2> QED
      BY <1>3, <2>1 DEF EnrollStore
  <1>4. CASE EnrollInsert
    BY <1>4 DEF EnrollInsert
  <1>5. CASE Match
    BY <1>5 DEF Match, NthExisting, Existing
  <1>6. CASE MatchAbandon
    BY <1>6 DEF MatchAbandon
  <1>7. CASE Resolve
    <2> SUFFICES ASSUME ~touched PROVE cpc = "ready" /\ index' \in Ids /\ finger[index'] = found
      BY <1>7 DEF Resolve
    <2>1. PICK id \in Ids : NthExisting(rank, id) /\ finger[id] = found
      BY <1>7 DEF Resolve
    <2>2. PICK i \in Ids : NthExisting(rank, i) /\ index' = i
      BY <1>7, <2>1 DEF Resolve
    <2>3. i = id
      BY <2>1, <2>2, OneNthExisting
    <2> QED
      BY <1>7, <2>1, <2>2, <2>3 DEF Resolve
  <1>8. CASE Report
    BY <1>8 DEF Report
  <1> QED
    BY <1>1, <1>2, <1>3, <1>4, <1>5, <1>6, <1>7, <1>8 DEF WorkerNext

\* Every step keeps WorkerInv.
LEMMA WorkerStep == TypeInv /\ WorkerInv /\ [Next]_vars => WorkerInv'
  <1> SUFFICES ASSUME TypeInv, WorkerInv, [Next]_vars PROVE WorkerInv'
    OBVIOUS
  <1>1. CASE Crash
    BY <1>1, WorkerIdle DEF Crash
  <1>2. CASE Open
    BY <1>2, WorkerFrame DEF Open
  <1>3. CASE UNCHANGED vars
    BY <1>3, WorkerFrame DEF vars, callerVars
  <1> QED
    BY <1>1, <1>2, <1>3, WorkerCall, WorkerWork DEF Next

\* Nobody works at first.
LEMMA WorkerInit == Init => WorkerInv
  BY DEF Init, WorkerInv

\* vcs_enroll stores its finger inside tz.finger for any size of the table, any failures
\* and crashes, unless the table was changed after fingerprint_enroll found it to have
\* room: the full table of its own group never sends idx past the array.
THEOREM EnrollsInsideTable == Spec => []SlotInArray
  <1>1. WorkerInv => SlotInArray
    BY Numbers DEF WorkerInv, SlotInArray
  <1> QED
    BY <1>1, TypeInit, TypeStep, WorkerInit, WorkerStep, PTL DEF Spec

\* The position in the list of existing fingers that the trusted application answers
\* with is turned back into the finger that matched, for any table with any holes,
\* unless the table was changed under the running authentication.
THEOREM ReportsWhatMatched == Spec => []ReportsTheMatch
  <1>1. WorkerInv => ReportsTheMatch
    BY Numbers DEF WorkerInv, ReportsTheMatch
  <1> QED
    BY <1>1, TypeInit, TypeStep, WorkerInit, WorkerStep, PTL DEF Spec

-----------------------------------------------------------------------------
(* Removed fingers stay removed. *)

\* While only the conversion has run, all there is are Samsung's fingers at their ids.
LEMMA ConvertingAccounts ==
  ASSUME TypeOK', Converting'
  PROVE  Accounted' /\ OnePlace'
  <1>1. \A g \in Groups, id \in Ids : db'[g][id] \in {0, id}
    BY DEF Converting, None
  <1>2. \A id \in Ids : finger'[id] \in {0, id}
    BY DEF Converting, None
  <1>3. \A id \in Ids : 0 \in 0..(fresh' - 1) /\ id \in 0..(fresh' - 1)
    <2>1. fresh' \in Int /\ fresh' > MaxFingers /\ MaxFingers \in Int /\ MaxFingers > 0
      BY DEF TypeOK
    <2>2. \A f, i \in Int : 1 <= i /\ i < f => 0 \in 0..(f - 1) /\ i \in 0..(f - 1)
      OBVIOUS
    <2>3. \A id \in Ids : id \in Int /\ 1 <= id /\ id < fresh'
      BY <2>1 DEF Ids
    <2> QED
      BY <2>1, <2>2, <2>3
  <1>4. gone' = {}
    BY DEF Converting
  <1>5. Accounted'
    BY <1>1, <1>2, <1>3, <1>4 DEF Accounted
  <1>6. \A g, h \in Groups, i, j \in Ids :
            db'[g][i] # None /\ db'[g][i] = db'[h][j] => g = h /\ i = j
    BY <1>1 DEF Converting, None
  <1>7. \A g \in Groups, i, j \in Ids : finger'[i] # None /\ finger'[i] = db'[g][j] => i = j
    BY <1>1, <1>2 DEF None
  <1> QED
    BY <1>5, <1>6, <1>7 DEF OnePlace

\* db_read_to_tz takes its entries from the rows of the active group, keeps them or
\* clears them: no template comes back by that, and none moves.
LEMMA ReloadAccounts ==
  ASSUME TypeOK, Accounted, OnePlace, UNCHANGED <<db, gone, fresh>>,
         \A id \in Ids : finger'[id] \in {None, finger[id], db[gid][id]}
  PROVE  Accounted' /\ OnePlace'
  <1>1. gid \in Groups /\ 0 \in 0..(fresh - 1)
    BY DEF TypeOK
  <1>2. 0 \notin gone
    BY DEF Accounted
  <1>3. Accounted'
    BY <1>1, <1>2 DEF Accounted, None
  <1>4. OnePlace'
    BY <1>1 DEF OnePlace
  <1> QED
    BY <1>3, <1>4

\* What the entries are after db_read_to_tz.
LEMMA LoadedEntries ==
  ASSUME TypeOK, NEW rows, NEW id \in Ids
  PROVE  /\ Loaded(rows)[id] \in {None, finger[id], rows[id]}
         /\ rows[id] # None => Loaded(rows)[id] = rows[id]
         /\ finger[id] = None => Loaded(rows)[id] = rows[id] \/ Loaded(rows)[id] = None
         /\ id # MaxFingers /\ rows[id] = None => Loaded(rows)[id] = None
         /\ Cleared[id] \in {None, finger[id]}
  <1>1. id \in Slots /\ (id # MaxFingers => id < MaxFingers)
    BY DEF Ids, Slots
  <1> QED
    BY <1>1 DEF Loaded, Cleared

\* db_write_to_db, deleting: the template that is gone was in that row, and in that entry
\* of the table if at all, so it is nowhere any more.
LEMMA DeleteAccounts ==
  ASSUME TypeOK, Accounted, OnePlace, NEW id \in Ids, Delete(id), UNCHANGED fresh
  PROVE  Accounted' /\ OnePlace'
  <1>0. gid \in Groups /\ 0 \in 0..(fresh - 1) /\ 0 \notin gone
    BY DEF TypeOK, Accounted
  <1>1. \A i \in Ids : finger'[i] = IF i = id THEN None ELSE finger[i]
    BY Numbers DEF Delete, TypeOK
  <1>2. CASE UNCHANGED <<db, gone>>
    BY <1>1, <1>2, ReloadAccounts
  <1>3. CASE /\ db' = [db EXCEPT ![gid][id] = None]
             /\ gone' = IF db[gid][id] = None THEN gone ELSE gone \cup {db[gid][id]}
    <2>1. \A g \in Groups, i \in Ids :
              db'[g][i] = IF g = gid /\ i = id THEN None ELSE db[g][i]
      BY <1>0, <1>3 DEF TypeOK
    <2>2. \A g \in Groups, i \in Ids :
              db[g][i] # None /\ ~(g = gid /\ i = id) => db[g][i] # db[gid][id]
      BY <1>0 DEF OnePlace
    <2>3. \A i \in Ids : finger[i] # None /\ i # id => finger[i] # db[gid][id]
      BY <1>0 DEF OnePlace
    <2>4. gone' \subseteq 1..(fresh - 1) /\ 0 \notin gone'
      BY <1>0, <1>3 DEF Accounted, None
    <2>5. \A g \in Groups, i \in Ids : db'[g][i] \in 0..(fresh - 1) /\ db'[g][i] \notin gone'
      BY <1>0, <1>3, <2>1, <2>2, <2>4 DEF Accounted, None
    <2>6. \A i \in Ids : finger'[i] \in 0..(fresh - 1) /\ finger'[i] \notin gone'
      BY <1>0, <1>1, <1>3, <2>3, <2>4 DEF Accounted, None
    <2>7. Accounted'
      BY <2>4, <2>5, <2>6 DEF Accounted
    <2>8. OnePlace'
      BY <1>1, <2>1 DEF OnePlace
    <2> QED
      BY <2>7, <2>8
  <1> QED
    BY <1>2, <1>3 DEF Delete

\* The template that vfmEnrollFinish creates is new to table and database.
LEMMA StoreAccounts ==
  ASSUME TypeInv, Accounted, OnePlace, EnrollStore
  PROVE  Accounted' /\ OnePlace' /\ NewTemplate'
  <1>1. /\ fresh \in Nat /\ fresh' = fresh + 1 /\ fresh # 0 /\ slot' = slot /\ slot \in Ids
        /\ UNCHANGED <<db, gone>>
    BY DEF TypeInv, TypeOK, EnrollStore, diskVars
  <1>2. \A i \in Ids : finger'[i] = IF i = slot THEN fresh ELSE finger[i]
    BY Numbers DEF EnrollStore, TypeInv, TypeOK
  <1>3. \A x \in 0..(fresh - 1) : x \in 0..(fresh' - 1) /\ x # fresh
    BY <1>1
  <1>4. fresh \in 0..(fresh' - 1) /\ fresh' - 1 = fresh /\ fresh \notin gone
    BY <1>1 DEF Accounted
  <1>5. gone \subseteq 1..(fresh' - 1)
    BY <1>1 DEF Accounted
  <1>6. Accounted'
    BY <1>1, <1>2, <1>3, <1>4, <1>5 DEF Accounted
  <1>7. OnePlace'
    BY <1>1, <1>2, <1>3 DEF Accounted, OnePlace
  <1>8. NewTemplate'
    BY <1>1, <1>2, <1>3, <1>4 DEF Accounted, NewTemplate
  <1> QED
    BY <1>6, <1>7, <1>8

\* vcs_enroll inserts the template it created, unless somebody touched the table.
LEMMA InsertAccounts ==
  ASSUME TypeInv, WorkerInv, Accounted, OnePlace, NewTemplate, EnrollInsert, ~touched
  PROVE  Accounted' /\ OnePlace'
  <1>1. /\ gid \in Groups /\ slot \in Ids /\ finger[slot] = fresh - 1 /\ fresh - 1 # None
        /\ UNCHANGED <<gone, finger, fresh>>
    BY DEF EnrollInsert, TypeInv, TypeOK, LoopInv, WorkerInv, None
  <1>2. CASE UNCHANGED db
    BY <1>1, <1>2, ReloadAccounts DEF TypeInv
  <1>3. CASE db' = Inserted(slot)
    <2>1. \A g \in Groups, i \in Ids :
              db'[g][i] = IF g = gid /\ i = slot THEN fresh - 1 ELSE db[g][i]
      BY <1>1, <1>3 DEF Inserted, RowOf, TypeInv, TypeOK
    <2>2. \A g \in Groups, i \in Ids : db[g][i] # fresh - 1
      BY DEF NewTemplate, EnrollInsert
    <2>3. \A i \in Ids : i # slot => finger[i] # fresh - 1
      BY DEF NewTemplate, EnrollInsert
    <2>4. Accounted'
      BY <1>1, <2>1 DEF Accounted
    <2>5. OnePlace'
      BY <1>1, <2>1, <2>2, <2>3 DEF OnePlace
    <2> QED
      BY <2>4, <2>5
  <1> QED
    BY <1>2, <1>3 DEF EnrollInsert

\* Samsung's database is gone before the first call is served.
LEMMA ServingConverted ==
  ASSUME GoneInv, ~strayed, cpc \in {"ready", "removing"} \/ wpc # "idle"
  PROVE  Accounted /\ OnePlace /\ NewTemplate /\ old = NoFile
  BY DEF GoneInv, Converting

\* A worker that nobody disturbed is not about to insert, so NewTemplate asks nothing.
LEMMA NothingNew ==
  ASSUME touched' \/ wpc' # "insert"
  PROVE  NewTemplate'
  BY DEF NewTemplate

\* Loading and converting keep GoneInv.
LEMMA GoneLoad ==
  ASSUME TypeInv, TypeInv', WorkerInv, GoneInv, LoadGroup \/ LoadSamsung \/ ConvertNext \/ ConvertDone
  PROVE  GoneInv'
  <1> SUFFICES ASSUME ~strayed'
               PROVE  Accounted' /\ OnePlace' /\ NewTemplate' /\ (old' # NoFile => Converting')
    BY DEF GoneInv
  <1>1. ~strayed
    BY Zenon DEF LoadGroup, LoadSamsung, ConvertNext, ConvertDone, diskVars
  <1>2. Accounted /\ OnePlace /\ (old # NoFile => Converting)
    BY <1>1 DEF GoneInv
  <1>3. TypeOK /\ TypeOK' /\ NewTemplate'
    <2>1. UNCHANGED workerVars /\ cpc # "ready"
      BY DEF LoadGroup, LoadSamsung, ConvertNext, ConvertDone
    <2>2. touched' \/ wpc' # "insert"
      BY <2>1 DEF WorkerInv, workerVars
    <2> QED
      BY <2>2, NothingNew DEF TypeInv
  <1>4. CASE LoadGroup
    <2>1. PICK rows \in Selected(db[gid]) : finger' = Loaded(rows)
      BY <1>4 DEF LoadGroup
    <2>2. db[gid] \in [Ids -> Templates \cup {None}]
      BY <1>3 DEF TypeOK
    <2>3. \A id \in Ids : rows[id] \in {None, db[gid][id]}
      BY <2>2, SelectedRows
    <2>4. \A id \in Ids : finger'[id] \in {None, finger[id], db[gid][id]}
      BY <1>3, <2>1, <2>3, LoadedEntries
    <2> QED
      BY <1>2, <1>3, <1>4, <2>4, ReloadAccounts DEF LoadGroup, diskVars
  <1>5. CASE LoadSamsung
    <2>1. PICK rows \in Selected(old) : finger' = Loaded(rows) /\ cpc' = "convert"
      BY <1>5 DEF LoadSamsung
    <2>2. old \in [Ids -> Templates \cup {None}]
      BY <1>3, <1>5 DEF LoadSamsung, TypeOK
    <2>3. \A id \in Ids : rows[id] \in {None, old[id]}
      BY <2>1, <2>2, SelectedRows
    <2>4. Converting'
      BY <1>2, <1>3, <1>5, <2>1, <2>3, LoadedEntries DEF LoadSamsung, Converting, workerVars
    <2> QED
      BY <1>3, <2>4, ConvertingAccounts
  <1>6. CASE ConvertNext
    <2>1. cidx \in Ids /\ Converting
      BY <1>2, <1>6 DEF ConvertNext, TypeInv, TypeOK, LoopInv, Ids
    <2>2. db' = db \/ (finger[cidx] # None /\ db' = [db EXCEPT ![0][cidx] = finger[cidx]])
      BY <1>6, <2>1 DEF ConvertNext, Inserted, RowOf, Converting
    <2>3. \A g \in Groups, id \in Ids :
              db'[g][id] = db[g][id] \/ (g = 0 /\ id = cidx /\ db'[g][id] = finger[id])
      BY <1>3, <2>1, <2>2 DEF TypeOK
    <2>4. Converting'
      BY <1>6, <2>1, <2>3 DEF ConvertNext, Converting, workerVars
    <2> QED
      BY <1>3, <2>4, ConvertingAccounts
  <1>7. CASE ConvertDone
    <2>1. old' = NoFile
      BY <1>7 DEF ConvertDone
    <2> QED
      BY <1>2, <1>3, <1>7, <2>1, ReloadAccounts DEF ConvertDone
  <1> QED
    BY <1>4, <1>5, <1>6, <1>7

\* The HAL calls keep GoneInv.
LEMMA GoneCall ==
  ASSUME TypeInv, WorkerInv, GoneInv,
         \/ RemoveAll \/ RemoveNext \/ RemoveDone \/ Enroll \/ Authenticate
         \/ \E g \in Groups : SetActiveGroup(g)
         \/ \E id \in Ids : RemoveOne(id)
  PROVE  GoneInv'
  <1> USE DEF diskVars, callerVars
  <1> SUFFICES ASSUME ~strayed'
               PROVE  Accounted' /\ OnePlace' /\ NewTemplate' /\ (old' # NoFile => Converting')
    BY DEF GoneInv
  <1>1. UNCHANGED <<strayed, old, fresh>> /\ cpc \in {"ready", "removing"}
    BY DEF RemoveAll, RemoveNext, RemoveDone, Enroll, Authenticate, SetActiveGroup, RemoveOne, TouchTable
  <1>2. TypeOK /\ Accounted /\ OnePlace /\ old' = NoFile
    BY <1>1, ServingConverted DEF TypeInv
  <1>3. NewTemplate'
    <2>1. touched' \/ wpc' # "insert"
      BY DEF RemoveAll, RemoveNext, RemoveDone, Enroll, Authenticate, SetActiveGroup, RemoveOne,
             TouchTable, WorkerInv, workerVars
    <2> QED
      BY <2>1, NothingNew
  <1>4. CASE UNCHANGED <<db, gone, finger>>
    BY <1>1, <1>2, <1>3, <1>4, ReloadAccounts
  <1>5. CASE RemoveNext /\ Delete(cidx)
    <2>1. cidx \in Ids
      BY <1>5 DEF RemoveNext, TypeInv, TypeOK, LoopInv, Ids
    <2> QED
      BY <1>1, <1>2, <1>3, <1>5, <2>1, DeleteAccounts
  <1>6. ASSUME NEW id \in Ids, RemoveOne(id)
        PROVE  Accounted' /\ OnePlace'
    BY <1>1, <1>2, <1>6, DeleteAccounts DEF RemoveOne
  <1> QED
    BY <1>2, <1>3, <1>4, <1>5, <1>6 DEF RemoveAll, RemoveNext, RemoveDone, Enroll, Authenticate, SetActiveGroup

\* The worker's steps keep GoneInv.
LEMMA GoneWorker ==
  ASSUME TypeInv, WorkerInv, GoneInv, WorkerNext
  PROVE  GoneInv'
  <1> USE DEF diskVars
  <1> SUFFICES ASSUME ~strayed'
               PROVE  Accounted' /\ OnePlace' /\ NewTemplate' /\ (old' # NoFile => Converting')
    BY DEF GoneInv
  <1>0. ~strayed
    BY Zenon DEF WorkerNext, EnrollBegin, EnrollAbandon, EnrollStore, EnrollInsert, Match,
                 MatchAbandon, Resolve, Report
  <1>1. old' = old /\ wpc # "idle" /\ ~strayed
    BY <1>0 DEF WorkerNext, EnrollBegin, EnrollAbandon, EnrollStore, EnrollInsert, Match,
                MatchAbandon, Resolve, Report
  <1>2. TypeOK /\ Accounted /\ OnePlace /\ NewTemplate /\ old' = NoFile
    BY <1>1, ServingConverted DEF TypeInv
  <1>3. CASE EnrollStore
    BY <1>2, <1>3, StoreAccounts
  <1>4. CASE EnrollInsert
    <2>1. NewTemplate'
      BY <1>4, NothingNew DEF EnrollInsert
    <2>2. CASE UNCHANGED db
      BY <1>2, <1>4, <2>1, <2>2, ReloadAccounts DEF EnrollInsert
    <2>3. CASE strayed' = (strayed \/ touched)
      BY <1>2, <1>4, <2>1, <2>3, InsertAccounts
    <2> QED
      BY <1>4, <2>2, <2>3 DEF EnrollInsert
  <1>5. ASSUME ~EnrollStore, ~EnrollInsert
        PROVE  UNCHANGED <<db, gone, finger, fresh>> /\ wpc' # "insert"
    BY <1>5 DEF WorkerNext, EnrollBegin, EnrollAbandon, Match, MatchAbandon, Resolve, Report
  <1> QED
    BY <1>2, <1>3, <1>4, <1>5, ReloadAccounts, NothingNew

\* Every step keeps GoneInv.
LEMMA GoneStep == TypeInv /\ WorkerInv /\ GoneInv /\ [Next]_vars => GoneInv'
  <1> SUFFICES ASSUME TypeInv, WorkerInv, GoneInv, [Next]_vars PROVE GoneInv'
    OBVIOUS
  <1> USE DEF diskVars, callerVars, workerVars
  <1>0. TypeInv'
    BY TypeStep
  <1>1. CASE Crash
    <2> SUFFICES ASSUME ~strayed'
                 PROVE  Accounted' /\ OnePlace' /\ NewTemplate' /\ (old' # NoFile => Converting')
      BY DEF GoneInv
    <2>1. TypeOK /\ Accounted /\ OnePlace /\ (old # NoFile => Converting)
      BY <1>1 DEF Crash, GoneInv, TypeInv
    <2>2. \A id \in Ids : finger'[id] = None
      BY <1>1, Numbers DEF Crash
    <2>3. old' # NoFile => Converting'
      BY <1>1, <2>1, <2>2 DEF Crash, Converting
    <2>4. NewTemplate'
      BY <1>1, NothingNew DEF Crash
    <2> QED
      BY <1>1, <2>1, <2>2, <2>3, <2>4, ReloadAccounts DEF Crash
  <1>2. CASE Open
    <2> SUFFICES ASSUME ~strayed'
                 PROVE  Accounted' /\ OnePlace' /\ NewTemplate' /\ (old' # NoFile => Converting')
      BY DEF GoneInv
    <2>1. TypeOK /\ Accounted /\ OnePlace /\ (old # NoFile => Converting)
      BY <1>2 DEF Open, GoneInv, TypeInv
    <2>2. old' # NoFile => Converting'
      BY <1>2, <2>1 DEF Open, Converting
    <2>3. NewTemplate'
      BY <1>2, NothingNew DEF Open, WorkerInv
    <2> QED
      BY <1>2, <2>1, <2>2, <2>3, ReloadAccounts DEF Open
  <1>3. CASE UNCHANGED vars
    BY <1>3 DEF vars, GoneInv, Accounted, OnePlace, NewTemplate, Converting
  <1> QED
    BY <1>0, <1>1, <1>2, <1>3, GoneLoad, GoneCall, GoneWorker DEF Next, CallerNext

\* Nothing is stored at first but Samsung's fingers.
LEMMA GoneInit == Init => GoneInv
  <1> SUFFICES ASSUME Init PROVE GoneInv
    OBVIOUS
  <1>1. /\ \A g \in Groups, id \in Ids : db[g][id] = 0
        /\ \A id \in Ids : finger[id] = 0
        /\ 0 \in 0..(fresh - 1)
    BY Numbers DEF Init, Empty, None
  <1>2. Accounted /\ OnePlace /\ NewTemplate
    BY <1>1 DEF Init, Accounted, OnePlace, NewTemplate, None
  <1>3. old # NoFile => \A id \in Ids : old[id] \in {None, id}
    BY DEF Init
  <1>4. old # NoFile => Converting
    BY <1>1, <1>3 DEF Init, Converting, None
  <1> QED
    BY <1>2, <1>4 DEF GoneInv

\* A finger whose removal was reported never comes back, for any table, groups, failures
\* of sqlite and crashes, unless Samsung's database could not be opened or unlinked or an
\* enrolment inserted a row from a table that was changed under it.
THEOREM RemovedStaysRemoved == Spec => []GoneStaysGone
  <1>1. GoneInv => GoneStaysGone
    BY DEF GoneInv, Accounted, GoneStaysGone
  <1> QED
    BY <1>1, TypeInit, TypeStep, WorkerInit, WorkerStep, GoneInit, GoneStep, PTL DEF Spec

-----------------------------------------------------------------------------
(* The table is the active group's, and the database keeps its promise. *)

\* When sqlite never fails and no table is touched, Samsung's database never strays.
LEMMA NeverTouched ==
  ASSUME Exclusive, Faults = {}, ~touched, ~strayed, [Next]_vars
  PROVE  ~touched' /\ ~strayed'
  <1> USE DEF diskVars, workerVars, callerVars, TouchTable
  <1>1. CASE LoadGroup \/ LoadSamsung \/ ConvertNext \/ ConvertDone
    BY <1>1 DEF LoadGroup, LoadSamsung, ConvertNext, ConvertDone
  <1>2. CASE RemoveAll \/ RemoveNext \/ RemoveDone \/ Enroll \/ Authenticate
    <2>1. CASE RemoveAll
      BY <2>1 DEF RemoveAll
    <2>2. CASE RemoveNext \/ RemoveDone
      BY <2>2 DEF RemoveNext, RemoveDone
    <2>3. CASE Enroll \/ Authenticate
      BY <2>3 DEF Enroll, Authenticate
    <2> QED
      BY <1>2, <2>1, <2>2, <2>3
  <1>3. ASSUME NEW g \in Groups, SetActiveGroup(g) PROVE ~touched' /\ ~strayed'
    BY <1>3 DEF SetActiveGroup
  <1>4. ASSUME NEW id \in Ids, RemoveOne(id) PROVE ~touched' /\ ~strayed'
    BY <1>4 DEF RemoveOne
  <1>5. CASE WorkerNext
    <2>1. CASE EnrollInsert
      BY <2>1 DEF EnrollInsert
    <2>2. CASE ~EnrollInsert
      BY <1>5, <2>2 DEF WorkerNext, EnrollBegin, EnrollAbandon, EnrollStore, Match, MatchAbandon,
                        Resolve, Report
    <2> QED
      BY <2>1, <2>2
  <1>6. CASE Crash \/ Open \/ UNCHANGED vars
    BY <1>6 DEF Crash, Open, vars
  <1> QED
    BY <1>1, <1>2, <1>3, <1>4, <1>5, <1>6 DEF Next, CallerNext

\* Loading and converting establish TableInv.
LEMMA TableLoad ==
  ASSUME TypeInv, WorkerInv, GoneInv, TableInv, Faults = {},
         LoadGroup \/ LoadSamsung \/ ConvertNext \/ ConvertDone
  PROVE  TableParts'
  <1>0. TypeOK /\ wpc' = "idle" /\ UNCHANGED gid /\ (old # NoFile => Converting)
    BY DEF TableInv, TableParts, TypeInv, WorkerInv, GoneInv, LoadGroup, LoadSamsung, ConvertNext, ConvertDone,
           workerVars
  <1>1. CASE LoadGroup
    <2>1. db[gid] \in [Ids -> Templates \cup {None}]
      BY <1>0 DEF TypeOK
    <2>2. finger' = Loaded(db[gid])
      BY <1>1, <2>1, SelectedRows DEF LoadGroup
    <2> QED
      BY <1>0, <1>1, <2>2, LoadedEntries DEF LoadGroup, TableParts, StoredIsLoaded, Serving, diskVars
  <1>2. CASE LoadSamsung
    <2>0. old \in [Ids -> Templates \cup {None}]
      BY <1>0, <1>2 DEF LoadSamsung, TypeOK
    <2>1. finger' = Loaded(old) /\ cpc' = "convert" /\ cidx' = 1 /\ UNCHANGED <<old, db>>
      BY <1>2, <2>0, SelectedRows DEF LoadSamsung
    <2>2. \A id \in Ids : finger[id] = None
      BY <1>0, <1>2 DEF LoadSamsung, Converting
    <2>3. \A id \in Ids : finger'[id] = old[id] /\ ~(id < 1)
      BY <1>0, <2>1, <2>2, LoadedEntries DEF Ids
    <2> QED
      BY <1>0, <2>1, <2>3 DEF TableParts, StoredIsLoaded, Serving
  <1>3. CASE ConvertNext
    <2>1. cidx \in Ids /\ Converting /\ cidx' = cidx + 1 /\ UNCHANGED <<finger, old, cpc>>
      BY <1>0, <1>3 DEF ConvertNext, TypeInv, TypeOK, LoopInv, Ids
    <2>2. (db' = db /\ finger[cidx] = None) \/ db' = [db EXCEPT ![0][cidx] = finger[cidx]]
      BY <1>3, <2>1 DEF ConvertNext, Inserted, RowOf, Converting
    <2>3. \A id \in Ids : id < cidx + 1 => id < cidx \/ id = cidx
      BY <2>1 DEF Ids
    <2>4. \A id \in Ids : id < cidx => db[0][id] = finger[id]
      BY <1>3 DEF ConvertNext, TableInv, TableParts
    <2>5. db'[0][cidx] = finger[cidx]
      BY <1>0, <1>3, <2>1, <2>2 DEF TypeOK, Converting, ConvertNext, TableInv, TableParts
    <2>6. \A id \in Ids : id # cidx => db'[0][id] = db[0][id]
      BY <1>0, <2>1, <2>2 DEF TypeOK
    <2>7. \A id \in Ids : id < cidx' => db'[0][id] = finger[id]
      BY <2>1, <2>3, <2>4, <2>5, <2>6
    <2> QED
      BY <1>0, <1>3, <2>1, <2>7 DEF ConvertNext, TableInv, TableParts, StoredIsLoaded, Serving
  <1>4. CASE ConvertDone
    <2>1. gid = 0 /\ \A id \in Ids : id < cidx
      BY <1>0, <1>4 DEF ConvertDone, TypeInv, TypeOK, LoopInv, Ids, Converting
    <2> QED
      BY <1>0, <1>4, <2>1 DEF ConvertDone, TableInv, TableParts, StoredIsLoaded, Serving
  <1> QED
    BY <1>1, <1>2, <1>3, <1>4

\* db_write_to_db clears row and entry together when sqlite does not fail.
LEMMA TableDelete ==
  ASSUME TypeOK, TableInv, Faults = {}, NEW id \in Ids, Delete(id), wpc' = "idle", wpc = "idle",
         cpc \in {"ready", "removing"}, UNCHANGED <<cpc, gid>>
  PROVE  TableParts'
  <1>1. \A i \in Ids : finger'[i] = IF i = id THEN None ELSE finger[i]
    BY Numbers DEF Delete, TypeOK
  <1>2. \A i \in Ids : db'[gid][i] = IF i = id THEN None ELSE db[gid][i]
    BY DEF Delete, TypeOK
  <1> QED
    BY <1>1, <1>2 DEF TableInv, TableParts, StoredIsLoaded, Serving

\* The HAL calls keep TableInv.
LEMMA TableCall ==
  ASSUME TypeInv, WorkerInv, TableInv, Exclusive, Faults = {},
         \/ RemoveAll \/ RemoveNext \/ RemoveDone \/ Enroll \/ Authenticate
         \/ \E g \in Groups : SetActiveGroup(g)
         \/ \E id \in Ids : RemoveOne(id)
  PROVE  TableParts'
  <1> USE DEF diskVars, callerVars, workerVars, TouchTable
  <1>0. TypeOK /\ wpc = "idle" /\ wpc' # "insert"
    BY DEF RemoveAll, RemoveNext, RemoveDone, Enroll, Authenticate, SetActiveGroup, RemoveOne,
           TableInv, TableParts, WorkerInv, TypeInv
  <1>1. CASE RemoveAll \/ RemoveDone \/ Enroll \/ Authenticate
    BY <1>0, <1>1 DEF RemoveAll, RemoveDone, Enroll, Authenticate, TableInv, TableParts,
                      StoredIsLoaded, Serving
  <1>2. CASE RemoveNext
    <2>1. CASE finger[cidx] # None
      <3>1. cidx \in Ids
        BY <1>2 DEF RemoveNext, TypeInv, TypeOK, LoopInv, Ids
      <3> QED
        BY <1>0, <1>2, <2>1, <3>1, TableDelete DEF RemoveNext
    <2>2. CASE finger[cidx] = None
      BY <1>0, <1>2, <2>2 DEF RemoveNext, TableInv, TableParts, StoredIsLoaded, Serving
    <2> QED
      BY <2>1, <2>2
  <1>3. ASSUME NEW g \in Groups, SetActiveGroup(g) PROVE TableParts'
    BY <1>0, <1>3 DEF SetActiveGroup, TableParts, StoredIsLoaded, Serving
  <1>4. ASSUME NEW id \in Ids, RemoveOne(id) PROVE TableParts'
    BY <1>0, <1>4, TableDelete DEF RemoveOne
  <1> QED
    BY <1>1, <1>2, <1>3, <1>4

\* The worker's steps keep TableInv: vcs_enroll fills a free entry, whose row is free too.
LEMMA TableWorker ==
  ASSUME TypeInv, WorkerInv, TableInv, Faults = {}, WorkerNext
  PROVE  TableParts'
  <1> USE DEF diskVars, callerVars
  <1>0. TypeOK /\ cpc = "ready" /\ cpc' = "ready" /\ UNCHANGED gid /\ gid \in Groups
    BY DEF WorkerNext, EnrollBegin, EnrollAbandon, EnrollStore, EnrollInsert, Match, MatchAbandon,
           Resolve, Report, TableInv, TableParts, WorkerInv, TypeInv, TypeOK
  <1>1. CASE EnrollStore
    <2>1. slot \in Ids /\ finger[slot] = None /\ UNCHANGED <<db, slot>> /\ wpc' = "insert"
      BY <1>1 DEF EnrollStore, WorkerInv, TableInv, TableParts
    <2>2. db[gid][slot] = None
      BY <1>0, <2>1 DEF TableInv, TableParts, StoredIsLoaded, Serving
    <2>3. \A i \in Ids : i # slot => finger'[i] = finger[i]
      BY <1>0, <1>1, Numbers DEF EnrollStore, TypeOK
    <2> QED
      BY <1>0, <1>1, <2>1, <2>2, <2>3 DEF EnrollStore, TableInv, TableParts, StoredIsLoaded, Serving
  <1>2. CASE EnrollInsert
    <2>1. /\ slot \in Ids /\ finger[slot] = fresh - 1 /\ fresh - 1 # None
          /\ db' = Inserted(slot) /\ UNCHANGED finger /\ wpc' = "idle"
      BY <1>0, <1>2 DEF EnrollInsert, TypeInv, TypeOK, LoopInv, WorkerInv, TableInv, TableParts, None
    <2>2. \A i \in Ids : db'[gid][i] = IF i = slot THEN finger[slot] ELSE db[gid][i]
      BY <1>0, <2>1 DEF Inserted, RowOf, TypeOK
    <2> QED
      BY <1>0, <1>2, <2>1, <2>2 DEF TableInv, TableParts, StoredIsLoaded, Serving
  <1>3. ASSUME ~EnrollStore, ~EnrollInsert
        PROVE  UNCHANGED <<db, finger>> /\ wpc' # "insert" /\ wpc # "insert"
    BY <1>3 DEF WorkerNext, EnrollBegin, EnrollAbandon, Match, MatchAbandon, Resolve, Report
  <1>4. ASSUME ~EnrollStore, ~EnrollInsert PROVE TableParts'
    BY <1>0, <1>3, <1>4 DEF TableInv, TableParts, StoredIsLoaded, Serving
  <1> QED
    BY <1>1, <1>2, <1>4

\* Every step keeps TableInv.
LEMMA TableStep ==
  ASSUME Exclusive, Faults = {}
  PROVE  TypeInv /\ WorkerInv /\ GoneInv /\ TableInv /\ [Next]_vars => TableInv'
  <1> SUFFICES ASSUME TypeInv, WorkerInv, GoneInv, TableInv, [Next]_vars PROVE TableInv'
    OBVIOUS
  <1>1. ~touched' /\ ~strayed'
    BY NeverTouched DEF TableInv, TableParts
  <1>2. ASSUME Crash PROVE TableParts'
    BY <1>2 DEF Crash, TableParts, StoredIsLoaded, Serving
  <1>3. ASSUME Open PROVE TableParts'
    BY <1>3 DEF Open, TableInv, TableParts, WorkerInv, StoredIsLoaded, Serving, workerVars
  <1>4. ASSUME UNCHANGED vars PROVE TableParts'
    BY <1>4 DEF vars, diskVars, callerVars, workerVars, TableInv, TableParts, StoredIsLoaded, Serving
  <1>5. TableParts'
    BY <1>2, <1>3, <1>4, TableLoad, TableCall, TableWorker DEF Next, CallerNext
  <1> QED
    BY <1>1, <1>5 DEF TableInv, TableParts

\* Nothing is served at first.
LEMMA TableInit == Init => TableInv
  BY DEF Init, TableInv, TableParts, StoredIsLoaded, Serving

\* With a framework that leaves the table alone during a session and a sqlite that does
\* not fail, every stored finger of the active group can be matched, across enrolments,
\* removals, group switches, the conversion of Samsung's database and crashes anywhere.
THEOREM EveryFingerLoaded ==
  ASSUME Exclusive, Faults = {}
  PROVE  Spec => []StoredIsLoaded
  <1>1. TableInv => StoredIsLoaded
    BY DEF TableInv, TableParts
  <1>2. TypeInv /\ WorkerInv /\ GoneInv /\ TableInv /\ [Next]_vars => TableInv'
    BY TableStep
  <1> QED
    BY <1>1, <1>2, TypeInit, TypeStep, WorkerInit, WorkerStep, GoneInit, GoneStep, TableInit, PTL
       DEF Spec

\* Under the same conditions nothing is in the table below its last entry but what is
\* stored for the active group: db_read_to_tz leaves no finger of another group there.
THEOREM NothingElseLoaded ==
  ASSUME Exclusive, Faults = {}
  PROVE  Spec => []LoadedIsStored
  <1>1. TableInv => LoadedIsStored
    BY DEF TableInv, TableParts, LoadedIsStored
  <1>2. TypeInv /\ WorkerInv /\ GoneInv /\ TableInv /\ [Next]_vars => TableInv'
    BY TableStep
  <1> QED
    BY <1>1, <1>2, TypeInit, TypeStep, WorkerInit, WorkerStep, GoneInit, GoneStep, TableInit, PTL
       DEF Spec

\* A row that db_convert_old_db or vcs_enroll inserts is one that EnrolledFingers adds.
LEMMA InsertAdds ==
  ASSUME TypeOK, NEW id \in Ids, db[gid][id] = None, finger[id] # None, finger[id] \notin gone,
         db' = Inserted(id), UNCHANGED gone
  PROVE  Enrolled!Next
  <1>1. gid \in Groups /\ finger[id] \in Templates
    BY Numbers DEF TypeOK
  <1>2. Enrolled!Add(gid, id, finger[id])
    BY DEF Enrolled!Add, Inserted, RowOf
  <1> QED
    BY <1>1, <1>2 DEF Enrolled!Next

\* A row that db_write_to_db deletes is one that EnrolledFingers removes, or there is none.
LEMMA DeleteRemoves ==
  ASSUME TypeOK, Faults = {}, NEW id \in Ids, Delete(id)
  PROVE  [Enrolled!Next]_<<db, gone>>
  <1>1. gid \in Groups
    BY DEF TypeOK
  <1>2. CASE db[gid][id] = None
    <2>1. db' = db
      BY <1>1, <1>2 DEF Delete, TypeOK
    <2> QED
      BY <1>2, <2>1 DEF Delete
  <1>3. CASE db[gid][id] # None
    <2>1. Enrolled!Remove(gid, id)
      BY <1>3 DEF Delete, Enrolled!Remove
    <2> QED
      BY <1>1, <2>1 DEF Enrolled!Next
  <1> QED
    BY <1>2, <1>3

\* Every step of caller, worker or crash adds one row, removes one, or changes none.
LEMMA PromiseStep ==
  ASSUME Faults = {}, TypeInv, WorkerInv, GoneInv, TableInv, [Next]_vars
  PROVE  [Enrolled!Next]_<<db, gone>>
  <1> USE DEF diskVars, callerVars, workerVars, TouchTable
  <1>0. TypeOK /\ Accounted /\ (old # NoFile => Converting)
    BY DEF TypeInv, GoneInv, TableInv
  <1>1. CASE ConvertNext
    <2>1. cidx \in Ids /\ Converting
      BY <1>0, <1>1 DEF ConvertNext, TypeInv, TypeOK, LoopInv, Ids
    <2>2. CASE finger[cidx] = None
      BY <1>1, <2>2 DEF ConvertNext
    <2>3. CASE finger[cidx] # None /\ db[gid][cidx] = None
      BY <1>0, <1>1, <2>1, <2>3, InsertAdds DEF ConvertNext, Accounted
    <2>4. CASE finger[cidx] # None /\ db[gid][cidx] # None
      <3>1. db[gid][cidx] = finger[cidx] /\ gid \in Groups
        BY <1>0, <1>1, <2>1, <2>4 DEF ConvertNext, Converting, TableInv, TableParts, TypeOK
      <3>2. Inserted(cidx) = db
        BY <1>0, <2>1, <2>4, <3>1 DEF Inserted, RowOf, TypeOK
      <3> QED
        BY <1>1, <3>2 DEF ConvertNext
    <2> QED
      BY <2>2, <2>3, <2>4
  <1>2. CASE EnrollInsert
    <2>1. /\ slot \in Ids /\ finger[slot] = fresh - 1 /\ fresh - 1 # None
          /\ db' = Inserted(slot) /\ UNCHANGED gone /\ db[gid][slot] = None
      BY <1>0, <1>2 DEF EnrollInsert, TypeInv, TypeOK, LoopInv, WorkerInv, TableInv, TableParts, None
    <2> QED
      BY <1>0, <2>1, InsertAdds DEF Accounted
  <1>3. CASE RemoveNext
    <2>1. cidx \in Ids
      BY <1>3 DEF RemoveNext, TypeInv, TypeOK, LoopInv, Ids
    <2> QED
      BY <1>0, <1>3, <2>1, DeleteRemoves DEF RemoveNext
  <1>4. ASSUME NEW id \in Ids, RemoveOne(id) PROVE [Enrolled!Next]_<<db, gone>>
    BY <1>0, <1>4, DeleteRemoves DEF RemoveOne
  <1>5. CASE LoadGroup \/ LoadSamsung \/ ConvertDone \/ RemoveAll \/ RemoveDone \/ Enroll \/ Authenticate
    BY <1>5 DEF LoadGroup, LoadSamsung, ConvertDone, RemoveAll, RemoveDone, Enroll, Authenticate
  <1>6. ASSUME NEW g \in Groups, SetActiveGroup(g) PROVE UNCHANGED <<db, gone>>
    BY <1>6 DEF SetActiveGroup
  <1>7. CASE EnrollBegin \/ EnrollAbandon \/ EnrollStore \/ Match \/ MatchAbandon \/ Resolve \/ Report
    BY <1>7 DEF EnrollBegin, EnrollAbandon, EnrollStore, Match, MatchAbandon, Resolve, Report
  <1>8. CASE Crash \/ Open \/ UNCHANGED vars
    BY <1>8 DEF Crash, Open, vars
  <1> QED
    BY <1>1, <1>2, <1>3, <1>4, <1>5, <1>6, <1>7, <1>8 DEF Next, CallerNext, WorkerNext

\* The finger database implements EnrolledFingers: a template is added under a free id, a
\* removed one is retired for good, and nothing else ever changes what is enrolled, with
\* crashes anywhere, when sqlite does not fail and the framework leaves the table alone
\* during a session.
THEOREM StoreKeepsPromise ==
  ASSUME Exclusive, Faults = {}
  PROVE  Spec => KeepsPromise
  <1>1. Init => Enrolled!Init
    BY DEF Init, Empty, Enrolled!Init
  <1>2. TypeInv /\ WorkerInv /\ GoneInv /\ TableInv /\ [Next]_vars => [Enrolled!Next]_<<db, gone>>
    BY PromiseStep
  <1>3. TypeInv /\ WorkerInv /\ GoneInv /\ TableInv /\ [Next]_vars => TableInv'
    BY TableStep
  <1> QED
    BY <1>1, <1>2, <1>3, TypeInit, TypeStep, WorkerInit, WorkerStep, GoneInit, GoneStep, TableInit,
       PTL DEF Spec, KeepsPromise, Enrolled!Spec

=============================================================================
