-------------------------- MODULE AuthTokenProofs ---------------------------
(* Proofs about AuthToken, for any number of calls, users, samples and hashes. *)
EXTENDS AuthToken, TLAPS

-----------------------------------------------------------------------------
(* The inductive invariant. *)

EnrollPcs == {"enroll", "sample"}
ScanPcs == {"scan", "match", "hit", "hitIdle", "readOp"}
NoticePcs == {"readAuth", "readUser", "sent"}
Pcs == EnrollPcs \cup ScanPcs \cup NoticePcs \cup
       {"none", "miss", "missIdle", "out", "finish", "unload", "done"}

\* The threads, when authenticator ids are taken from a set.
Notices(ids) == [op : 0..MaxCalls, auth : ids, user : Users \cup {0}]
ThreadRecords(ids) ==
    [pc : Pcs, left : 0..Samples, told : 0..Samples, notice : Notices(ids)]

\* Operations and their threads: the thread of call n exists once the call was made, and
\* vcs_enroll counts no further than to its last sample.
ThreadInv ==
    /\ calls \in 0..MaxCalls /\ opId \in 0..calls /\ secureUser \in Users \cup {0}
    /\ \E ids : worker \in [Calls -> ThreadRecords(ids)]
    /\ \A n \in Calls : worker[n].pc # "none" => n <= calls
    /\ \A n \in Calls : worker[n].pc \in EnrollPcs \cup {"none"} => worker[n].left > 0

\* A thread that authenticates has an op_id of its own call or a later one to read; and if
\* its call is undisturbed, what it has read of the fields is what they hold.
NoticeInv ==
    /\ \A n \in undisturbed : n = calls /\ n = opId
    /\ \A n \in Calls :
          /\ worker[n].pc \in ScanPcs => n <= opId
          /\ worker[n].pc \in NoticePcs => worker[n].notice.op \in n..calls
          /\ n \in undisturbed =>
                /\ worker[n].pc \in NoticePcs => worker[n].notice.op = n
                /\ worker[n].pc \in {"readUser", "sent"} => worker[n].notice.auth = authId
                /\ worker[n].pc = "sent" => worker[n].notice.user = secureUser

-----------------------------------------------------------------------------
(* The thread of an operation. *)

USE TokenAssumption

\* Goto changes where a thread stands and nothing else.
LEMMA GotoEffect ==
  ASSUME NEW ids, worker \in [Calls -> ThreadRecords(ids)], NEW n \in Calls, NEW pc \in Pcs,
         Goto(n, pc)
  PROVE  /\ worker' \in [Calls -> ThreadRecords(ids)]
         /\ \A m \in Calls : /\ worker'[m].pc = IF m = n THEN pc ELSE worker[m].pc
                             /\ worker'[m].left = worker[m].left
                             /\ worker'[m].told = worker[m].told
                             /\ worker'[m].notice = worker[m].notice
  <1>1. \A m \in Calls : worker[m] \in ThreadRecords(ids)
    OBVIOUS
  <1>2. \A m \in Calls : worker'[m] = IF m = n THEN [worker[m] EXCEPT !.pc = pc] ELSE worker[m]
    BY DEF Goto
  <1>3. \A m \in Calls : [worker[m] EXCEPT !.pc = pc] \in ThreadRecords(ids)
    BY <1>1 DEF ThreadRecords
  <1>4. worker' \in [Calls -> ThreadRecords(ids)]
    BY <1>3 DEF Goto
  <1>5. \A m \in Calls : /\ [worker[m] EXCEPT !.pc = pc].pc = pc
                         /\ [worker[m] EXCEPT !.pc = pc].left = worker[m].left
                         /\ [worker[m] EXCEPT !.pc = pc].told = worker[m].told
                         /\ [worker[m] EXCEPT !.pc = pc].notice = worker[m].notice
    BY <1>1 DEF ThreadRecords
  <1> QED
    BY <1>2, <1>4, <1>5

\* Which ways a thread goes: into vcs_authenticate's path or vcs_enroll's only from there,
\* and to the reading of the fields only by send_authenticated_notice.
LEMMA Ways ==
  ASSUME NEW n \in Calls,
         \/ Capture(n) \/ CaptureFails(n) \/ Match(n) \/ AuthenticateOut(n)
         \/ EnrollElse(n) \/ Store(n) \/ EnrollOut(n)
  PROVE  \E pc \in Pcs \ (NoticePcs \cup {"none"}) :
            /\ Goto(n, pc) /\ worker[n].pc # "none"
            /\ pc \in ScanPcs => worker[n].pc \in ScanPcs
            /\ pc \in EnrollPcs => worker[n].pc \in EnrollPcs
  <1> USE DEF Pcs, NoticePcs, ScanPcs, EnrollPcs
  <1>1. CASE Capture(n)
    BY <1>1 DEF Capture
  <1>2. CASE CaptureFails(n)
    BY <1>2 DEF CaptureFails
  <1>3. CASE Match(n)
    BY <1>3 DEF Match
  <1>4. CASE AuthenticateOut(n)
    BY <1>4 DEF AuthenticateOut
  <1>5. CASE EnrollElse(n)
    BY <1>5 DEF EnrollElse
  <1>6. CASE Store(n)
    BY <1>6 DEF Store
  <1>7. CASE EnrollOut(n)
    BY <1>7 DEF EnrollOut
  <1> QED
    BY <1>1, <1>2, <1>3, <1>4, <1>5, <1>6, <1>7

\* The steps of a thread write no field of vdev.
LEMMA ThreadsOnlyRead ==
  ASSUME NEW n \in Calls, WorkerStep(n)
  PROVE  UNCHANGED <<challenge, secureUser, opId, authId, calls, handed, undisturbed>>
  BY DEF WorkerStep, Capture, CaptureFails, Match, AuthenticateOut, send_authenticated_notice, Read,
         Sample, EnrollElse, Store, EnrollOut, fields, counters, ghosts

TokenInv == ThreadInv /\ NoticeInv

\* A thread that goes a way keeps the invariant.
LEMMA GotoKeeps ==
  ASSUME TokenInv, NEW n \in Calls, NEW pc \in Pcs \ (NoticePcs \cup {"none"}), Goto(n, pc),
         worker[n].pc # "none",
         pc \in ScanPcs => worker[n].pc \in ScanPcs,
         pc \in EnrollPcs => worker[n].pc \in EnrollPcs,
         UNCHANGED <<challenge, secureUser, opId, authId, calls, undisturbed>>
  PROVE  TokenInv'
  <1>1. PICK ids : worker \in [Calls -> ThreadRecords(ids)]
    BY DEF TokenInv, ThreadInv
  <1>2. /\ worker' \in [Calls -> ThreadRecords(ids)]
        /\ \A m \in Calls : /\ worker'[m].pc = IF m = n THEN pc ELSE worker[m].pc
                            /\ worker'[m].left = worker[m].left
                            /\ worker'[m].notice = worker[m].notice
    BY <1>1, GotoEffect
  <1>3. ThreadInv'
    BY <1>2 DEF TokenInv, ThreadInv
  <1>5. NoticeInv'
    BY <1>2 DEF TokenInv, NoticeInv, NoticePcs
  <1> QED
    BY <1>3, <1>5 DEF TokenInv

\* vcs_enroll counts its samples down, and never below one before the last.
LEMMA SampleKeeps ==
  ASSUME TokenInv, NEW n \in Calls, Sample(n),
         UNCHANGED <<challenge, secureUser, opId, authId, calls, undisturbed>>
  PROVE  TokenInv'
  <1>1. PICK ids : worker \in [Calls -> ThreadRecords(ids)]
    BY DEF TokenInv, ThreadInv
  <1>2. \A m \in Calls : worker[m] \in ThreadRecords(ids)
    BY <1>1
  <1>3. PICK last \in BOOLEAN :
            LET counted == worker[n].left - 1
                left == IF last THEN 0 ELSE IF counted = 0 THEN 1 ELSE counted
            IN worker' = [worker EXCEPT ![n].left = left,
                                        ![n].told = IF secureUser = 0 THEN @ ELSE left,
                                        ![n].pc = IF left = 0 THEN "finish" ELSE "enroll"]
    BY DEF Sample
  <1> DEFINE counted == worker[n].left - 1
             left == IF last THEN 0 ELSE IF counted = 0 THEN 1 ELSE counted
             told == IF secureUser = 0 THEN worker[n].told ELSE left
             pc == IF left = 0 THEN "finish" ELSE "enroll"
             w == [worker[n] EXCEPT !.left = left, !.told = told, !.pc = pc]
  <1>4. worker' = [worker EXCEPT ![n] = w]
    BY <1>1, <1>3
  <1>5. worker[n].left \in 0..Samples /\ worker[n].left > 0 /\ worker[n].told \in 0..Samples
    BY <1>2 DEF ThreadRecords, TokenInv, ThreadInv, Sample, EnrollPcs
  <1>6. left \in 0..Samples /\ (pc = "enroll" => left > 0)
    BY <1>5
  <1>7. told \in 0..Samples /\ pc \in {"finish", "enroll"} /\ worker[n].pc = "sample"
    BY <1>5, <1>6 DEF Sample
  <1> HIDE DEF left, told, pc
  <1>8. /\ w \in ThreadRecords(ids) /\ w.pc = pc /\ w.left = left
        /\ w.notice = worker[n].notice
    BY <1>2, <1>6, <1>7 DEF ThreadRecords, Pcs, EnrollPcs
  <1> HIDE DEF w
  <1>9. /\ worker' \in [Calls -> ThreadRecords(ids)]
        /\ \A m \in Calls : worker'[m] = IF m = n THEN w ELSE worker[m]
    BY <1>1, <1>4, <1>8
  <1>10. ThreadInv'
    BY <1>6, <1>7, <1>8, <1>9 DEF TokenInv, ThreadInv, EnrollPcs
  <1>12. NoticeInv'
    BY <1>7, <1>8, <1>9 DEF TokenInv, NoticeInv, NoticePcs, ScanPcs
  <1> QED
    BY <1>10, <1>12 DEF TokenInv

\* What a step of send_authenticated_notice does to the thread.
LEMMA ReadEffect ==
  ASSUME NEW ids, worker \in [Calls -> ThreadRecords(ids)], NEW n \in Calls,
         opId \in 0..MaxCalls, secureUser \in Users \cup {0}, send_authenticated_notice(n)
  PROVE  /\ worker' \in [Calls -> ThreadRecords(ids \cup {authId})]
         /\ \A m \in Calls : m # n => worker'[m] = worker[m]
         /\ worker'[n].left = worker[n].left
         /\ \/ /\ worker[n].pc = "readOp" /\ worker'[n].pc = "readAuth"
               /\ worker'[n].notice.op = opId
            \/ /\ worker[n].pc = "readAuth" /\ worker'[n].pc = "readUser"
               /\ worker'[n].notice.op = worker[n].notice.op
               /\ worker'[n].notice.auth = authId
            \/ /\ worker[n].pc = "readUser" /\ worker'[n].pc = "sent"
               /\ worker'[n].notice.op = worker[n].notice.op
               /\ worker'[n].notice.auth = worker[n].notice.auth
               /\ worker'[n].notice.user = secureUser
  <1> DEFINE N == Notices(ids \cup {authId})
             R == ThreadRecords(ids \cup {authId})
  <1>0. \A m \in Calls : worker[m] \in R /\ worker[m].notice \in N
    BY DEF ThreadRecords, Notices
  <1>1. \A note \in N, pc \in Pcs :
            LET w == [worker[n] EXCEPT !.pc = pc, !.notice = note]
            IN w \in R /\ w.pc = pc /\ w.notice = note
               /\ w.left = worker[n].left
    BY <1>0 DEF ThreadRecords
  <1>2. \A w \in R : LET f == [worker EXCEPT ![n] = w]
                     IN f \in [Calls -> R] /\ f[n] = w /\ \A m \in Calls : m # n => f[m] = worker[m]
    BY <1>0
  <1> HIDE DEF N, R
  <1>3. CASE Read(n, "readOp", "readAuth", "op", opId)
    <2> DEFINE note == [worker[n].notice EXCEPT !.op = opId]
    <2>1. worker' = [worker EXCEPT ![n] = [worker[n] EXCEPT !.pc = "readAuth", !.notice = note]]
      BY <1>3 DEF Read
    <2>2. /\ note \in N /\ note.op = opId
          /\ note.auth = worker[n].notice.auth
          /\ note.user = worker[n].notice.user
      BY <1>0 DEF Notices, N
    <2> HIDE DEF note
    <2>3. "readAuth" \in Pcs
      BY DEF Pcs, NoticePcs
    <2> DEFINE w == [worker[n] EXCEPT !.pc = "readAuth", !.notice = note]
    <2>4. /\ w \in R /\ w.pc = "readAuth" /\ w.notice = note
          /\ w.left = worker[n].left
      BY <1>1, <2>2, <2>3
    <2>5. /\ worker' \in [Calls -> R] /\ worker'[n] = w
          /\ \A m \in Calls : m # n => worker'[m] = worker[m]
      BY <1>2, <2>1, <2>4
    <2> HIDE DEF w
    <2> QED
      BY <1>3, <2>2, <2>4, <2>5 DEF Read, R
  <1>4. CASE Read(n, "readAuth", "readUser", "auth", authId)
    <2> DEFINE note == [worker[n].notice EXCEPT !.auth = authId]
    <2>1. worker' = [worker EXCEPT ![n] = [worker[n] EXCEPT !.pc = "readUser", !.notice = note]]
      BY <1>4 DEF Read
    <2>2. /\ note \in N /\ note.auth = authId
          /\ note.op = worker[n].notice.op
          /\ note.user = worker[n].notice.user
      BY <1>0 DEF Notices, N
    <2> HIDE DEF note
    <2>3. "readUser" \in Pcs
      BY DEF Pcs, NoticePcs
    <2> DEFINE w == [worker[n] EXCEPT !.pc = "readUser", !.notice = note]
    <2>4. /\ w \in R /\ w.pc = "readUser" /\ w.notice = note
          /\ w.left = worker[n].left
      BY <1>1, <2>2, <2>3
    <2>5. /\ worker' \in [Calls -> R] /\ worker'[n] = w
          /\ \A m \in Calls : m # n => worker'[m] = worker[m]
      BY <1>2, <2>1, <2>4
    <2> HIDE DEF w
    <2> QED
      BY <1>4, <2>2, <2>4, <2>5 DEF Read, R
  <1>5. CASE Read(n, "readUser", "sent", "user", secureUser)
    <2> DEFINE note == [worker[n].notice EXCEPT !.user = secureUser]
    <2>1. worker' = [worker EXCEPT ![n] = [worker[n] EXCEPT !.pc = "sent", !.notice = note]]
      BY <1>5 DEF Read
    <2>2. /\ note \in N /\ note.user = secureUser
          /\ note.op = worker[n].notice.op
          /\ note.auth = worker[n].notice.auth
      BY <1>0 DEF Notices, N
    <2> HIDE DEF note
    <2>3. "sent" \in Pcs
      BY DEF Pcs, NoticePcs
    <2> DEFINE w == [worker[n] EXCEPT !.pc = "sent", !.notice = note]
    <2>4. /\ w \in R /\ w.pc = "sent" /\ w.notice = note
          /\ w.left = worker[n].left
      BY <1>1, <2>2, <2>3
    <2>5. /\ worker' \in [Calls -> R] /\ worker'[n] = w
          /\ \A m \in Calls : m # n => worker'[m] = worker[m]
      BY <1>2, <2>1, <2>4
    <2> HIDE DEF w
    <2> QED
      BY <1>5, <2>2, <2>4, <2>5 DEF Read, R
  <1> QED
    BY <1>3, <1>4, <1>5 DEF send_authenticated_notice, R

\* A thread that reads the fields one by one keeps the invariant.
LEMMA ReadKeeps ==
  ASSUME TokenInv, NEW n \in Calls, send_authenticated_notice(n),
         UNCHANGED <<challenge, secureUser, opId, authId, calls, undisturbed>>
  PROVE  TokenInv'
  <1>1. PICK ids : worker \in [Calls -> ThreadRecords(ids)]
    BY DEF TokenInv, ThreadInv
  <1>2. opId \in 0..MaxCalls /\ secureUser \in Users \cup {0}
    BY DEF TokenInv, ThreadInv
  <1>3. /\ worker' \in [Calls -> ThreadRecords(ids \cup {authId})]
        /\ \A m \in Calls : m # n => worker'[m] = worker[m]
        /\ worker'[n].left = worker[n].left
        /\ \/ /\ worker[n].pc = "readOp" /\ worker'[n].pc = "readAuth"
              /\ worker'[n].notice.op = opId
           \/ /\ worker[n].pc = "readAuth" /\ worker'[n].pc = "readUser"
              /\ worker'[n].notice.op = worker[n].notice.op
              /\ worker'[n].notice.auth = authId
           \/ /\ worker[n].pc = "readUser" /\ worker'[n].pc = "sent"
              /\ worker'[n].notice.op = worker[n].notice.op
              /\ worker'[n].notice.auth = worker[n].notice.auth
              /\ worker'[n].notice.user = secureUser
    BY <1>1, <1>2, ReadEffect
  <1>4. ThreadInv'
    BY <1>3 DEF TokenInv, ThreadInv, EnrollPcs
  <1>6. NoticeInv'
    <2>1. n \in Nat /\ opId \in 0..calls /\ calls \in Nat
      BY DEF TokenInv, ThreadInv, Calls
    <2>2. worker[n].pc = "readOp" => opId \in n..calls
      BY <2>1 DEF TokenInv, NoticeInv, ScanPcs
    <2> QED
      BY <1>3, <2>1, <2>2 DEF TokenInv, NoticeInv, NoticePcs, ScanPcs
  <1> QED
    BY <1>4, <1>6 DEF TokenInv

\* Every step of a thread keeps the invariant.
LEMMA ThreadKeeps ==
  ASSUME TokenInv, NEW n \in Calls, WorkerStep(n)
  PROVE  TokenInv'
  <1>1. UNCHANGED <<challenge, secureUser, opId, authId, calls, undisturbed>>
    BY ThreadsOnlyRead
  <1>2. CASE send_authenticated_notice(n)
    BY <1>1, <1>2, ReadKeeps
  <1>3. CASE Sample(n)
    BY <1>1, <1>3, SampleKeeps
  <1>4. CASE \/ Capture(n) \/ CaptureFails(n) \/ Match(n) \/ AuthenticateOut(n)
             \/ EnrollElse(n) \/ Store(n) \/ EnrollOut(n)
    BY <1>1, <1>4, Ways, GotoKeeps
  <1> QED
    BY <1>2, <1>3, <1>4 DEF WorkerStep

-----------------------------------------------------------------------------
(* The entry points. *)

\* vcs_start_authenticate and vcs_start_enroll create the thread of this call or none.
LEMMA StartEffect ==
  ASSUME ThreadInv, calls < MaxCalls, calls' = calls + 1, NEW claim, NEW pc \in {"scan", "enroll"},
         StartThread(claim, pc),
         NEW ids, worker \in [Calls -> ThreadRecords(ids)]
  PROVE  /\ calls' \in Calls /\ worker' \in [Calls -> ThreadRecords(ids)]
         /\ \A m \in Calls : m # calls' => worker'[m] = worker[m]
         /\ \/ worker' = worker /\ worker[calls'].pc = "none"
            \/ worker'[calls'].pc = pc /\ worker'[calls'].left > 0
  <1>1. calls' \in Calls /\ ~(calls' <= calls)
    BY DEF ThreadInv, Calls
  <1>2. worker[calls'].pc = "none" /\ worker[calls'].left > 0 /\ worker[calls'] \in ThreadRecords(ids)
    BY <1>1 DEF ThreadInv
  <1> DEFINE w == [worker[calls'] EXCEPT !.pc = pc]
  <1>3. w \in ThreadRecords(ids) /\ w.pc = pc /\ w.left = worker[calls'].left
    BY <1>2 DEF ThreadRecords, Pcs, ScanPcs, EnrollPcs
  <1>4. worker' = worker \/ worker' = [worker EXCEPT ![calls'] = w]
    BY DEF StartThread
  <1> HIDE DEF w
  <1> QED
    BY <1>1, <1>2, <1>3, <1>4

\* fingerprint_authenticate: the new thread has an op_id of its own.
LEMMA AuthenticateKeeps ==
  ASSUME TokenInv, fingerprint_authenticate
  PROVE  TokenInv'
  <1>1. PICK ids : worker \in [Calls -> ThreadRecords(ids)]
    BY DEF TokenInv, ThreadInv
  <1>2. /\ ThreadInv /\ calls < MaxCalls /\ calls' = calls + 1 /\ opId' = calls'
        /\ undisturbed' = {calls'} /\ UNCHANGED <<secureUser, authId>>
    BY DEF TokenInv, fingerprint_authenticate
  <1>3. /\ calls' \in Calls /\ worker' \in [Calls -> ThreadRecords(ids)]
        /\ \A m \in Calls : m # calls' => worker'[m] = worker[m]
        /\ \/ worker' = worker /\ worker[calls'].pc = "none"
           \/ worker'[calls'].pc = "scan" /\ worker'[calls'].left > 0
    BY <1>1, <1>2, StartEffect DEF fingerprint_authenticate
  <1>4. calls \in Nat /\ opId \in 0..calls /\ opId' \in 0..calls' /\ calls' \in 0..MaxCalls
    BY <1>2 DEF ThreadInv
  <1>5. ThreadInv'
    <2>1. \A m \in Calls : m <= calls => m <= calls'
      BY <1>2, <1>4 DEF Calls
    <2>2. \A m \in Calls : worker'[m].pc # "none" => m <= calls'
      BY <1>2, <1>3, <1>4, <2>1 DEF ThreadInv, Calls
    <2>3. \A m \in Calls : worker'[m].pc \in EnrollPcs \cup {"none"} => worker'[m].left > 0
      BY <1>2, <1>3 DEF ThreadInv
    <2> QED
      BY <1>2, <1>3, <1>4, <2>2, <2>3 DEF ThreadInv
  <1>7. NoticeInv'
    <2>1. \A m \in Calls : m \in Int /\ (m <= opId => m <= opId')
      BY <1>2, <1>4 DEF Calls
    <2>2. \A m \in Calls : m..calls \subseteq m..calls'
      BY <1>2, <1>4 DEF Calls
    <2>3. worker'[calls'].pc \notin NoticePcs
      BY <1>3 DEF NoticePcs
    <2>4. calls' <= opId'
      BY <1>2, <1>4
    <2>5. ASSUME NEW m \in Calls
          PROVE  /\ worker'[m].pc \in ScanPcs => m <= opId'
                 /\ worker'[m].pc \in NoticePcs => worker'[m].notice.op \in m..calls'
      BY <1>3, <2>1, <2>2, <2>3, <2>4 DEF TokenInv, NoticeInv
    <2> QED
      BY <1>2, <2>3, <2>5 DEF NoticeInv, NoticePcs
  <1> QED
    BY <1>5, <1>7 DEF TokenInv

\* fingerprint_enroll: the new thread has its samples before it and no notice to send.
LEMMA EnrollKeeps ==
  ASSUME TokenInv, NEW hat \in Tokens, fingerprint_enroll(hat)
  PROVE  TokenInv'
  <1>1. PICK ids : worker \in [Calls -> ThreadRecords(ids)]
    BY DEF TokenInv, ThreadInv
  <1>2. /\ ThreadInv /\ calls < MaxCalls /\ calls' = calls + 1 /\ undisturbed' = {}
        /\ UNCHANGED <<opId, authId>>
    BY DEF TokenInv, fingerprint_enroll
  <1>3. /\ calls' \in Calls /\ worker' \in [Calls -> ThreadRecords(ids)]
        /\ \A m \in Calls : m # calls' => worker'[m] = worker[m]
        /\ \/ worker' = worker
           \/ worker'[calls'].pc = "enroll" /\ worker'[calls'].left > 0
    <2>1. CASE hat.version /\ (hat.challenge = challenge \/ hat.fingerprint)
      <3>1. StartThread("ENROLL", "enroll")
        BY <2>1 DEF fingerprint_enroll
      <3> QED
        BY <1>1, <1>2, <3>1, StartEffect
    <2>2. CASE ~(hat.version /\ (hat.challenge = challenge \/ hat.fingerprint))
      <3>1. worker' = worker
        BY <2>2 DEF fingerprint_enroll
      <3>2. calls' \in Calls
        BY <1>2 DEF ThreadInv, Calls
      <3> QED
        BY <1>1, <3>1, <3>2
    <2> QED
      BY <2>1, <2>2
  <1>4. calls \in Nat /\ opId \in 0..calls /\ opId' \in 0..calls' /\ calls' \in 0..MaxCalls
    BY <1>2 DEF ThreadInv
  <1>5. ThreadInv'
    <2>1. \A m \in Calls : m <= calls => m <= calls'
      BY <1>2, <1>4 DEF Calls
    <2>2. \A m \in Calls : worker'[m].pc # "none" => m <= calls'
      BY <1>2, <1>3, <1>4, <2>1 DEF ThreadInv, Calls
    <2>3. \A m \in Calls : worker'[m].pc \in EnrollPcs \cup {"none"} => worker'[m].left > 0
      BY <1>2, <1>3 DEF ThreadInv
    <2>4. secureUser' \in Users \cup {0}
      BY <1>2 DEF ThreadInv, fingerprint_enroll, Tokens
    <2> QED
      BY <1>3, <1>4, <2>2, <2>3, <2>4 DEF ThreadInv
  <1>7. NoticeInv'
    <2>1. \A m \in Calls : m..calls \subseteq m..calls'
      BY <1>2, <1>4 DEF Calls
    <2>2. \A m \in Calls : worker'[m].pc \in ScanPcs \cup NoticePcs => worker'[m] = worker[m]
      BY <1>3 DEF ScanPcs, NoticePcs
    <2>3. ASSUME NEW m \in Calls
          PROVE  /\ worker'[m].pc \in ScanPcs => m <= opId'
                 /\ worker'[m].pc \in NoticePcs => worker'[m].notice.op \in m..calls'
      BY <1>2, <2>1, <2>2 DEF TokenInv, NoticeInv
    <2> QED
      BY <1>2, <2>3 DEF NoticeInv
  <1> QED
    BY <1>5, <1>7 DEF TokenInv

\* The other entry points and the timer touch no thread, and what they write of the
\* fields disturbs the operation.
LEMMA OthersKeep ==
  ASSUME TokenInv, UNCHANGED <<worker, calls, opId, secureUser>>,
         undisturbed' = {} \/ UNCHANGED <<undisturbed, authId>>
  PROVE  TokenInv'
  BY DEF TokenInv, ThreadInv, NoticeInv

\* Every step keeps the invariant.
LEMMA TokenStep == TokenInv /\ [Next]_vars => TokenInv'
  <1> SUFFICES ASSUME TokenInv, [Next]_vars PROVE TokenInv'
    OBVIOUS
  <1> USE DEF fields, threads, counters, ghosts
  <1>1. CASE fingerprint_pre_enroll
    BY <1>1, OthersKeep DEF fingerprint_pre_enroll
  <1>2. CASE fingerprint_post_enroll
    BY <1>2, OthersKeep DEF fingerprint_post_enroll
  <1>3. CASE fingerprint_get_auth_id
    BY <1>3, OthersKeep DEF fingerprint_get_auth_id
  <1>4. CASE fingerprint_cancel \/ CancelAnswered \/ vcs_timeout
    BY <1>4, OthersKeep DEF fingerprint_cancel, CancelAnswered, vcs_timeout
  <1>5. CASE UNCHANGED vars
    BY <1>5, OthersKeep DEF vars
  <1> QED
    BY <1>1, <1>2, <1>3, <1>4, <1>5, AuthenticateKeeps, EnrollKeeps, ThreadKeeps DEF Next

\* No thread, no challenge and no operation at first.
LEMMA TokenInit == Init => TokenInv
  <1> SUFFICES ASSUME Init PROVE TokenInv
    OBVIOUS
  <1>1. \A n \in Calls : worker[n] = NoThread
    BY DEF Init
  <1>2. /\ NoThread \in ThreadRecords({Zero}) /\ NoThread.pc = "none" /\ NoThread.left = Samples
    BY DEF NoThread, Unsent, ThreadRecords, Notices, Pcs
  <1>3. worker \in [Calls -> ThreadRecords({Zero})]
    BY <1>2 DEF Init
  <1>4. ThreadInv
    BY <1>1, <1>2, <1>3 DEF Init, ThreadInv
  <1>6. NoticeInv
    BY <1>1, <1>2 DEF Init, NoticeInv, ScanPcs, NoticePcs
  <1> QED
    BY <1>4, <1>6 DEF TokenInv

\* send_authenticated_notice, which reads op_id, authenticator_id and secure_user_id one
\* after the other without a lock, never reports an operation before its own, and reports
\* its own with the fields of that time if no call has written one since.
THEOREM NoticesOfOperation == Spec => []NoticeOfOperation
  <1>1. TokenInv => NoticeOfOperation
    <2> SUFFICES ASSUME TokenInv, NEW n \in Calls, worker[n].pc = "sent"
                 PROVE  /\ worker[n].notice.op \in n..calls
                        /\ n \in undisturbed =>
                               worker[n].notice = [op |-> n, auth |-> authId, user |-> secureUser]
      BY DEF NoticeOfOperation
    <2>1. PICK ids : worker \in [Calls -> ThreadRecords(ids)]
      BY DEF TokenInv, ThreadInv
    <2>2. worker[n].notice \in Notices(ids)
      BY <2>1 DEF ThreadRecords
    <2>3. worker[n].notice = [op |-> worker[n].notice.op, auth |-> worker[n].notice.auth,
                              user |-> worker[n].notice.user]
      BY <2>2 DEF Notices
    <2> QED
      BY <2>3 DEF TokenInv, NoticeInv, NoticePcs
  <1> QED
    BY <1>1, TokenInit, TokenStep, PTL DEF Spec

-----------------------------------------------------------------------------
(* The types of the fields. *)

\* What the fields of vdev and of tz hold; a challenge was handed out.
FieldInv ==
    /\ authToken.prefix \in 0..TokenLength
    /\ state \in {"IDLE", "ENROLL", "SCAN", "CANCEL"} /\ waiting \in BOOLEAN /\ timer \in BOOLEAN
    /\ challenge \in handed \cup {Zero}
    /\ stored \subseteq Calls /\ undisturbed \subseteq Calls
    /\ hashes \in 0..MaxHashes

\* vcs_uninit takes a token, keeps the one there is, or zeroes it.
LEMMA UninitTypes ==
  ASSUME FieldInv, NEW n \in Calls, vcs_uninit(n)
  PROVE  authToken'.prefix \in 0..TokenLength /\ state' = "IDLE"
  <1>1. ASSUME NEW t \in [content : {TokenContent(n)}, prefix : TokenPrefixes]
        PROVE  t.prefix \in 0..TokenLength
    OBVIOUS
  <1>2. [content |-> 0, prefix |-> 0].prefix \in 0..TokenLength
    OBVIOUS
  <1> QED
    BY <1>1, <1>2 DEF vcs_uninit, FieldInv

\* A thread's step keeps the types.
LEMMA FieldsOfThread ==
  ASSUME FieldInv, NEW n \in Calls, WorkerStep(n)
  PROVE  FieldInv'
  <1> USE DEF FieldInv, fields, counters, ghosts
  <1>1. CASE Capture(n) \/ Match(n) \/ Sample(n) \/ send_authenticated_notice(n)
    BY <1>1 DEF Capture, Match, Sample, send_authenticated_notice, Read
  <1>2. CASE CaptureFails(n) \/ EnrollElse(n) \/ Store(n)
    BY <1>2 DEF CaptureFails, EnrollElse, Store
  <1>3. CASE AuthenticateOut(n) \/ EnrollOut(n)
    <2>1. vcs_uninit(n) \/ (state' = "IDLE" /\ UNCHANGED authToken)
      BY <1>3 DEF AuthenticateOut, EnrollOut
    <2>2. authToken'.prefix \in 0..TokenLength /\ state' = "IDLE"
      BY <2>1, UninitTypes
    <2> QED
      BY <1>3, <2>2 DEF AuthenticateOut, EnrollOut
  <1> QED
    BY <1>1, <1>2, <1>3 DEF WorkerStep

\* Every step keeps the types.
LEMMA FieldStep == TokenInv /\ FieldInv /\ [Next]_vars => FieldInv'
  <1> SUFFICES ASSUME TokenInv, FieldInv, [Next]_vars PROVE FieldInv'
    OBVIOUS
  <1> USE DEF FieldInv, fields, threads, counters, ghosts
  <1>1. CASE fingerprint_pre_enroll \/ fingerprint_post_enroll \/ fingerprint_get_auth_id
    BY <1>1 DEF fingerprint_pre_enroll, fingerprint_post_enroll, fingerprint_get_auth_id
  <1>2. CASE fingerprint_authenticate
    <2>1. calls' \in Calls
      BY <1>2 DEF fingerprint_authenticate, TokenInv, ThreadInv, Calls
    <2> QED
      BY <1>2, <2>1 DEF fingerprint_authenticate, StartThread
  <1>3. ASSUME NEW hat \in Tokens, fingerprint_enroll(hat)
        PROVE  FieldInv'
    <2>1. state' \in {"IDLE", "ENROLL", "SCAN", "CANCEL"}
      BY <1>3 DEF fingerprint_enroll, StartThread
    <2>2. timer' \in BOOLEAN
      BY <1>3 DEF fingerprint_enroll
    <2> QED
      BY <1>3, <2>1, <2>2 DEF fingerprint_enroll
  <1>4. CASE fingerprint_cancel \/ CancelAnswered \/ vcs_timeout
    BY <1>4 DEF fingerprint_cancel, CancelAnswered, vcs_timeout
  <1>5. CASE UNCHANGED vars
    BY <1>5 DEF vars
  <1> QED
    BY <1>1, <1>2, <1>3, <1>4, <1>5, FieldsOfThread DEF Next

\* The fields of vdev, the token kept across shutdowns and the threads' records stay
\* within their types for every number of calls, samples and users: vcs_enroll's count
\* of samples does not run below zero, and a challenge is one that was handed out.
THEOREM TokenTypes == Spec => []TypeOK
  <1>1. Init => FieldInv
    <2> SUFFICES ASSUME Init PROVE FieldInv
      OBVIOUS
    <2>1. authToken.prefix \in 0..TokenLength
      BY DEF Init
    <2>2. hashes \in 0..MaxHashes
      BY DEF Init
    <2>3. stored = {} /\ undisturbed = {} /\ state = "IDLE" /\ waiting = FALSE /\ timer = FALSE
      BY DEF Init
    <2>4. challenge = Zero
      BY DEF Init
    <2> QED
      BY <2>1, <2>2, <2>3, <2>4 DEF FieldInv
  <1>2. TokenInv /\ FieldInv => TypeOK
    <2> SUFFICES ASSUME TokenInv, FieldInv PROVE TypeOK
      OBVIOUS
    <2>1. PICK ids : worker \in [Calls -> ThreadRecords(ids)]
      BY DEF TokenInv, ThreadInv
    <2>2. \A n \in Calls : /\ worker[n].left \in 0..Samples /\ worker[n].told \in 0..Samples
                           /\ worker[n].notice.op \in 0..MaxCalls
      BY <2>1 DEF ThreadRecords, Notices
    <2>3. secureUser \in Users \cup {0} /\ opId \in 0..MaxCalls /\ calls \in 0..MaxCalls
      BY DEF TokenInv, ThreadInv
    <2> QED
      BY <2>2, <2>3 DEF TypeOK, FieldInv
  <1> QED
    BY <1>1, <1>2, TokenInit, TokenStep, FieldStep, PTL DEF Spec

-----------------------------------------------------------------------------
(* What the framework was told. *)

\* send_authenticated_notice tells nothing of samples.
LEMMA ReadTells ==
  ASSUME TokenInv, NEW n \in Calls, send_authenticated_notice(n)
  PROVE  /\ \A m \in Calls : worker'[m].left = worker[m].left /\ worker'[m].told = worker[m].told
         /\ \A m \in Calls : m # n => worker'[m] = worker[m]
  <1>1. PICK ids : worker \in [Calls -> ThreadRecords(ids)]
    BY DEF TokenInv, ThreadInv
  <1>2. worker[n] \in ThreadRecords(ids)
    BY <1>1
  <1>3. \E pc, note : worker' = [worker EXCEPT ![n] = [worker[n] EXCEPT !.pc = pc, !.notice = note]]
    <2>1. CASE Read(n, "readOp", "readAuth", "op", opId)
      <3>1. worker' = [worker EXCEPT ![n] = [worker[n] EXCEPT
                          !.pc = "readAuth", !.notice = [worker[n].notice EXCEPT !.op = opId]]]
        BY <2>1 DEF Read
      <3> QED
        BY <3>1
    <2>2. CASE Read(n, "readAuth", "readUser", "auth", authId)
      <3>1. worker' = [worker EXCEPT ![n] = [worker[n] EXCEPT
                          !.pc = "readUser", !.notice = [worker[n].notice EXCEPT !.auth = authId]]]
        BY <2>2 DEF Read
      <3> QED
        BY <3>1
    <2>3. CASE Read(n, "readUser", "sent", "user", secureUser)
      <3>1. worker' = [worker EXCEPT ![n] = [worker[n] EXCEPT
                          !.pc = "sent", !.notice = [worker[n].notice EXCEPT !.user = secureUser]]]
        BY <2>3 DEF Read
      <3> QED
        BY <3>1
    <2> QED
      BY <2>1, <2>2, <2>3 DEF send_authenticated_notice
  <1>4. PICK pc, note : worker' = [worker EXCEPT ![n] = [worker[n] EXCEPT !.pc = pc, !.notice = note]]
    BY <1>3
  <1> DEFINE w == [worker[n] EXCEPT !.pc = pc, !.notice = note]
  <1>5. w.told = worker[n].told /\ w.left = worker[n].left
    BY <1>2 DEF ThreadRecords
  <1> HIDE DEF w
  <1>6. \A m \in Calls : worker'[m] = IF m = n THEN w ELSE worker[m]
    BY <1>1, <1>4 DEF w
  <1> QED
    BY <1>5, <1>6

\* Neither does the start of a thread.
LEMMA StartTells ==
  ASSUME TokenInv, calls < MaxCalls, calls' = calls + 1,
         NEW claim, NEW pc, StartThread(claim, pc)
  PROVE  /\ calls' \in Calls /\ worker[calls'].pc = "none"
         /\ \A m \in Calls : worker'[m].left = worker[m].left /\ worker'[m].told = worker[m].told
         /\ \A m \in Calls : m # calls' => worker'[m] = worker[m]
  <1>1. PICK ids : worker \in [Calls -> ThreadRecords(ids)]
    BY DEF TokenInv, ThreadInv
  <1>2. calls' \in Calls /\ ~(calls' <= calls)
    BY DEF TokenInv, ThreadInv, Calls
  <1>3. worker[calls'].pc = "none" /\ worker[calls'] \in ThreadRecords(ids)
    BY <1>1, <1>2 DEF TokenInv, ThreadInv
  <1> DEFINE w == [worker[calls'] EXCEPT !.pc = pc]
  <1>4. w.told = worker[calls'].told /\ w.left = worker[calls'].left
    BY <1>3 DEF ThreadRecords
  <1>5. worker' = worker \/ worker' = [worker EXCEPT ![calls'] = w]
    BY DEF StartThread
  <1> HIDE DEF w
  <1>6. worker' = worker \/ \A m \in Calls : worker'[m] = IF m = calls' THEN w ELSE worker[m]
    BY <1>1, <1>5
  <1> QED
    BY <1>2, <1>3, <1>4, <1>6

-----------------------------------------------------------------------------
(* The announced finger. *)

\* Where a thread may be that has announced its last sample, and where it has stored it.
FinalPcs == {"finish", "out", "unload", "done"}
StoreInv == \A n \in Calls : worker[n].told = 0 =>
                worker[n].pc \in FinalPcs /\ (worker[n].pc = "finish" \/ n \in stored)

\* A thread that goes a way of its own keeps what it has announced.
LEMMA StoreGoto ==
  ASSUME TokenInv, StoreInv, NEW n \in Calls, NEW pc \in Pcs, Goto(n, pc), stored \subseteq stored',
         worker[n].pc \in FinalPcs => pc \in FinalPcs /\ (worker[n].pc = "finish" => n \in stored')
  PROVE  StoreInv'
  <1>1. PICK ids : worker \in [Calls -> ThreadRecords(ids)]
    BY DEF TokenInv, ThreadInv
  <1>2. \A m \in Calls : /\ worker'[m].pc = IF m = n THEN pc ELSE worker[m].pc
                         /\ worker'[m].told = worker[m].told
    BY <1>1, GotoEffect
  <1> QED
    BY <1>2 DEF StoreInv

\* A thread that announces its last sample goes on to vfmEnrollFinish.
LEMMA StoreSample ==
  ASSUME TokenInv, StoreInv, NEW n \in Calls, Sample(n)
  PROVE  StoreInv'
  <1>1. PICK ids : worker \in [Calls -> ThreadRecords(ids)]
    BY DEF TokenInv, ThreadInv
  <1>2. worker[n] \in ThreadRecords(ids) /\ worker[n].told # 0 /\ stored' = stored
    BY <1>1 DEF StoreInv, Sample, FinalPcs
  <1>3. PICK left, pc :
          /\ pc = IF left = 0 THEN "finish" ELSE "enroll"
          /\ worker' = [worker EXCEPT ![n].left = left,
                                      ![n].told = IF secureUser = 0 THEN @ ELSE left,
                                      ![n].pc = pc]
    BY DEF Sample
  <1> DEFINE told == IF secureUser = 0 THEN worker[n].told ELSE left
             w == [worker[n] EXCEPT !.left = left, !.told = told, !.pc = pc]
  <1>4. worker' = [worker EXCEPT ![n] = w]
    BY <1>1, <1>3
  <1>5. w.told = told /\ w.pc = pc
    BY <1>2 DEF ThreadRecords
  <1>6. told = 0 => pc = "finish"
    BY <1>2, <1>3
  <1> HIDE DEF w, told
  <1>7. \A m \in Calls : worker'[m] = IF m = n THEN w ELSE worker[m]
    BY <1>1, <1>4
  <1> QED
    BY <1>2, <1>5, <1>6, <1>7 DEF StoreInv, FinalPcs

\* A thread that reads the fields has announced nothing.
LEMMA StoreRead ==
  ASSUME TokenInv, StoreInv, NEW n \in Calls, send_authenticated_notice(n)
  PROVE  StoreInv'
  <1>1. worker[n].told # 0 /\ stored' = stored
    BY DEF StoreInv, send_authenticated_notice, Read, FinalPcs
  <1> QED
    BY <1>1, ReadTells DEF StoreInv

\* The thread of a new call has announced nothing.
LEMMA StoreStart ==
  ASSUME TokenInv, StoreInv, calls < MaxCalls, calls' = calls + 1, UNCHANGED stored,
         NEW claim, NEW pc, StartThread(claim, pc)
  PROVE  StoreInv'
  <1>1. /\ calls' \in Calls /\ worker[calls'].pc = "none"
        /\ \A m \in Calls : worker'[m].told = worker[m].told
        /\ \A m \in Calls : m # calls' => worker'[m] = worker[m]
    BY StartTells
  <1>2. worker[calls'].told # 0
    BY <1>1 DEF StoreInv, FinalPcs
  <1> QED
    BY <1>1, <1>2 DEF StoreInv

\* The ways of a thread lead from vfmEnrollFinish through the table to the end.
LEMMA StoreWays ==
  ASSUME TokenInv, StoreInv, NEW n \in Calls,
         \/ Capture(n) \/ CaptureFails(n) \/ Match(n) \/ AuthenticateOut(n)
         \/ EnrollElse(n) \/ Store(n) \/ EnrollOut(n)
  PROVE  StoreInv'
  <1> USE DEF FinalPcs, Pcs, ScanPcs, EnrollPcs
  <1>1. CASE Capture(n)
    BY <1>1, StoreGoto DEF Capture
  <1>2. CASE CaptureFails(n)
    BY <1>2, StoreGoto DEF CaptureFails
  <1>3. CASE Match(n)
    BY <1>3, StoreGoto DEF Match
  <1>4. CASE AuthenticateOut(n)
    BY <1>4, StoreGoto DEF AuthenticateOut
  <1>5. CASE EnrollElse(n)
    BY <1>5, StoreGoto DEF EnrollElse
  <1>6. CASE Store(n)
    BY <1>6, StoreGoto DEF Store
  <1>7. CASE EnrollOut(n)
    BY <1>7, StoreGoto DEF EnrollOut
  <1> QED
    BY <1>1, <1>2, <1>3, <1>4, <1>5, <1>6, <1>7

\* Every step keeps what was announced.
LEMMA StoreStep == TokenInv /\ StoreInv /\ [Next]_vars => StoreInv'
  <1> SUFFICES ASSUME TokenInv, StoreInv, [Next]_vars PROVE StoreInv'
    OBVIOUS
  <1>0. UNCHANGED <<worker, stored>> => StoreInv'
    BY DEF StoreInv
  <1> USE DEF fields, threads, counters, ghosts
  <1>1. CASE fingerprint_pre_enroll \/ fingerprint_post_enroll \/ fingerprint_get_auth_id
    BY <1>0, <1>1 DEF fingerprint_pre_enroll, fingerprint_post_enroll, fingerprint_get_auth_id
  <1>2. CASE fingerprint_authenticate
    BY <1>2, StoreStart DEF fingerprint_authenticate
  <1>3. ASSUME NEW hat \in Tokens, fingerprint_enroll(hat)
        PROVE  StoreInv'
    BY <1>0, <1>3, StoreStart DEF fingerprint_enroll
  <1>4. CASE fingerprint_cancel \/ CancelAnswered \/ vcs_timeout
    BY <1>0, <1>4 DEF fingerprint_cancel, CancelAnswered, vcs_timeout
  <1>5. ASSUME NEW n \in Calls, WorkerStep(n)
        PROVE  StoreInv'
    BY <1>5, StoreSample, StoreRead, StoreWays DEF WorkerStep
  <1>6. CASE UNCHANGED vars
    BY <1>0, <1>6 DEF vars
  <1> QED
    BY <1>1, <1>2, <1>3, <1>4, <1>5, <1>6 DEF Next

\* An enrolment that has told the framework that no sample remains cannot end without
\* its finger in the table, whoever cancels it, whatever the timer does and whichever
\* commands fail.
THEOREM AnnouncedFingers == Spec => []AnnouncedIsStored
  <1>1. Init => StoreInv
    BY DEF Init, StoreInv, NoThread
  <1>2. StoreInv => AnnouncedIsStored
    BY DEF StoreInv, AnnouncedIsStored
  <1> QED
    BY <1>1, <1>2, TokenInit, TokenStep, StoreStep, PTL DEF Spec

-----------------------------------------------------------------------------
(* The countdown. *)

\* What the framework was told last is at least what is left.
CountInv == \A n \in Calls : worker[n].left <= worker[n].told

\* What a step does to the countdown of every thread.
CountStep == \A n \in Calls : /\ worker'[n].left <= worker'[n].told
                              /\ worker'[n].told <= worker[n].told

\* A sample is counted down, or held at one, and told if there is a secure user.
LEMMA CountSample ==
  ASSUME TokenInv, CountInv, NEW n \in Calls, Sample(n)
  PROVE  CountStep
  <1>1. PICK ids : worker \in [Calls -> ThreadRecords(ids)]
    BY DEF TokenInv, ThreadInv
  <1>2. \A m \in Calls : worker[m] \in ThreadRecords(ids)
    BY <1>1
  <1>3. \A m \in Calls : /\ worker[m].left \in Nat /\ worker[m].told \in Nat
                         /\ worker[m].left <= worker[m].told
    BY <1>2 DEF ThreadRecords, CountInv
  <1>4. worker[n].left > 0
    BY DEF Sample, TokenInv, ThreadInv, EnrollPcs
  <1>5. PICK last \in BOOLEAN :
            LET counted == worker[n].left - 1
                left == IF last THEN 0 ELSE IF counted = 0 THEN 1 ELSE counted
            IN worker' = [worker EXCEPT ![n].left = left,
                                        ![n].told = IF secureUser = 0 THEN @ ELSE left,
                                        ![n].pc = IF left = 0 THEN "finish" ELSE "enroll"]
    BY DEF Sample
  <1> DEFINE counted == worker[n].left - 1
             left == IF last THEN 0 ELSE IF counted = 0 THEN 1 ELSE counted
             told == IF secureUser = 0 THEN worker[n].told ELSE left
             pc == IF left = 0 THEN "finish" ELSE "enroll"
             w == [worker[n] EXCEPT !.left = left, !.told = told, !.pc = pc]
  <1>6. left \in Nat /\ left <= worker[n].left
    BY <1>3, <1>4
  <1>7. worker' = [worker EXCEPT ![n] = w]
    BY <1>1, <1>5
  <1>8. w.told = told /\ w.left = left
    BY <1>2 DEF ThreadRecords
  <1>9. left <= told /\ told <= worker[n].told
    BY <1>3, <1>6
  <1> HIDE DEF w, told, left
  <1>10. \A m \in Calls : worker'[m] = IF m = n THEN w ELSE worker[m]
    BY <1>1, <1>7
  <1> QED
    BY <1>3, <1>8, <1>9, <1>10 DEF CountStep

\* No other step touches a countdown.
LEMMA CountEveryStep ==
  ASSUME TokenInv, CountInv, [Next]_vars
  PROVE  CountStep
  <1>1. PICK ids : worker \in [Calls -> ThreadRecords(ids)]
    BY DEF TokenInv, ThreadInv
  <1>2. \A m \in Calls : /\ worker[m].told \in Nat
                         /\ worker[m].left <= worker[m].told /\ worker[m].told <= worker[m].told
    BY <1>1 DEF ThreadRecords, CountInv
  <1>3. (\A m \in Calls : worker'[m].left = worker[m].left /\ worker'[m].told = worker[m].told)
        => CountStep
    BY <1>2 DEF CountStep
  <1> USE DEF fields, threads, counters, ghosts
  <1>4. CASE \/ fingerprint_pre_enroll \/ fingerprint_post_enroll \/ fingerprint_get_auth_id
             \/ fingerprint_cancel \/ CancelAnswered \/ vcs_timeout \/ UNCHANGED vars
    BY <1>3, <1>4 DEF fingerprint_pre_enroll, fingerprint_post_enroll, fingerprint_get_auth_id,
                      fingerprint_cancel, CancelAnswered, vcs_timeout, vars
  <1>5. CASE fingerprint_authenticate
    BY <1>3, <1>5, StartTells DEF fingerprint_authenticate
  <1>6. ASSUME NEW hat \in Tokens, fingerprint_enroll(hat)
        PROVE  CountStep
    BY <1>3, <1>6, StartTells DEF fingerprint_enroll
  <1>7. ASSUME NEW n \in Calls, WorkerStep(n)
        PROVE  CountStep
    <2>1. CASE \/ Capture(n) \/ CaptureFails(n) \/ Match(n) \/ AuthenticateOut(n)
               \/ EnrollElse(n) \/ Store(n) \/ EnrollOut(n)
      <3>1. PICK pc \in Pcs : Goto(n, pc)
        BY <2>1, Ways
      <3> QED
        BY <1>1, <1>3, <3>1, GotoEffect
    <2> QED
      BY <1>3, <1>7, <2>1, CountSample, ReadTells DEF WorkerStep
  <1> QED
    BY <1>4, <1>5, <1>6, <1>7 DEF Next

\* The framework is told of no fewer samples than vcs_enroll still wants and of no more
\* than before, for every number of samples and of operations: whatever the application
\* counts, and although a notice is dropped while secure_user_id is 0, which an enroll
\* call may change in the middle of the enrolment.
THEOREM CountsDown == Spec => CountdownHonest
  <1>1. Init => CountInv
    BY DEF Init, CountInv, NoThread
  <1>2. TokenInv /\ CountInv /\ [Next]_vars => CountInv' /\ [CountStep]_vars
    BY CountEveryStep DEF CountStep, CountInv
  <1>3. CountdownHonest <=> [][CountStep]_vars
    BY DEF CountdownHonest, CountStep
  <1> QED
    BY <1>1, <1>2, <1>3, TokenInit, TokenStep, PTL DEF Spec


=============================================================================
