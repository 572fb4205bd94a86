---------------------------- MODULE AppraisalDB ----------------------------
(***************************************************************************)
(* The appraisal database of bolt/appraisal_db.go: its five buckets, the   *)
(* requests that read and change them, the goroutines that record when an  *)
(* appraisal was last used, and the reaper that removes the unused ones.   *)
(*                                                                         *)
(* Every bolt Update is one atomic, durable step and every View reads one  *)
(* snapshot, so an action is one transaction together with the code that   *)
(* leads up to it.  What a goroutine carries from one transaction to the   *)
(* next is in req, touches and reaper; a crash loses exactly these.        *)
(*                                                                         *)
(* An appraisal is what its readers tell apart: who owns it and whether it *)
(* is private.  Time is kept as ages (how long ago), which stop growing    *)
(* once they are past ExpireTime, so that time itself is unbounded.        *)
(***************************************************************************)
EXTENDS Naturals

CONSTANTS
  Users,          \* characters that can be logged in
  NoUser,         \* Appraisal.User == nil
  LegacyIDs,      \* IDs that the restore command imports
  SequenceStart,  \* 20000000 in the code
  MaxSequence,    \* bound: the last ID that NextSequence hands out
  ExpireTime,     \* an appraisal unused for longer than this is reaped
  Statuses,       \* contract status summaries that SetNotifiedState stores
  Requests,       \* bound: HTTP requests in progress
  Touchers,       \* bound: setLastUsedTime goroutines in progress
  CommitFails     \* whether a transaction may fail to commit (a full disk)

ASSUME UsersAssumption    == NoUser \notin Users
ASSUME SequenceAssumption == /\ SequenceStart \in Nat
                             /\ MaxSequence \in Nat
                             /\ SequenceStart <= MaxSequence
\* Legacy IDs lie below the start of the sequence: that is what SetSequence
\* is called for.
ASSUME LegacyAssumption   == LegacyIDs \subseteq 0 .. SequenceStart
ASSUME ExpireAssumption   == ExpireTime \in Nat
ASSUME CommitAssumption   == CommitFails \in BOOLEAN

VARIABLES
  appraisals,     \* bucket "appraisals": ID -> [user, private]
  sequence,       \* its bucket sequence
  byUser,         \* bucket "appraisals-by-user": its keys, <<user, ID>>
  lastUsed,       \* bucket "appraisals-last-used": ID -> age
  notifiedTime,   \* bucket "appraisals-notified-time": its keys
  notifiedStatus, \* bucket "appraisals-notified-status": ID -> status
  touches,        \* setLastUsedTime goroutines: slot -> [id, age]
  req,            \* what each request in progress has read and does next
  reaper,         \* the reaper goroutine
  db              \* "open", "closing" (stop is closed) or "down"

buckets == <<appraisals, sequence, byUser, lastUsed, notifiedTime, notifiedStatus>>
vars    == <<buckets, touches, req, reaper, db>>

NewIDs == SequenceStart + 1 .. MaxSequence
IDs    == LegacyIDs \cup NewIDs
Owners == Users \cup {NoUser}
Ages   == 0 .. ExpireTime + 1      \* ExpireTime + 1 stands for every older age

Appraisals == [user : Owners, private : BOOLEAN]

Stored  == DOMAIN appraisals
Running == db \in {"open", "closing"}

NoTouch   == [age |-> "none"]
NoRequest == [op |-> "none"]

\* The bucket f with the entry k set to v, and without the entry k.
PutKey(f, k, v)  == [x \in DOMAIN f \cup {k} |-> IF x = k THEN v ELSE f[x]]
DeleteKey(f, k)  == [x \in DOMAIN f \ {k} |-> f[x]]

-----------------------------------------------------------------------------
(* Types *)

TouchStates == [id : IDs, age : Ages] \cup {NoTouch}

\* "delete": the owner was checked; "commit": the appraisal's user was read;
\* "set": SetNotifiedState is called; "time", "status": its two transactions.
RequestStates ==
  {NoRequest}
    \cup [op : {"delete"}, id : IDs, by : Users]
    \cup [op : {"commit"}, id : IDs, by : Users, user : Owners]
    \cup [op : {"set", "time", "status"}, id : IDs, status : Statuses]

\* "scan": about to look for unused appraisals; "each": in the loop over them
\* (or, with none left, in the select); "commit": has read id's user.
ReaperStates ==
  [pc : {"scan", "done"}] \cup [pc : {"each"}, unused : SUBSET IDs]
    \cup [pc : {"commit"}, unused : SUBSET IDs, id : IDs, user : Owners]

\* A bucket that maps IDs to the values V.
Bucket(f, V) == DOMAIN f \subseteq IDs /\ f \in [DOMAIN f -> V]

TypeOK ==
  /\ Bucket(appraisals, Appraisals)
  /\ sequence \in SequenceStart .. MaxSequence
  /\ byUser \subseteq Users \X IDs
  /\ Bucket(lastUsed, Ages)
  /\ notifiedTime \subseteq IDs
  /\ Bucket(notifiedStatus, Statuses)
  /\ touches \in [Touchers -> TouchStates]
  /\ req \in [Requests -> RequestStates]
  /\ reaper \in ReaperStates
  /\ db \in {"open", "closing", "down"}

-----------------------------------------------------------------------------
(* NewAppraisalDB on a directory without a database: the buckets are       *)
(* created and the reaper is started.                                      *)
Init ==
  /\ appraisals = [id \in {} |-> NoUser]
  /\ sequence = SequenceStart
  /\ byUser = {}
  /\ lastUsed = [id \in {} |-> 0]
  /\ notifiedTime = {}
  /\ notifiedStatus = [id \in {} |-> NoUser]
  /\ touches = [t \in Touchers |-> NoTouch]
  /\ req = [r \in Requests |-> NoRequest]
  /\ reaper = [pc |-> "scan"]
  /\ db = "open"

\* go db.setLastUsedTime(dbID)
SpawnTouch(id) ==
  \E t \in Touchers : /\ touches[t] = NoTouch
                      /\ touches' = [touches EXCEPT ![t] = [id |-> id, age |-> 0]]

\* Mutant: no test of appraisal.User before the index is written.
PutEntriesAnyUser(id, user, private) ==
  /\ appraisals' = PutKey(appraisals, id, [user |-> user, private |-> private])
  /\ byUser' = byUser \cup {<<user, id>>}

\* The body of the Update in PutNewAppraisal, once the ID is known.
PutEntries(id, user, private) ==
  /\ appraisals' = PutKey(appraisals, id, [user |-> user, private |-> private])
  /\ byUser' = IF user = NoUser THEN byUser ELSE byUser \cup {<<user, id>>}

\* Mutants: the ID is taken from the sequence before it is advanced; the
\* sequence is only read; the lowest free ID is taken.
PutOldSequence(user, private) ==
  /\ db = "open" /\ sequence < MaxSequence
  /\ private => user # NoUser
  /\ sequence' = sequence + 1
  /\ PutEntries(sequence, user, private)
  /\ UNCHANGED <<lastUsed, notifiedTime, notifiedStatus, touches, req, reaper, db>>

PutNoNextSequence(user, private) ==
  /\ db = "open" /\ sequence < MaxSequence
  /\ private => user # NoUser
  /\ PutEntries(sequence + 1, user, private)
  /\ UNCHANGED <<sequence, lastUsed, notifiedTime, notifiedStatus, touches, req, reaper, db>>

PutLowestFree(user, private) ==
  /\ db = "open"
  /\ private => user # NoUser
  /\ \E id \in NewIDs \ Stored :
       /\ SequenceStart + 1 .. id - 1 \subseteq Stored
       /\ sequence' = IF id > sequence THEN id ELSE sequence
       /\ PutEntries(id, user, private)
  /\ UNCHANGED <<lastUsed, notifiedTime, notifiedStatus, touches, req, reaper, db>>

(* PutNewAppraisal for POST /appraisal: the ID comes from the sequence.    *)
(* The private flag is only honoured for a logged-in user.                 *)
Put(user, private) ==
  /\ db = "open" /\ sequence < MaxSequence
  /\ private => user # NoUser
  /\ sequence' = sequence + 1
  /\ PutEntries(sequence + 1, user, private)
  /\ UNCHANGED <<lastUsed, notifiedTime, notifiedStatus, touches, req, reaper, db>>

\* Mutant: the sequence is advanced for a given ID, too.
RestoreAdvances(id) ==
  /\ db = "open" /\ sequence < MaxSequence
  /\ sequence' = sequence + 1
  /\ PutEntries(id, NoUser, FALSE)
  /\ UNCHANGED <<lastUsed, notifiedTime, notifiedStatus, touches, req, reaper, db>>

(* PutNewAppraisal for the restore command, which names the ID and never   *)
(* sets a user.  A second restore of a file overwrites.                    *)
Restore(id) ==
  /\ db = "open"
  /\ PutEntries(id, NoUser, FALSE)
  /\ UNCHANGED <<sequence, lastUsed, notifiedTime, notifiedStatus, touches, req, reaper, db>>

(* PutNewAppraisal when the Update does not commit: the sequence is rolled *)
(* back with the rest, and the last-used time of the ID is set all the     *)
(* same (the test of err is inverted).                                     *)
PutFails(id) ==
  /\ CommitFails /\ db = "open"
  /\ id \in LegacyIDs \/ id = sequence + 1
  /\ SpawnTouch(id)
  /\ UNCHANGED <<buckets, req, reaper, db>>

(* GetAppraisal: a View that finds the appraisal, then the goroutine.      *)
Get(id) ==
  /\ id \in Stored
  /\ SpawnTouch(id)

(* HandleViewAppraisal for anyone but the owner, and every request that is *)
(* refused after GetAppraisal succeeded (a wrong token, not the owner).    *)
View(id) ==
  /\ db = "open"
  /\ Get(id)
  /\ UNCHANGED <<buckets, req, reaper, db>>

(* HandleViewAppraisal by the owner, up to SetNotifiedState of the         *)
(* contract status that was fetched.  (That it reads the notified state    *)
(* before, and may leave it at that, is in SetNotifiedState's own reading.) *)
ViewByOwner(r, id, user, status) ==
  /\ db = "open" /\ req[r] = NoRequest
  /\ Get(id)
  /\ appraisals[id].user = user
  /\ req' = [req EXCEPT ![r] = [op |-> "set", id |-> id, status |-> status]]
  /\ UNCHANGED <<buckets, reaper, db>>

\* Mutant: nobody checks the owner.
RequestDeleteAnyone(r, id, user) ==
  /\ db = "open" /\ req[r] = NoRequest
  /\ Get(id)
  /\ req' = [req EXCEPT ![r] = [op |-> "delete", id |-> id, by |-> user]]
  /\ UNCHANGED <<buckets, reaper, db>>

(* HandleDeleteAppraisal up to the check that the caller is the owner.     *)
RequestDelete(r, id, user) ==
  /\ db = "open" /\ req[r] = NoRequest
  /\ Get(id)
  /\ appraisals[id].user = user
  /\ req' = [req EXCEPT ![r] = [op |-> "delete", id |-> id, by |-> user]]
  /\ UNCHANGED <<buckets, reaper, db>>

-----------------------------------------------------------------------------
(* DeleteAppraisal: one transaction reads the appraisal, the next removes  *)
(* the entries.  A missing appraisal is no error: it counts as one without *)
(* a user.                                                                 *)

UserOf(id) == IF id \in Stored THEN appraisals[id].user ELSE NoUser

\* Mutants: the index entry stays; nothing is removed for a missing appraisal.
RemoveNoIndex(id, user) ==
  /\ appraisals' = DeleteKey(appraisals, id)
  /\ lastUsed' = DeleteKey(lastUsed, id)
  /\ notifiedTime' = notifiedTime \ {id}
  /\ notifiedStatus' = DeleteKey(notifiedStatus, id)
  /\ UNCHANGED <<sequence, byUser>>

RemoveFoundOnly(id, user) ==
  /\ byUser' = IF user = NoUser THEN byUser ELSE byUser \ {<<user, id>>}
  /\ appraisals' = DeleteKey(appraisals, id)
  /\ lastUsed' = IF id \in Stored THEN DeleteKey(lastUsed, id) ELSE lastUsed
  /\ notifiedTime' = notifiedTime \ {id}
  /\ notifiedStatus' = DeleteKey(notifiedStatus, id)
  /\ UNCHANGED sequence

\* The body of the Update in DeleteAppraisal, with the user read before.
Remove(id, user) ==
  /\ byUser' = IF user = NoUser THEN byUser ELSE byUser \ {<<user, id>>}
  /\ appraisals' = DeleteKey(appraisals, id)
  /\ lastUsed' = DeleteKey(lastUsed, id)
  /\ notifiedTime' = notifiedTime \ {id}
  /\ notifiedStatus' = DeleteKey(notifiedStatus, id)
  /\ UNCHANGED sequence

DeleteRead(r) ==
  /\ Running /\ req[r].op = "delete"
  /\ req' = [req EXCEPT ![r] = [op   |-> "commit",
                                id   |-> req[r].id,
                                by   |-> req[r].by,
                                user |-> UserOf(req[r].id)]]
  /\ UNCHANGED <<buckets, touches, reaper, db>>

DeleteCommit(r) ==
  /\ Running /\ req[r].op = "commit"
  /\ \/ Remove(req[r].id, req[r].user)
     \/ CommitFails /\ UNCHANGED buckets
  /\ req' = [req EXCEPT ![r] = NoRequest]
  /\ UNCHANGED <<touches, reaper, db>>

-----------------------------------------------------------------------------
(* SetNotifiedState: nothing if the same state is found (both buckets hold *)
(* the ID), otherwise two transactions.  The error of the first is lost.   *)

NotifiedStateFound(id) == id \in notifiedTime /\ id \in DOMAIN notifiedStatus

SetNotifiedState(r) ==
  /\ Running /\ req[r].op = "set"
  /\ LET id == req[r].id IN
       req' = [req EXCEPT ![r] =
                 IF NotifiedStateFound(id) /\ notifiedStatus[id] = req[r].status
                 THEN NoRequest
                 ELSE [op |-> "time", id |-> id, status |-> req[r].status]]
  /\ UNCHANGED <<buckets, touches, reaper, db>>

\* Mutant: the time is not written (or: is written last and lost in a crash).
SetNotifiedTimeSkipped(r) ==
  /\ Running /\ req[r].op = "time"
  /\ req' = [req EXCEPT ![r] = [op     |-> "status",
                                id     |-> req[r].id,
                                status |-> req[r].status]]
  /\ UNCHANGED <<buckets, touches, reaper, db>>

SetNotifiedTime(r) ==
  /\ Running /\ req[r].op = "time"
  /\ \/ notifiedTime' = notifiedTime \cup {req[r].id}
     \/ CommitFails /\ UNCHANGED notifiedTime
  /\ req' = [req EXCEPT ![r] = [op     |-> "status",
                                id     |-> req[r].id,
                                status |-> req[r].status]]
  /\ UNCHANGED <<appraisals, sequence, byUser, lastUsed, notifiedStatus, touches, reaper, db>>

SetNotifiedStatus(r) ==
  /\ Running /\ req[r].op = "status"
  /\ \/ notifiedStatus' = PutKey(notifiedStatus, req[r].id, req[r].status)
     \/ CommitFails /\ UNCHANGED notifiedStatus
  /\ req' = [req EXCEPT ![r] = NoRequest]
  /\ UNCHANGED <<appraisals, sequence, byUser, lastUsed, notifiedTime, touches, reaper, db>>

-----------------------------------------------------------------------------
(* setLastUsedTime: the goroutine reads the clock some time between being  *)
(* spawned and getting the write lock, and does not look at the appraisal. *)
SetLastUsedTime(t) ==
  /\ Running /\ touches[t] # NoTouch
  /\ \/ \E age \in 0 .. touches[t].age :
          lastUsed' = PutKey(lastUsed, touches[t].id, age)
     \/ CommitFails /\ UNCHANGED lastUsed
  /\ touches' = [touches EXCEPT ![t] = NoTouch]
  /\ UNCHANGED <<appraisals, sequence, byUser, notifiedTime, notifiedStatus, req, reaper, db>>

-----------------------------------------------------------------------------
(* startReaper: one View collects the IDs that are due, in key order, then *)
(* each is deleted without being looked at again.                          *)

Expired == {id \in DOMAIN lastUsed : lastUsed[id] > ExpireTime}

ReaperScan ==
  /\ Running /\ reaper.pc = "scan"
  /\ reaper' = [pc |-> "each", unused |-> Expired]
  /\ UNCHANGED <<buckets, touches, req, db>>

ReaperRead ==
  /\ Running /\ reaper.pc = "each"
  /\ \E id \in reaper.unused :
       /\ \A other \in reaper.unused : id <= other
       /\ reaper' = [pc     |-> "commit",
                     unused |-> reaper.unused \ {id},
                     id     |-> id,
                     user   |-> UserOf(id)]
  /\ UNCHANGED <<buckets, touches, req, db>>

ReaperCommit ==
  /\ Running /\ reaper.pc = "commit"
  /\ \/ Remove(reaper.id, reaper.user)
     \/ CommitFails /\ UNCHANGED buckets
  /\ reaper' = [pc |-> "each", unused |-> reaper.unused]
  /\ UNCHANGED <<touches, req, db>>

\* Mutants: the reaper makes one pass only; it does not listen to stop.
ReaperWakeOnce ==
  /\ reaper.pc = "each" /\ reaper.unused = {}
  /\ db = "closing"
  /\ reaper' = [pc |-> "done"]
  /\ UNCHANGED <<buckets, touches, req, db>>

ReaperWakeUnstopped ==
  /\ Running /\ reaper.pc = "each" /\ reaper.unused = {}
  /\ reaper' = [pc |-> "scan"]
  /\ UNCHANGED <<buckets, touches, req, db>>

\* The select at the end of the loop: an hour has passed, or stop is closed,
\* which a select entered later (with a new timer) finds at once.
ReaperWake ==
  /\ reaper.pc = "each" /\ reaper.unused = {}
  /\ \/ db = "open" /\ reaper' = [pc |-> "scan"]
     \/ db = "closing" /\ reaper' = [pc |-> "done"]
  /\ UNCHANGED <<buckets, touches, req, db>>

-----------------------------------------------------------------------------
(* Close waits for the reaper, then closes the bolt file.  From then on    *)
(* every transaction fails, so what is still in flight has no effect.      *)
Close ==
  /\ db = "open"
  /\ db' = "closing"
  /\ UNCHANGED <<buckets, touches, req, reaper>>

\* The volatile state is gone with the process.
Stopped ==
  /\ touches' = [t \in Touchers |-> NoTouch]
  /\ req' = [r \in Requests |-> NoRequest]
  /\ reaper' = [pc |-> "done"]
  /\ db' = "down"
  /\ UNCHANGED buckets

Closed == db = "closing" /\ reaper.pc = "done" /\ Stopped

Crash == Running /\ Stopped

(* NewAppraisalDB on an existing file: the buckets are left as they are.   *)
Open ==
  /\ db = "down"
  /\ db' = "open"
  /\ reaper' = [pc |-> "scan"]
  /\ UNCHANGED <<buckets, touches, req>>

Older(age) == IF age > ExpireTime THEN age ELSE age + 1

\* Time passes, whether or not the program runs.
Tick ==
  /\ lastUsed' = [id \in DOMAIN lastUsed |-> Older(lastUsed[id])]
  /\ touches' = [t \in Touchers |->
                   IF touches[t] = NoTouch THEN NoTouch
                   ELSE [id |-> touches[t].id, age |-> Older(touches[t].age)]]
  /\ UNCHANGED <<appraisals, sequence, byUser, notifiedTime, notifiedStatus, req, reaper, db>>

-----------------------------------------------------------------------------
\* What clients ask for.
Client ==
  \/ \E user \in Owners, private \in BOOLEAN : Put(user, private)
  \/ \E id \in LegacyIDs : Restore(id)
  \/ \E id \in IDs : PutFails(id) \/ View(id)
  \/ \E r \in Requests, id \in IDs, user \in Users :
       \/ RequestDelete(r, id, user)
       \/ \E status \in Statuses : ViewByOwner(r, id, user, status)

\* The further steps of a request.
Serve(r) == \/ DeleteRead(r) \/ DeleteCommit(r)
            \/ SetNotifiedState(r) \/ SetNotifiedTime(r) \/ SetNotifiedStatus(r)

Reap == ReaperScan \/ ReaperRead \/ ReaperCommit \/ ReaperWake

Next ==
  \/ Client
  \/ \E r \in Requests : Serve(r)
  \/ \E t \in Touchers : SetLastUsedTime(t)
  \/ Reap
  \/ Close \/ Closed \/ Crash \/ Open \/ Tick

Spec == Init /\ [][Next]_vars

(* What the scheduler and the operator owe: goroutines run, time passes, a *)
(* stopped program is started again, and crashes come to an end.  Nobody   *)
(* has to make a request or to close the program.                          *)
Fairness ==
  /\ \A r \in Requests : WF_vars(Serve(r))
  /\ \A t \in Touchers : WF_vars(SetLastUsedTime(t))
  /\ WF_vars(Reap) /\ WF_vars(Closed) /\ WF_vars(Open) /\ WF_vars(Tick)
  /\ <>[][~Crash]_vars

FairSpec == Spec /\ Fairness

-----------------------------------------------------------------------------
(* Safety *)

\* The index by user lists exactly the stored appraisals that have a user,
\* although DeleteAppraisal removes the index entry of a user it read in an
\* earlier transaction.  A dangling entry would make LatestAppraisalsByUser
\* fail for that user's whole history, for good.
IndexExact ==
  \A user \in Users, id \in IDs :
    <<user, id>> \in byUser <=> id \in Stored /\ appraisals[id].user = user

\* An ID that was not handed out yet has left no trace in any bucket,
\* goroutine, request or reaper pass: a fresh appraisal is not born with the
\* last-used time, the notified state or the pending removal of another.
Untraced(id) ==
  /\ id \notin Stored \cup DOMAIN lastUsed \cup notifiedTime \cup DOMAIN notifiedStatus
  /\ \A t \in Touchers : touches[t] # NoTouch => touches[t].id # id
  /\ \A r \in Requests : req[r] # NoRequest => req[r].id # id
  /\ reaper.pc \in {"each", "commit"} => id \notin reaper.unused
  /\ reaper.pc = "commit" => id # reaper.id

NoTraceBeforeIssue == \A id \in NewIDs : id > sequence => Untraced(id)

\* The user that DeleteAppraisal read in its first transaction is still the
\* user of the appraisal in its second one, if the appraisal is still there;
\* imported appraisals never get a user.
Carries(id, user) ==
  /\ id \in Stored => appraisals[id].user = user
  /\ id \in LegacyIDs => user = NoUser

CarriedUser ==
  /\ \A r \in Requests : req[r].op = "commit" => Carries(req[r].id, req[r].user)
  /\ reaper.pc = "commit" => Carries(reaper.id, reaper.user)
  /\ \A id \in Stored \cap LegacyIDs : appraisals[id].user = NoUser

\* The two transactions of SetNotifiedState, a removal between them and a
\* crash between them never leave a stored appraisal with a status that
\* GetNotifiedState cannot find for want of its time.
NotifiedWhole == Stored \cap DOMAIN notifiedStatus \subseteq notifiedTime

\* "This action cannot be undone" (appraisal.html:15): no step of any actor,
\* no crash and no restart brings a deleted appraisal or its ID back.
DeletedForGood ==
  [][\A id \in NewIDs : id <= sequence /\ id \notin Stored => id \notin Stored']_vars

\* No step changes an appraisal that stays stored: an ID is given out once,
\* and the sequence never runs into the imported IDs.
NeverOverwritten ==
  [][\A id \in Stored : id \in Stored' => appraisals'[id] = appraisals[id]]_vars

\* An appraisal goes away only through the reaper or through a request of its
\* owner, whatever happened between the check of the owner and the removal.
RemovedByOwnerOrReaper ==
  [][\A id \in Stored : id \notin Stored' =>
       \/ reaper.pc = "commit" /\ reaper.id = id
       \/ \E r \in Requests : /\ req[r].op = "commit" /\ req[r].id = id
                               /\ req[r].by = appraisals[id].user]_vars

\* The appraisal store as its callers see it.
Abstract == INSTANCE AppraisalStore WITH
  store   <- appraisals,
  history <- [u \in Users |-> {id \in IDs : <<u, id>> \in byUser}],
  issued  <- SequenceStart + 1 .. sequence

\* Transactions, goroutines, crashes and restarts do not show: what callers
\* see of the buckets changes as if each operation were a single step.
ImplementsStore == Abstract!Spec

-----------------------------------------------------------------------------
(* Liveness, of FairSpec *)

\* A last-used entry written after its appraisal was removed does not stay:
\* the reaper removes it in time.
OrphansReaped ==
  \A id \in IDs : id \in DOMAIN lastUsed /\ id \notin Stored
                  ~> id \notin DOMAIN lastUsed \/ id \in Stored

\* What is past its time is removed, or was used again.
ExpiredReaped ==
  \A id \in IDs : id \in Expired ~> id \notin Expired

\* Close returns: it is not kept waiting by the reaper.
CloseReturns == db = "closing" ~> db = "down"

\* No appraisal is kept for ever without ever being used.
NeverUsedReaped ==
  \A id \in IDs : ~<>[](id \in Stored \ DOMAIN lastUsed)
=============================================================================
