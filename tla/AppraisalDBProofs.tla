------------------------- MODULE AppraisalDBProofs -------------------------
(***************************************************************************)
(* Proofs about AppraisalDB, for every value of its constants: its types,  *)
(* what may be stored and who removes it; and, as long as transactions     *)
(* commit, that the index by user is exact, that the database implements   *)
(* AppraisalStore and that a notified status has its time.                 *)
(***************************************************************************)
EXTENDS AppraisalDB, TLAPS

-----------------------------------------------------------------------------
(* Buckets *)

\* Storing a value of the bucket's kind under an ID leaves it a bucket.
LEMMA PutKeyBucket ==
  ASSUME NEW f, NEW V, Bucket(f, V), NEW id \in IDs, NEW v \in V
  PROVE  Bucket(PutKey(f, id, v), V)
BY DEF Bucket, PutKey

\* Removing an ID leaves a bucket a bucket.
LEMMA DeleteKeyBucket ==
  ASSUME NEW f, NEW V, Bucket(f, V), NEW id
  PROVE  Bucket(DeleteKey(f, id), V)
BY DEF Bucket, DeleteKey

\* The age of an entry stays an age when time passes.
LEMMA OlderAge ==
  ASSUME NEW age \in Ages
  PROVE  Older(age) \in Ages
BY ExpireAssumption DEF Ages, Older

\* The IDs that the sequence hands out are IDs, and none of them is imported.
LEMMA FreshID ==
  ASSUME sequence \in SequenceStart .. MaxSequence, sequence < MaxSequence
  PROVE  /\ sequence + 1 \in NewIDs
         /\ sequence + 1 \in SequenceStart .. MaxSequence
BY SequenceAssumption DEF NewIDs

LEMMA LegacyNotNew == LegacyIDs \cap NewIDs = {}
BY SequenceAssumption, LegacyAssumption DEF NewIDs

\* Every ID is a natural number.
LEMMA IDsNat == IDs \subseteq Nat
BY SequenceAssumption, LegacyAssumption DEF IDs, NewIDs

-----------------------------------------------------------------------------
(* Types *)

LEMMA InitType == Init => TypeOK
BY SequenceAssumption DEF Init, TypeOK, Bucket, TouchStates, RequestStates, ReaperStates

\* Spawning a goroutine for an ID keeps the goroutines well typed.
LEMMA SpawnTouchType ==
  ASSUME TypeOK, NEW id \in IDs, SpawnTouch(id)
  PROVE  touches' \in [Touchers -> TouchStates]
BY ExpireAssumption DEF TypeOK, SpawnTouch, TouchStates, Ages

\* The Update in PutNewAppraisal keeps its two buckets well typed.
LEMMA PutEntriesType ==
  ASSUME TypeOK, NEW id \in IDs, NEW user \in Owners, NEW private \in BOOLEAN,
         PutEntries(id, user, private)
  PROVE  Bucket(appraisals, Appraisals)' /\ byUser' \subseteq Users \X IDs
<1>1. Bucket(appraisals, Appraisals)'
  <2>1. [user |-> user, private |-> private] \in Appraisals
    BY DEF Appraisals
  <2> QED  BY <2>1, PutKeyBucket DEF PutEntries, TypeOK, Bucket
<1>2. byUser' \subseteq Users \X IDs
  BY DEF PutEntries, TypeOK, Owners
<1> QED  BY <1>1, <1>2

\* The Update in DeleteAppraisal keeps the buckets well typed.
LEMMA RemoveType ==
  ASSUME TypeOK, NEW id, NEW user, Remove(id, user)
  PROVE  /\ Bucket(appraisals, Appraisals)' /\ byUser' \subseteq Users \X IDs
         /\ Bucket(lastUsed, Ages)' /\ Bucket(notifiedStatus, Statuses)'
         /\ notifiedTime' \subseteq IDs /\ sequence' = sequence
<1>1. Bucket(appraisals, Appraisals)' /\ Bucket(lastUsed, Ages)' /\ Bucket(notifiedStatus, Statuses)'
  BY DeleteKeyBucket DEF Remove, TypeOK, Bucket
<1> QED  BY <1>1 DEF Remove, TypeOK

\* The user that DeleteAppraisal reads is an owner.
LEMMA UserOfOwner ==
  ASSUME TypeOK, NEW id
  PROVE  UserOf(id) \in Owners
BY DEF TypeOK, UserOf, Stored, Bucket, Appraisals, Owners

\* Every step keeps the types.
LEMMA NextType == TypeOK /\ [Next]_vars => TypeOK'
<1> SUFFICES ASSUME TypeOK, [Next]_vars  PROVE TypeOK'
  OBVIOUS
<1>1. CASE UNCHANGED vars
  BY <1>1 DEF TypeOK, vars, buckets, Bucket
<1>2. ASSUME NEW user \in Owners, NEW private \in BOOLEAN, Put(user, private)
      PROVE  TypeOK'
  <2>1. sequence + 1 \in IDs /\ sequence' \in SequenceStart .. MaxSequence
    BY <1>2, FreshID DEF Put, TypeOK, IDs
  <2>2. Bucket(appraisals, Appraisals)' /\ byUser' \subseteq Users \X IDs
    BY <1>2, <2>1, PutEntriesType DEF Put
  <2> QED  BY <1>2, <2>1, <2>2 DEF Put, TypeOK, Bucket
<1>3. ASSUME NEW id \in LegacyIDs, Restore(id)
      PROVE  TypeOK'
  <2>1. Bucket(appraisals, Appraisals)' /\ byUser' \subseteq Users \X IDs
    BY <1>3, PutEntriesType DEF Restore, IDs, Owners
  <2> QED  BY <1>3, <2>1 DEF Restore, TypeOK, Bucket
<1>4. ASSUME NEW id \in IDs, PutFails(id) \/ View(id)
      PROVE  TypeOK'
  <2>1. SpawnTouch(id) /\ UNCHANGED <<buckets, req, reaper, db>>
    BY <1>4 DEF PutFails, View, Get
  <2>2. touches' \in [Touchers -> TouchStates]
    BY <2>1, SpawnTouchType
  <2> QED  BY <2>1, <2>2 DEF TypeOK, buckets, Bucket
<1>5. ASSUME NEW r \in Requests, NEW id \in IDs, NEW user \in Users, RequestDelete(r, id, user)
      PROVE  TypeOK'
  <2>1. touches' \in [Touchers -> TouchStates]
    BY <1>5, SpawnTouchType DEF RequestDelete, Get
  <2>2. req' \in [Requests -> RequestStates]
    BY <1>5 DEF RequestDelete, TypeOK, RequestStates
  <2> QED  BY <1>5, <2>1, <2>2 DEF RequestDelete, TypeOK, buckets, Bucket
<1>6. ASSUME NEW r \in Requests, NEW id \in IDs, NEW user \in Users, NEW status \in Statuses,
             ViewByOwner(r, id, user, status)
      PROVE  TypeOK'
  <2>1. touches' \in [Touchers -> TouchStates]
    BY <1>6, SpawnTouchType DEF ViewByOwner, Get
  <2>2. req' \in [Requests -> RequestStates]
    BY <1>6 DEF ViewByOwner, TypeOK, RequestStates
  <2> QED  BY <1>6, <2>1, <2>2 DEF ViewByOwner, TypeOK, buckets, Bucket
<1>7. ASSUME NEW r \in Requests, DeleteRead(r)
      PROVE  TypeOK'
  <2>1. req[r] \in [op : {"delete"}, id : IDs, by : Users]
    BY <1>7 DEF DeleteRead, TypeOK, RequestStates, NoRequest
  <2>2. req' \in [Requests -> RequestStates]
    BY <1>7, <2>1, UserOfOwner DEF DeleteRead, TypeOK, RequestStates
  <2> QED  BY <1>7, <2>2 DEF DeleteRead, TypeOK, buckets, Bucket
<1>8. ASSUME NEW r \in Requests, DeleteCommit(r)
      PROVE  TypeOK'
  <2>1. req' \in [Requests -> RequestStates]
    BY <1>8 DEF DeleteCommit, TypeOK, RequestStates
  <2>2. CASE Remove(req[r].id, req[r].user)
    BY <1>8, <2>1, <2>2, RemoveType DEF DeleteCommit, TypeOK
  <2>3. CASE UNCHANGED buckets
    BY <1>8, <2>1, <2>3 DEF DeleteCommit, TypeOK, buckets, Bucket
  <2> QED  BY <1>8, <2>2, <2>3 DEF DeleteCommit
<1>9. ASSUME NEW r \in Requests, SetNotifiedState(r)
      PROVE  TypeOK'
  <2>1. req[r].id \in IDs /\ req[r].status \in Statuses
    BY <1>9 DEF SetNotifiedState, TypeOK, RequestStates, NoRequest
  <2>2. req' \in [Requests -> RequestStates]
    BY <1>9, <2>1 DEF SetNotifiedState, TypeOK, RequestStates
  <2> QED  BY <1>9, <2>2 DEF SetNotifiedState, TypeOK, buckets, Bucket
<1>10. ASSUME NEW r \in Requests, SetNotifiedTime(r)
       PROVE  TypeOK'
  <2>1. req[r].id \in IDs /\ req[r].status \in Statuses
    BY <1>10 DEF SetNotifiedTime, TypeOK, RequestStates, NoRequest
  <2>2. req' \in [Requests -> RequestStates]
    BY <1>10, <2>1 DEF SetNotifiedTime, TypeOK, RequestStates
  <2>3. notifiedTime' \subseteq IDs
    BY <1>10, <2>1 DEF SetNotifiedTime, TypeOK
  <2> QED  BY <1>10, <2>2, <2>3 DEF SetNotifiedTime, TypeOK, Bucket
<1>11. ASSUME NEW r \in Requests, SetNotifiedStatus(r)
       PROVE  TypeOK'
  <2>1. req[r].id \in IDs /\ req[r].status \in Statuses
    BY <1>11 DEF SetNotifiedStatus, TypeOK, RequestStates, NoRequest
  <2>2. req' \in [Requests -> RequestStates]
    BY <1>11 DEF SetNotifiedStatus, TypeOK, RequestStates
  <2>3. Bucket(notifiedStatus, Statuses)'
    <3>1. Bucket(PutKey(notifiedStatus, req[r].id, req[r].status), Statuses)
      BY <2>1, PutKeyBucket DEF TypeOK
    <3>2. CASE notifiedStatus' = PutKey(notifiedStatus, req[r].id, req[r].status)
      BY <3>1, <3>2 DEF Bucket
    <3>3. CASE UNCHANGED notifiedStatus
      BY <3>3 DEF TypeOK, Bucket
    <3> QED  BY <1>11, <3>2, <3>3 DEF SetNotifiedStatus
  <2> QED  BY <1>11, <2>2, <2>3 DEF SetNotifiedStatus, TypeOK, Bucket
<1>12. ASSUME NEW t \in Touchers, SetLastUsedTime(t)
       PROVE  TypeOK'
  <2>1. touches[t].id \in IDs /\ touches[t].age \in Ages
    BY <1>12 DEF SetLastUsedTime, TypeOK, TouchStates
  <2>2. 0 .. touches[t].age \subseteq Ages
    BY <2>1, ExpireAssumption DEF Ages
  <2>3. Bucket(lastUsed, Ages)'
    <3>1. ASSUME NEW age \in 0 .. touches[t].age, lastUsed' = PutKey(lastUsed, touches[t].id, age)
          PROVE  Bucket(lastUsed, Ages)'
      <4>1. Bucket(PutKey(lastUsed, touches[t].id, age), Ages)
        BY <2>1, <2>2, PutKeyBucket DEF TypeOK
      <4> QED  BY <3>1, <4>1 DEF Bucket
    <3>2. CASE UNCHANGED lastUsed
      BY <3>2 DEF TypeOK, Bucket
    <3> QED  BY <1>12, <3>1, <3>2 DEF SetLastUsedTime
  <2>4. touches' \in [Touchers -> TouchStates]
    BY <1>12 DEF SetLastUsedTime, TypeOK, TouchStates
  <2> QED  BY <1>12, <2>3, <2>4 DEF SetLastUsedTime, TypeOK, Bucket
<1>13. ASSUME ReaperScan
       PROVE  TypeOK'
  <2>1. reaper' \in ReaperStates
    BY <1>13 DEF ReaperScan, Expired, TypeOK, Bucket, ReaperStates
  <2> QED  BY <1>13, <2>1 DEF ReaperScan, TypeOK, buckets, Bucket
<1>14. ASSUME ReaperRead
       PROVE  TypeOK'
  <2>1. reaper.unused \subseteq IDs
    BY <1>14 DEF ReaperRead, TypeOK, ReaperStates
  <2>2. reaper' \in ReaperStates
    BY <1>14, <2>1, UserOfOwner DEF ReaperRead, ReaperStates
  <2> QED  BY <1>14, <2>2 DEF ReaperRead, TypeOK, buckets, Bucket
<1>15. ASSUME ReaperCommit
       PROVE  TypeOK'
  <2>1. reaper' \in ReaperStates
    BY <1>15 DEF ReaperCommit, TypeOK, ReaperStates
  <2>2. CASE Remove(reaper.id, reaper.user)
    BY <1>15, <2>1, <2>2, RemoveType DEF ReaperCommit, TypeOK
  <2>3. CASE UNCHANGED buckets
    BY <1>15, <2>1, <2>3 DEF ReaperCommit, TypeOK, buckets, Bucket
  <2> QED  BY <1>15, <2>2, <2>3 DEF ReaperCommit
<1>16. ASSUME ReaperWake
       PROVE  TypeOK'
  BY <1>16 DEF ReaperWake, TypeOK, ReaperStates, buckets, Bucket
<1>17. ASSUME Close \/ Open
       PROVE  TypeOK'
  BY <1>17 DEF Close, Open, TypeOK, ReaperStates, buckets, Bucket
<1>18. ASSUME Closed \/ Crash
       PROVE  TypeOK'
  BY <1>18 DEF Closed, Crash, Stopped, TypeOK, TouchStates, RequestStates, ReaperStates, buckets, Bucket
<1>19. ASSUME Tick
       PROVE  TypeOK'
  <2>1. Bucket(lastUsed, Ages)'
    BY <1>19, OlderAge DEF Tick, TypeOK, Bucket
  <2>2. \A t \in Touchers : touches'[t] \in TouchStates
    BY <1>19, OlderAge DEF Tick, TypeOK, TouchStates
  <2>3. touches' \in [Touchers -> TouchStates]
    BY <1>19, <2>2 DEF Tick
  <2> QED  BY <1>19, <2>1, <2>3 DEF Tick, TypeOK, Bucket
<1> QED
  BY <1>1, <1>2, <1>3, <1>4, <1>5, <1>6, <1>7, <1>8, <1>9, <1>10, <1>11, <1>12, <1>13, <1>14,
     <1>15, <1>16, <1>17, <1>18, <1>19 DEF Next, Client, Serve, Reap

\* The database, its goroutines and its requests keep their types.
THEOREM TypeCorrect == Spec => []TypeOK
<1>1. Init => TypeOK
  BY InitType
<1>2. TypeOK /\ [Next]_vars => TypeOK'
  BY NextType
<1> QED  BY <1>1, <1>2, PTL DEF Spec

-----------------------------------------------------------------------------
(***************************************************************************)
(* The index by user.  DeleteAppraisal removes the index entry of the user *)
(* it read in an earlier transaction, so the index stays exact because     *)
(* that user is still the right one (CarriedUser); this holds because no   *)
(* appraisal is created under an ID that is being removed, that is, an ID  *)
(* leaves no trace before it is handed out (NoTraceBeforeIssue).           *)
(***************************************************************************)
IndexInv == TypeOK /\ NoTraceBeforeIssue /\ CarriedUser /\ IndexExact

LEMMA InitIndex == Init => IndexInv
BY InitType DEF Init, IndexInv, NoTraceBeforeIssue, Untraced, CarriedUser, IndexExact, Stored,
   NoTouch, NoRequest

\* A step hands out at most the next ID, and the sequence never goes back.
LEMMA SequenceGrows ==
  ASSUME TypeOK, [Next]_vars
  PROVE  sequence' \in {sequence, sequence + 1}
<1>1. ASSUME NEW id, NEW user, Remove(id, user)  PROVE sequence' = sequence
  BY <1>1 DEF Remove
<1> QED
  BY <1>1 DEF Next, Client, Serve, Reap, vars, buckets, Put, Restore, PutFails, View, ViewByOwner,
     RequestDelete, DeleteRead, DeleteCommit, SetNotifiedState, SetNotifiedTime, SetNotifiedStatus,
     SetLastUsedTime, ReaperScan, ReaperRead, ReaperCommit, ReaperWake, Close, Closed, Crash,
     Stopped, Open, Tick

\* An ID without a trace gets none, except by being handed out.
LEMMA UntracedNext ==
  ASSUME CommitFails = FALSE, TypeOK, [Next]_vars,
         NEW id \in NewIDs, id > sequence', Untraced(id)
  PROVE  Untraced(id)'
<1>1. CASE UNCHANGED vars
  BY <1>1 DEF Untraced, Stored, vars, buckets
<1>2. ASSUME NEW user \in Owners, NEW private \in BOOLEAN, Put(user, private)
      PROVE  Untraced(id)'
  <2>1. id # sequence + 1
    BY <1>2, SequenceAssumption DEF Put, TypeOK, NewIDs
  <2> QED  BY <1>2, <2>1 DEF Put, PutEntries, PutKey, Untraced, Stored
<1>3. ASSUME NEW i \in LegacyIDs, Restore(i)
      PROVE  Untraced(id)'
  BY <1>3, LegacyNotNew DEF Restore, PutEntries, PutKey, Untraced, Stored
<1>4. ASSUME NEW i \in IDs, PutFails(i) \/ View(i)
      PROVE  Untraced(id)'
  BY <1>4 DEF PutFails, View, Get, SpawnTouch, Untraced, Stored, TypeOK, buckets
<1>5. ASSUME NEW r \in Requests, NEW i \in IDs, NEW user \in Users, RequestDelete(r, i, user)
      PROVE  Untraced(id)'
  BY <1>5 DEF RequestDelete, Get, SpawnTouch, Untraced, Stored, TypeOK, buckets
<1>6. ASSUME NEW r \in Requests, NEW i \in IDs, NEW user \in Users, NEW status \in Statuses,
             ViewByOwner(r, i, user, status)
      PROVE  Untraced(id)'
  BY <1>6 DEF ViewByOwner, Get, SpawnTouch, Untraced, Stored, TypeOK, buckets
<1>7. ASSUME NEW r \in Requests, DeleteRead(r)
      PROVE  Untraced(id)'
  BY <1>7 DEF DeleteRead, Untraced, Stored, TypeOK, buckets, NoRequest
<1>8. ASSUME NEW r \in Requests, DeleteCommit(r)
      PROVE  Untraced(id)'
  BY <1>8 DEF DeleteCommit, Remove, DeleteKey, Untraced, Stored, TypeOK, buckets
<1>9. ASSUME NEW r \in Requests, SetNotifiedState(r)
      PROVE  Untraced(id)'
  BY <1>9 DEF SetNotifiedState, Untraced, Stored, TypeOK, buckets, NoRequest
<1>10. ASSUME NEW r \in Requests, SetNotifiedTime(r)
       PROVE  Untraced(id)'
  BY <1>10 DEF SetNotifiedTime, Untraced, Stored, TypeOK, NoRequest
<1>11. ASSUME NEW r \in Requests, SetNotifiedStatus(r)
       PROVE  Untraced(id)'
  BY <1>11 DEF SetNotifiedStatus, PutKey, Untraced, Stored, TypeOK, NoRequest
<1>12. ASSUME NEW t \in Touchers, SetLastUsedTime(t)
       PROVE  Untraced(id)'
  BY <1>12 DEF SetLastUsedTime, PutKey, Untraced, Stored, TypeOK
<1>13. CASE ReaperScan
  BY <1>13 DEF ReaperScan, Expired, Untraced, Stored, buckets
<1>14. CASE ReaperRead
  BY <1>14 DEF ReaperRead, Untraced, Stored, buckets
<1>15. CASE ReaperCommit
  BY <1>15 DEF ReaperCommit, Remove, DeleteKey, Untraced, Stored, buckets
<1>16. CASE ReaperWake
  BY <1>16 DEF ReaperWake, Untraced, Stored, buckets
<1>17. CASE Close \/ Open
  BY <1>17 DEF Close, Open, Untraced, Stored, buckets
<1>18. CASE Closed \/ Crash
  BY <1>18 DEF Closed, Crash, Stopped, Untraced, Stored, buckets
<1>19. CASE Tick
  BY <1>19 DEF Tick, Untraced, Stored
<1> QED
  BY <1>1, <1>2, <1>3, <1>4, <1>5, <1>6, <1>7, <1>8, <1>9, <1>10, <1>11, <1>12, <1>13, <1>14,
     <1>15, <1>16, <1>17, <1>18, <1>19 DEF Next, Client, Serve, Reap

LEMMA NoTraceNext ==
  ASSUME CommitFails = FALSE, TypeOK, NoTraceBeforeIssue, [Next]_vars
  PROVE  NoTraceBeforeIssue'
<1> SUFFICES ASSUME NEW id \in NewIDs, id > sequence'  PROVE Untraced(id)'
  BY DEF NoTraceBeforeIssue, NewIDs
<1>1. id > sequence
  BY SequenceGrows, SequenceAssumption DEF TypeOK, NewIDs
<1> QED  BY <1>1, UntracedNext DEF NoTraceBeforeIssue

\* What UserOf reads may be carried to the next transaction.
LEMMA UserOfCarries ==
  ASSUME CarriedUser, NEW id
  PROVE  Carries(id, UserOf(id))
BY DEF CarriedUser, Carries, UserOf

\* Carries after the step, for an ID and a user read before it.
StillCarries(id, user) ==
  /\ id \in Stored' => appraisals'[id].user = user
  /\ id \in LegacyIDs => user = NoUser

\* Storing a fresh appraisal, or importing one, disturbs no carried user.
LEMMA PutCarries ==
  ASSUME NEW id, NEW user, NEW private, PutEntries(id, user, private),
         NEW i, NEW u, Carries(i, u), i # id \/ (id \in LegacyIDs /\ user = NoUser)
  PROVE  StillCarries(i, u)
BY DEF StillCarries, Carries, PutEntries, PutKey, Stored

\* Removing an appraisal disturbs none either.
LEMMA RemoveCarries ==
  ASSUME NEW id, NEW user, Remove(id, user), NEW i, NEW u, Carries(i, u)
  PROVE  StillCarries(i, u)
BY DEF StillCarries, Carries, Remove, DeleteKey, Stored

LEMMA CarriedNext ==
  ASSUME CommitFails = FALSE, TypeOK, NoTraceBeforeIssue, CarriedUser, [Next]_vars
  PROVE  CarriedUser'
<1>1. CASE UNCHANGED <<appraisals, req, reaper>>
  BY <1>1 DEF CarriedUser, Carries, Stored
<1>2. ASSUME NEW user \in Owners, NEW private \in BOOLEAN, Put(user, private)
      PROVE  CarriedUser'
  <2>1. sequence + 1 \in NewIDs /\ Untraced(sequence + 1) /\ sequence + 1 \notin LegacyIDs
    BY <1>2, FreshID, LegacyNotNew, SequenceAssumption DEF Put, TypeOK, NoTraceBeforeIssue
  <2>2. PutEntries(sequence + 1, user, private)
    BY <1>2 DEF Put
  <2>3. ASSUME NEW r \in Requests, req[r].op = "commit"
        PROVE  StillCarries(req[r].id, req[r].user)
    <3>1. req[r].id # sequence + 1
      BY <2>1, <2>3 DEF Untraced, NoRequest
    <3>2. Carries(req[r].id, req[r].user)
      BY <2>3 DEF CarriedUser
    <3> QED  BY <2>2, <3>1, <3>2 DEF StillCarries, Carries, PutEntries, PutKey, Stored
  <2>4. ASSUME reaper.pc = "commit"
        PROVE  StillCarries(reaper.id, reaper.user)
    <3>1. reaper.id # sequence + 1
      BY <2>1, <2>4 DEF Untraced
    <3>2. Carries(reaper.id, reaper.user)
      BY <2>4 DEF CarriedUser
    <3> QED  BY <2>2, <3>1, <3>2 DEF StillCarries, Carries, PutEntries, PutKey, Stored
  <2>5. \A id \in Stored' \cap LegacyIDs : appraisals'[id].user = NoUser
    BY <1>2, <2>1 DEF Put, PutEntries, PutKey, Stored, CarriedUser
  <2> QED  BY <1>2, <2>3, <2>4, <2>5 DEF Put, CarriedUser, Carries, StillCarries, Stored
<1>3. ASSUME NEW i \in LegacyIDs, Restore(i)
      PROVE  CarriedUser'
  <2>1. \A id \in Stored' \cap LegacyIDs : appraisals'[id].user = NoUser
    BY <1>3 DEF Restore, PutEntries, PutKey, Stored, CarriedUser
  <2>2. \A r \in Requests : req[r].op = "commit" => StillCarries(req[r].id, req[r].user)
    BY <1>3, PutCarries DEF Restore, CarriedUser
  <2>3. reaper.pc = "commit" => StillCarries(reaper.id, reaper.user)
    BY <1>3, PutCarries DEF Restore, CarriedUser
  <2> QED  BY <1>3, <2>1, <2>2, <2>3 DEF Restore, CarriedUser, Carries, StillCarries, Stored
<1>4. ASSUME NEW r \in Requests, NEW i \in IDs, NEW user \in Users, RequestDelete(r, i, user)
      PROVE  CarriedUser'
  BY <1>4 DEF RequestDelete, CarriedUser, Carries, Stored, TypeOK, buckets
<1>5. ASSUME NEW r \in Requests, NEW i \in IDs, NEW user \in Users, NEW status \in Statuses,
             ViewByOwner(r, i, user, status)
      PROVE  CarriedUser'
  BY <1>5 DEF ViewByOwner, CarriedUser, Carries, Stored, TypeOK, buckets
<1>6. ASSUME NEW r \in Requests, DeleteRead(r)
      PROVE  CarriedUser'
  <2>1. Carries(req[r].id, UserOf(req[r].id))
    BY UserOfCarries
  <2> QED  BY <1>6, <2>1 DEF DeleteRead, CarriedUser, Carries, Stored, TypeOK, buckets
<1>7. ASSUME NEW r \in Requests, DeleteCommit(r)
      PROVE  CarriedUser'
  <2>1. Remove(req[r].id, req[r].user)
    BY <1>7 DEF DeleteCommit
  <2>2. \A q \in Requests : req'[q].op = "commit" => req'[q] = req[q]
    BY <1>7 DEF DeleteCommit, TypeOK, NoRequest
  <2>3. \A q \in Requests : req'[q].op = "commit" => StillCarries(req[q].id, req[q].user)
    BY <2>1, <2>2, RemoveCarries DEF CarriedUser
  <2>4. reaper.pc = "commit" => StillCarries(reaper.id, reaper.user)
    BY <1>7, <2>1, RemoveCarries DEF CarriedUser
  <2>5. \A id \in Stored' \cap LegacyIDs : appraisals'[id].user = NoUser
    BY <2>1 DEF Remove, DeleteKey, Stored, CarriedUser
  <2> QED  BY <1>7, <2>2, <2>3, <2>4, <2>5 DEF DeleteCommit, CarriedUser, Carries, StillCarries, Stored
<1>8. ASSUME NEW r \in Requests, SetNotifiedState(r) \/ SetNotifiedTime(r) \/ SetNotifiedStatus(r)
      PROVE  CarriedUser'
  <2>1. \A q \in Requests : req'[q].op = "commit" => req'[q] = req[q]
    BY <1>8 DEF SetNotifiedState, SetNotifiedTime, SetNotifiedStatus, TypeOK, NoRequest
  <2>2. UNCHANGED <<appraisals, reaper>>
    BY <1>8 DEF SetNotifiedState, SetNotifiedTime, SetNotifiedStatus, buckets
  <2> QED  BY <2>1, <2>2 DEF CarriedUser, Carries, Stored
<1>9. CASE ReaperScan \/ ReaperWake
  BY <1>9 DEF ReaperScan, ReaperWake, CarriedUser, Carries, Stored, buckets
<1>10. CASE ReaperRead
  <2>1. \A id : Carries(id, UserOf(id))
    BY UserOfCarries
  <2> QED  BY <1>10, <2>1 DEF ReaperRead, CarriedUser, Carries, Stored, buckets
<1>11. CASE ReaperCommit
  <2>1. Remove(reaper.id, reaper.user)
    BY <1>11 DEF ReaperCommit
  <2>2. \A q \in Requests : req[q].op = "commit" => StillCarries(req[q].id, req[q].user)
    BY <1>11, <2>1, RemoveCarries DEF ReaperCommit, CarriedUser
  <2>3. \A id \in Stored' \cap LegacyIDs : appraisals'[id].user = NoUser
    BY <2>1 DEF Remove, DeleteKey, Stored, CarriedUser
  <2> QED  BY <1>11, <2>2, <2>3 DEF ReaperCommit, CarriedUser, Carries, StillCarries, Stored
<1>12. CASE Closed \/ Crash \/ Open
  BY <1>12 DEF Closed, Crash, Stopped, Open, CarriedUser, Carries, Stored, buckets, NoRequest
<1>13. ASSUME NEW i \in IDs, PutFails(i) \/ View(i)
       PROVE  UNCHANGED <<appraisals, req, reaper>>
  BY <1>13 DEF PutFails, View, buckets
<1>14. ASSUME NEW t \in Touchers, SetLastUsedTime(t)
       PROVE  UNCHANGED <<appraisals, req, reaper>>
  BY <1>14 DEF SetLastUsedTime
<1>15. ASSUME Close \/ Tick \/ UNCHANGED vars
       PROVE  UNCHANGED <<appraisals, req, reaper>>
  BY <1>15 DEF Close, Tick, vars, buckets
<1> QED
  BY <1>1, <1>2, <1>3, <1>4, <1>5, <1>6, <1>7, <1>8, <1>9, <1>10, <1>11, <1>12, <1>13, <1>14, <1>15
     DEF Next, Client, Serve, Reap

-----------------------------------------------------------------------------
(* The steps that change the index or the appraisals keep them together.   *)

LEMMA PutIndex ==
  ASSUME TypeOK, IndexExact, NEW id \in IDs, NEW user \in Owners, NEW private \in BOOLEAN,
         PutEntries(id, user, private),
         id \notin Stored \/ appraisals[id].user = NoUser
  PROVE  IndexExact'
<1> SUFFICES ASSUME NEW u \in Users, NEW i \in IDs
             PROVE  <<u, i>> \in byUser' <=> i \in Stored' /\ appraisals'[i].user = u
  BY DEF IndexExact
<1>1. CASE i = id
  BY <1>1, UsersAssumption DEF IndexExact, PutEntries, PutKey, Stored, Owners
<1>2. CASE i # id
  BY <1>2 DEF IndexExact, PutEntries, PutKey, Stored
<1> QED  BY <1>1, <1>2

LEMMA RemoveIndex ==
  ASSUME TypeOK, IndexExact, NEW id, NEW user, Carries(id, user), Remove(id, user)
  PROVE  IndexExact'
<1> SUFFICES ASSUME NEW u \in Users, NEW i \in IDs
             PROVE  <<u, i>> \in byUser' <=> i \in Stored' /\ appraisals'[i].user = u
  BY DEF IndexExact
<1>1. CASE i = id
  <2>1. i \notin Stored'
    BY <1>1 DEF Remove, DeleteKey, Stored
  <2>2. <<u, i>> \in byUser => user = u
    BY <1>1 DEF IndexExact, Carries
  <2>3. <<u, i>> \notin byUser'
    BY <1>1, <2>2, UsersAssumption DEF Remove
  <2> QED  BY <2>1, <2>3
<1>2. CASE i # id
  BY <1>2 DEF IndexExact, Remove, DeleteKey, Stored
<1> QED  BY <1>1, <1>2

LEMMA IndexNext ==
  ASSUME CommitFails = FALSE, IndexInv, [Next]_vars
  PROVE  IndexExact'
<1> USE DEF IndexInv
<1>1. CASE UNCHANGED <<appraisals, byUser>>
  BY <1>1 DEF IndexExact, Stored
<1>2. ASSUME NEW user \in Owners, NEW private \in BOOLEAN, Put(user, private)
      PROVE  IndexExact'
  <2>1. sequence + 1 \in NewIDs /\ Untraced(sequence + 1)
    BY <1>2, FreshID, SequenceAssumption DEF Put, TypeOK, NoTraceBeforeIssue
  <2>2. sequence + 1 \in IDs /\ sequence + 1 \notin Stored
    BY <2>1 DEF Untraced, IDs
  <2> QED  BY <1>2, <2>2, PutIndex DEF Put
<1>3. ASSUME NEW id \in LegacyIDs, Restore(id)
      PROVE  IndexExact'
  BY <1>3, PutIndex DEF Restore, CarriedUser, IDs, Owners
<1>4. ASSUME NEW r \in Requests, DeleteCommit(r)
      PROVE  IndexExact'
  BY <1>4, RemoveIndex DEF DeleteCommit, CarriedUser
<1>5. CASE ReaperCommit
  BY <1>5, RemoveIndex DEF ReaperCommit, CarriedUser
<1>6. ASSUME NEW id \in IDs, PutFails(id) \/ View(id)
      PROVE  UNCHANGED <<appraisals, byUser>>
  BY <1>6 DEF PutFails, View, buckets
<1>7. ASSUME NEW r \in Requests, NEW id \in IDs, NEW user \in Users,
             RequestDelete(r, id, user) \/ \E status \in Statuses : ViewByOwner(r, id, user, status)
      PROVE  UNCHANGED <<appraisals, byUser>>
  BY <1>7 DEF RequestDelete, ViewByOwner, buckets
<1>8. ASSUME NEW r \in Requests,
             DeleteRead(r) \/ SetNotifiedState(r) \/ SetNotifiedTime(r) \/ SetNotifiedStatus(r)
      PROVE  UNCHANGED <<appraisals, byUser>>
  BY <1>8 DEF DeleteRead, SetNotifiedState, SetNotifiedTime, SetNotifiedStatus, buckets
<1>9. ASSUME NEW t \in Touchers, SetLastUsedTime(t)
      PROVE  UNCHANGED <<appraisals, byUser>>
  BY <1>9 DEF SetLastUsedTime
<1>10. ASSUME ReaperScan \/ ReaperRead \/ ReaperWake \/ Close \/ Closed \/ Crash \/ Open \/ Tick
              \/ UNCHANGED vars
       PROVE  UNCHANGED <<appraisals, byUser>>
  BY <1>10 DEF ReaperScan, ReaperRead, ReaperWake, Close, Closed, Crash, Stopped, Open, Tick, vars, buckets
<1> QED
  BY <1>1, <1>2, <1>3, <1>4, <1>5, <1>6, <1>7, <1>8, <1>9, <1>10 DEF Next, Client, Serve, Reap

LEMMA IndexInvNext ==
  ASSUME CommitFails = FALSE, IndexInv, [Next]_vars
  PROVE  IndexInv'
BY NextType, NoTraceNext, CarriedNext, IndexNext DEF IndexInv

\* As long as transactions commit, the index by user lists exactly the stored
\* appraisals that have a user, through every interleaving of requests,
\* removals and the reaper, and through crashes and restarts.
THEOREM IndexIsExact ==
  ASSUME CommitFails = FALSE
  PROVE  Spec => []IndexExact
<1>1. Init => IndexInv
  BY InitIndex
<1>2. IndexInv /\ [Next]_vars => IndexInv'
  BY IndexInvNext
<1>3. IndexInv => IndexExact
  BY DEF IndexInv
<1> QED  BY <1>1, <1>2, <1>3, PTL DEF Spec

\* As long as transactions commit, an ID leaves no trace before it is handed
\* out.
THEOREM FreshIsUntraced ==
  ASSUME CommitFails = FALSE
  PROVE  Spec => []NoTraceBeforeIssue
<1>1. Init => IndexInv
  BY InitIndex
<1>2. IndexInv /\ [Next]_vars => IndexInv'
  BY IndexInvNext
<1>3. IndexInv => NoTraceBeforeIssue
  BY DEF IndexInv
<1> QED  BY <1>1, <1>2, <1>3, PTL DEF Spec

-----------------------------------------------------------------------------
(***************************************************************************)
(* The buckets implement AppraisalStore: a Put is a Create, a Restore an   *)
(* Import, each second transaction of DeleteAppraisal a Delete, and every  *)
(* other step changes nothing a caller sees.                               *)
(***************************************************************************)

LEMMA PutCreates ==
  ASSUME IndexInv, NEW user \in Owners, NEW private \in BOOLEAN, Put(user, private)
  PROVE  Abstract!Create(sequence + 1, user, private)
<1>1. sequence + 1 \in IDs
  BY FreshID DEF Put, IndexInv, TypeOK, IDs
<1>2. sequence + 1 \notin SequenceStart + 1 .. sequence
  BY SequenceAssumption DEF IndexInv, TypeOK
<1>3. SequenceStart + 1 .. sequence' = (SequenceStart + 1 .. sequence) \cup {sequence + 1}
  BY SequenceAssumption DEF Put, IndexInv, TypeOK
<1>4. ASSUME NEW u \in Users
      PROVE  {id \in IDs : <<u, id>> \in byUser'}
               = {id \in IDs : <<u, id>> \in byUser} \cup IF u = user THEN {sequence + 1} ELSE {}
  BY <1>1, UsersAssumption DEF Put, PutEntries
<1>5. appraisals' = PutKey(appraisals, sequence + 1, [user |-> user, private |-> private])
  BY DEF Put, PutEntries
<1> QED  BY <1>2, <1>3, <1>4, <1>5 DEF Abstract!Create, PutKey

LEMMA RestoreImports ==
  ASSUME NEW id \in LegacyIDs, Restore(id)
  PROVE  Abstract!Import(id)
BY DEF Restore, PutEntries, PutKey, Abstract!Import

LEMMA RemoveDeletes ==
  ASSUME IndexInv, NEW id \in IDs, NEW user, Carries(id, user), Remove(id, user)
  PROVE  Abstract!Delete(id)
<1>1. ASSUME NEW u \in Users
      PROVE  {i \in IDs : <<u, i>> \in byUser'} = {i \in IDs : <<u, i>> \in byUser} \ {id}
  <2>1. <<u, id>> \in byUser => user = u
    BY DEF IndexInv, IndexExact, Carries
  <2> QED  BY <2>1, UsersAssumption DEF Remove
<1> QED  BY <1>1 DEF Remove, DeleteKey, Abstract!Delete

LEMMA RemoveIsNext ==
  ASSUME IndexInv, NEW id \in IDs, NEW user, Carries(id, user), Remove(id, user)
  PROVE  Abstract!Next
BY RemoveDeletes DEF Abstract!Next, IDs

LEMMA StepImplements ==
  ASSUME CommitFails = FALSE, IndexInv, [Next]_vars
  PROVE  [Abstract!Next]_(Abstract!vars)
<1> USE DEF Abstract!Next, Abstract!vars
<1>1. CASE UNCHANGED <<appraisals, byUser, sequence>>
  BY <1>1
<1>2. ASSUME NEW user \in Owners, NEW private \in BOOLEAN, Put(user, private)
      PROVE  Abstract!Next
  <2>1. sequence + 1 \in NewIDs
    BY <1>2, FreshID DEF Put, IndexInv, TypeOK
  <2> QED  BY <1>2, <2>1, PutCreates DEF Owners
<1>3. ASSUME NEW id \in LegacyIDs, Restore(id)
      PROVE  Abstract!Next
  BY <1>3, RestoreImports
<1>4. ASSUME NEW r \in Requests, DeleteCommit(r)
      PROVE  Abstract!Next
  <2>1. req[r].id \in IDs
    BY <1>4 DEF DeleteCommit, IndexInv, TypeOK, RequestStates, NoRequest
  <2>2. Remove(req[r].id, req[r].user) /\ Carries(req[r].id, req[r].user)
    BY <1>4 DEF DeleteCommit, IndexInv, CarriedUser
  <2> QED  BY <2>1, <2>2, RemoveIsNext
<1>5. ASSUME ReaperCommit
      PROVE  Abstract!Next
  <2>1. reaper.id \in IDs
    BY <1>5 DEF ReaperCommit, IndexInv, TypeOK, ReaperStates
  <2>2. Remove(reaper.id, reaper.user) /\ Carries(reaper.id, reaper.user)
    BY <1>5 DEF ReaperCommit, IndexInv, CarriedUser
  <2> QED  BY <2>1, <2>2, RemoveIsNext
<1>6. ASSUME NEW id \in IDs, PutFails(id) \/ View(id)
      PROVE  UNCHANGED <<appraisals, byUser, sequence>>
  BY <1>6 DEF PutFails, View, buckets
<1>7. ASSUME NEW r \in Requests, NEW id \in IDs, NEW user \in Users,
             RequestDelete(r, id, user) \/ \E status \in Statuses : ViewByOwner(r, id, user, status)
      PROVE  UNCHANGED <<appraisals, byUser, sequence>>
  BY <1>7 DEF RequestDelete, ViewByOwner, buckets
<1>8. ASSUME NEW r \in Requests,
             DeleteRead(r) \/ SetNotifiedState(r) \/ SetNotifiedTime(r) \/ SetNotifiedStatus(r)
      PROVE  UNCHANGED <<appraisals, byUser, sequence>>
  BY <1>8 DEF DeleteRead, SetNotifiedState, SetNotifiedTime, SetNotifiedStatus, buckets
<1>9. ASSUME NEW t \in Touchers, SetLastUsedTime(t)
      PROVE  UNCHANGED <<appraisals, byUser, sequence>>
  BY <1>9 DEF SetLastUsedTime
<1>10. ASSUME ReaperScan \/ ReaperRead \/ ReaperWake \/ Close \/ Closed \/ Crash \/ Open \/ Tick
              \/ UNCHANGED vars
       PROVE  UNCHANGED <<appraisals, byUser, sequence>>
  BY <1>10 DEF ReaperScan, ReaperRead, ReaperWake, Close, Closed, Crash, Stopped, Open, Tick, vars, buckets
<1> QED
  BY <1>1, <1>2, <1>3, <1>4, <1>5, <1>6, <1>7, <1>8, <1>9, <1>10 DEF Next, Client, Serve, Reap

\* As long as transactions commit, the database with its goroutines, crashes
\* and restarts implements the atomic store.
THEOREM DatabaseImplementsStore ==
  ASSUME CommitFails = FALSE
  PROVE  Spec => ImplementsStore
<1>1. Init => Abstract!Init
  BY SequenceAssumption DEF Init, Abstract!Init
<1>2. Init => IndexInv
  BY InitIndex
<1>3. IndexInv /\ [Next]_vars => IndexInv'
  BY IndexInvNext
<1>4. IndexInv /\ [Next]_vars => [Abstract!Next]_(Abstract!vars)
  BY StepImplements
<1> QED  BY <1>1, <1>2, <1>3, <1>4, PTL DEF Spec, ImplementsStore, Abstract!Spec

-----------------------------------------------------------------------------
(* What is stored.  None of the following needs transactions to commit.    *)

\* The ways in which a step may change the bucket of appraisals: a new
\* appraisal under the next ID, an imported one, a removal by a request that
\* was checked, and one by the reaper.
PutNext     == \E user \in Owners, private \in BOOLEAN :
                 /\ PutEntries(sequence + 1, user, private)
                 /\ sequence < MaxSequence /\ sequence' = sequence + 1
PutLegacy   == \E id \in LegacyIDs : PutEntries(id, NoUser, FALSE) /\ sequence' = sequence
ByRequest   == \E r \in Requests : req[r].op = "commit" /\ Remove(req[r].id, req[r].user)
ByReaper    == reaper.pc = "commit" /\ Remove(reaper.id, reaper.user)
LeavesStore == UNCHANGED <<appraisals, sequence>>

LEMMA StoreStep ==
  ASSUME [Next]_vars
  PROVE  PutNext \/ PutLegacy \/ ByRequest \/ ByReaper \/ LeavesStore
<1>1. ASSUME NEW user \in Owners, NEW private \in BOOLEAN, Put(user, private)
      PROVE  PutNext
  BY <1>1 DEF Put, PutNext
<1>2. ASSUME NEW id \in LegacyIDs, Restore(id)
      PROVE  PutLegacy
  BY <1>2 DEF Restore, PutLegacy
<1>3. ASSUME NEW r \in Requests, DeleteCommit(r)
      PROVE  ByRequest \/ LeavesStore
  BY <1>3 DEF DeleteCommit, ByRequest, LeavesStore, buckets
<1>4. ASSUME ReaperCommit
      PROVE  ByReaper \/ LeavesStore
  BY <1>4 DEF ReaperCommit, ByReaper, LeavesStore, buckets
<1>5. ASSUME NEW id \in IDs, PutFails(id) \/ View(id)
      PROVE  LeavesStore
  BY <1>5 DEF PutFails, View, LeavesStore, buckets
<1>6. ASSUME NEW r \in Requests, NEW id \in IDs, NEW user \in Users,
             RequestDelete(r, id, user) \/ \E status \in Statuses : ViewByOwner(r, id, user, status)
      PROVE  LeavesStore
  BY <1>6 DEF RequestDelete, ViewByOwner, LeavesStore, buckets
<1>7. ASSUME NEW r \in Requests,
             DeleteRead(r) \/ SetNotifiedState(r) \/ SetNotifiedTime(r) \/ SetNotifiedStatus(r)
      PROVE  LeavesStore
  BY <1>7 DEF DeleteRead, SetNotifiedState, SetNotifiedTime, SetNotifiedStatus, LeavesStore, buckets
<1>8. ASSUME NEW t \in Touchers, SetLastUsedTime(t)
      PROVE  LeavesStore
  BY <1>8 DEF SetLastUsedTime, LeavesStore
<1>9. ASSUME ReaperScan \/ ReaperRead \/ ReaperWake \/ Close \/ Closed \/ Crash \/ Open \/ Tick
             \/ UNCHANGED vars
      PROVE  LeavesStore
  BY <1>9 DEF ReaperScan, ReaperRead, ReaperWake, Close, Closed, Crash, Stopped, Open, Tick,
              LeavesStore, vars, buckets
<1> QED
  BY <1>1, <1>2, <1>3, <1>4, <1>5, <1>6, <1>7, <1>8, <1>9 DEF Next, Client, Serve, Reap

\* What a Put, a Restore and a Remove leave of every appraisal.
LEMMA PutNextLeaves ==
  ASSUME PutNext
  PROVE  /\ sequence < MaxSequence /\ sequence' = sequence + 1
         /\ Stored' = Stored \cup {sequence + 1}
         /\ \A i \in Stored \ {sequence + 1} : appraisals'[i] = appraisals[i]
<1>1. PICK user \in Owners, private \in BOOLEAN : PutEntries(sequence + 1, user, private)
  BY DEF PutNext
<1>2. appraisals' = PutKey(appraisals, sequence + 1, [user |-> user, private |-> private])
  BY <1>1 DEF PutEntries
<1>3. sequence < MaxSequence /\ sequence' = sequence + 1
  BY DEF PutNext
<1> QED  BY <1>2, <1>3 DEF PutKey, Stored

LEMMA PutLegacyLeaves ==
  ASSUME PutLegacy
  PROVE  \E id \in LegacyIDs :
           /\ Stored' = Stored \cup {id} /\ sequence' = sequence
           /\ appraisals'[id] = [user |-> NoUser, private |-> FALSE]
           /\ \A i \in Stored \ {id} : appraisals'[i] = appraisals[i]
<1>1. PICK id \in LegacyIDs : PutEntries(id, NoUser, FALSE) /\ sequence' = sequence
  BY DEF PutLegacy
<1>2. appraisals' = PutKey(appraisals, id, [user |-> NoUser, private |-> FALSE])
  BY <1>1 DEF PutEntries
<1> QED  BY <1>1, <1>2 DEF PutKey, Stored

LEMMA RemoveLeaves ==
  ASSUME NEW id, NEW user, Remove(id, user)
  PROVE  /\ Stored' = Stored \ {id} /\ sequence' = sequence
         /\ \A i \in Stored \ {id} : appraisals'[i] = appraisals[i]
BY DEF Remove, DeleteKey, Stored

\* Nothing becomes stored but the next ID of the sequence and imported IDs.
LEMMA OnlyPutStores ==
  ASSUME [Next]_vars
  PROVE  Stored' \subseteq Stored \cup LegacyIDs \cup {sequence + 1}
<1>1. CASE PutNext
  BY <1>1, PutNextLeaves
<1>2. CASE PutLegacy
  BY <1>2, PutLegacyLeaves
<1>3. CASE ByRequest \/ ByReaper
  BY <1>3, RemoveLeaves DEF ByRequest, ByReaper
<1>4. CASE LeavesStore
  BY <1>4 DEF LeavesStore, Stored
<1> QED  BY <1>1, <1>2, <1>3, <1>4, StoreStep

\* A deleted appraisal never comes back, whether transactions commit or not:
\* no restart, no late goroutine and no reuse of its ID revives it.
THEOREM DeletedStaysDeleted == Spec => DeletedForGood
<1>1. Init => TypeOK
  BY InitType
<1>2. TypeOK /\ [Next]_vars => TypeOK'
  BY NextType
<1>3. TypeOK /\ [Next]_vars =>
        [\A id \in NewIDs : id <= sequence /\ id \notin Stored => id \notin Stored']_vars
  <2> SUFFICES ASSUME TypeOK, [Next]_vars, NEW id \in NewIDs, id <= sequence, id \notin Stored
               PROVE  id \notin Stored'
    OBVIOUS
  <2>1. id \notin LegacyIDs /\ id # sequence + 1
    BY LegacyNotNew, SequenceAssumption DEF TypeOK, NewIDs
  <2> QED  BY <2>1, OnlyPutStores
<1> QED  BY <1>1, <1>2, <1>3, PTL DEF Spec, DeletedForGood

(* An ID that is stored was handed out or imported, an imported appraisal  *)
(* is always the same, and a request that deletes is the owner's.  The     *)
(* last two hold together only because a request is of an ID that was      *)
(* handed out: it cannot be given to somebody else meanwhile.              *)
Deleting(r) == req[r].op \in {"delete", "commit"}

StoredIssued  == \A id \in Stored \cap NewIDs : id <= sequence
LegacyUnowned == \A id \in Stored \cap LegacyIDs :
                   appraisals[id] = [user |-> NoUser, private |-> FALSE]
ByOwner       == \A r \in Requests : Deleting(r) =>
                   /\ req[r].id \in NewIDs /\ req[r].id <= sequence
                   /\ req[r].id \in Stored => appraisals[req[r].id].user = req[r].by

StoreInv == TypeOK /\ StoredIssued /\ LegacyUnowned /\ ByOwner

LEMMA InitStore == Init => StoreInv
BY InitType DEF Init, StoreInv, StoredIssued, LegacyUnowned, ByOwner, Deleting, Stored, NoRequest

\* The ID that Put is about to use belongs to nothing that is stored.
LEMMA NextUnused ==
  ASSUME StoreInv, sequence < MaxSequence
  PROVE  sequence + 1 \in NewIDs /\ sequence + 1 \notin Stored \cup LegacyIDs
<1>1. sequence + 1 \in NewIDs /\ sequence \in Nat
  BY FreshID, SequenceAssumption DEF StoreInv, TypeOK
<1>2. sequence + 1 \notin Stored
  BY <1>1 DEF StoreInv, StoredIssued
<1> QED  BY <1>1, <1>2, LegacyNotNew

\* What a step does to an appraisal that stays stored: nothing.
LEMMA StoredKept ==
  ASSUME StoreInv, [Next]_vars, NEW id \in Stored, id \in Stored'
  PROVE  appraisals'[id] = appraisals[id]
<1>1. CASE PutNext
  BY <1>1, PutNextLeaves, NextUnused
<1>2. CASE PutLegacy
  BY <1>2, PutLegacyLeaves DEF StoreInv, LegacyUnowned
<1>3. CASE ByRequest \/ ByReaper
  BY <1>3, RemoveLeaves DEF ByRequest, ByReaper
<1>4. CASE LeavesStore
  BY <1>4 DEF LeavesStore
<1> QED  BY <1>1, <1>2, <1>3, <1>4, StoreStep

LEMMA StoreNext ==
  ASSUME StoreInv, [Next]_vars
  PROVE  StoredIssued' /\ LegacyUnowned'
<1>1. CASE PutNext
  <2>1. StoredIssued'
    BY <1>1, PutNextLeaves, NextUnused, SequenceAssumption
       DEF StoreInv, StoredIssued, NewIDs, TypeOK
  <2>2. LegacyUnowned'
    BY <1>1, PutNextLeaves, NextUnused DEF StoreInv, LegacyUnowned
  <2> QED  BY <2>1, <2>2
<1>2. CASE PutLegacy
  <2>1. StoredIssued'
    BY <1>2, PutLegacyLeaves, LegacyNotNew DEF StoreInv, StoredIssued
  <2>2. LegacyUnowned'
    BY <1>2, PutLegacyLeaves DEF StoreInv, LegacyUnowned
  <2> QED  BY <2>1, <2>2
<1>3. CASE ByRequest \/ ByReaper
  BY <1>3, RemoveLeaves DEF ByRequest, ByReaper, StoreInv, StoredIssued, LegacyUnowned
<1>4. CASE LeavesStore
  BY <1>4 DEF LeavesStore, StoreInv, StoredIssued, LegacyUnowned, Stored
<1> QED  BY <1>1, <1>2, <1>3, <1>4, StoreStep

\* A request that deletes after a step did so before, for the same ID and the
\* same user, or has just been found to be of the owner.
LEMMA DeletingStep ==
  ASSUME TypeOK, [Next]_vars, NEW r \in Requests, Deleting(r)'
  PROVE  \/ Deleting(r) /\ req'[r].id = req[r].id /\ req'[r].by = req[r].by
         \/ /\ LeavesStore /\ req'[r].id \in Stored /\ req'[r].by \in Users
            /\ appraisals[req'[r].id].user = req'[r].by
<1> USE DEF Deleting
<1>1. CASE req'[r] = req[r]
  BY <1>1
<1>2. ASSUME NEW q \in Requests, NEW id \in IDs, NEW user \in Users, RequestDelete(q, id, user)
      PROVE  req'[r] = req[r] \/ (/\ LeavesStore /\ req'[r].id \in Stored /\ req'[r].by \in Users
                                  /\ appraisals[req'[r].id].user = req'[r].by)
  BY <1>2 DEF RequestDelete, Get, LeavesStore, buckets, TypeOK
<1>3. ASSUME NEW q \in Requests, DeleteRead(q)
      PROVE  req[r] = req'[r] \/ (Deleting(r) /\ req'[r].id = req[r].id /\ req'[r].by = req[r].by)
  BY <1>3 DEF DeleteRead, TypeOK
<1>4. ASSUME NEW q \in Requests,
             DeleteCommit(q) \/ SetNotifiedState(q) \/ SetNotifiedTime(q) \/ SetNotifiedStatus(q)
      PROVE  req'[r] = req[r]
  BY <1>4 DEF DeleteCommit, SetNotifiedState, SetNotifiedTime, SetNotifiedStatus, TypeOK, NoRequest
<1>5. ASSUME NEW q \in Requests, NEW id \in IDs, NEW user \in Users, NEW status \in Statuses,
             ViewByOwner(q, id, user, status)
      PROVE  req'[r] = req[r]
  BY <1>5 DEF ViewByOwner, TypeOK
<1>6. ASSUME Closed \/ Crash
      PROVE  FALSE
  BY <1>6 DEF Closed, Crash, Stopped, NoRequest
<1>7. ASSUME NEW user \in Owners, NEW private \in BOOLEAN, Put(user, private)
      PROVE  req' = req
  BY <1>7 DEF Put
<1>8. ASSUME NEW id \in IDs, PutFails(id) \/ View(id)
      PROVE  req' = req
  BY <1>8 DEF PutFails, View
<1>9. ASSUME NEW id \in LegacyIDs, Restore(id)
      PROVE  req' = req
  BY <1>9 DEF Restore
<1>10. ASSUME NEW t \in Touchers, SetLastUsedTime(t)
       PROVE  req' = req
  BY <1>10 DEF SetLastUsedTime
<1>11. ASSUME ReaperScan \/ ReaperRead \/ ReaperCommit \/ ReaperWake \/ Close \/ Open \/ Tick
              \/ UNCHANGED vars
       PROVE  req' = req
  BY <1>11 DEF ReaperScan, ReaperRead, ReaperCommit, ReaperWake, Close, Open, Tick, vars
<1> QED
  BY <1>1, <1>2, <1>3, <1>4, <1>5, <1>6, <1>7, <1>8, <1>9, <1>10, <1>11 DEF Next, Client, Serve, Reap

LEMMA ByOwnerNext ==
  ASSUME StoreInv, [Next]_vars
  PROVE  ByOwner'
<1> SUFFICES ASSUME NEW r \in Requests, Deleting(r)'
             PROVE  /\ req'[r].id \in NewIDs /\ req'[r].id <= sequence'
                    /\ req'[r].id \in Stored' => appraisals'[req'[r].id].user = req'[r].by
  BY DEF ByOwner
<1>1. sequence' \in {sequence, sequence + 1} /\ sequence \in Nat
  BY SequenceGrows, SequenceAssumption DEF StoreInv, TypeOK
<1>2. CASE Deleting(r) /\ req'[r].id = req[r].id /\ req'[r].by = req[r].by
  <2> DEFINE id == req[r].id
  <2>1. id \in NewIDs /\ id <= sequence /\ (id \in Stored => appraisals[id].user = req[r].by)
    BY <1>2 DEF StoreInv, ByOwner
  <2>2. id \in Nat /\ id <= sequence'
    BY <1>1, <2>1, SequenceAssumption DEF NewIDs
  <2>3. id \notin Stored => id \notin Stored'
    BY <1>1, <2>1, LegacyNotNew, OnlyPutStores, SequenceAssumption DEF NewIDs
  <2>4. id \in Stored /\ id \in Stored' => appraisals'[id] = appraisals[id]
    BY StoredKept
  <2> QED  BY <1>2, <2>1, <2>2, <2>3, <2>4
<1>3. CASE /\ LeavesStore /\ req'[r].id \in Stored /\ req'[r].by \in Users
           /\ appraisals[req'[r].id].user = req'[r].by
  <2> DEFINE id == req'[r].id
  <2>1. id \in IDs
    BY <1>3 DEF StoreInv, TypeOK, Bucket, Stored
  <2>2. id \notin LegacyIDs
    BY <1>3, UsersAssumption DEF StoreInv, LegacyUnowned
  <2>3. id \in NewIDs /\ id <= sequence
    BY <1>3, <2>1, <2>2 DEF StoreInv, StoredIssued, IDs
  <2> QED  BY <1>3, <2>3 DEF LeavesStore, Stored
<1> QED  BY <1>2, <1>3, DeletingStep DEF StoreInv

LEMMA StoreInvNext ==
  ASSUME StoreInv, [Next]_vars
  PROVE  StoreInv'
BY NextType, StoreNext, ByOwnerNext DEF StoreInv

\* No step of any actor changes an appraisal that stays stored: an ID is
\* handed out once, and the sequence never meets the imported IDs.
THEOREM NothingOverwritten == Spec => NeverOverwritten
<1>1. Init => StoreInv
  BY InitStore
<1>2. StoreInv /\ [Next]_vars => StoreInv'
  BY StoreInvNext
<1>3. StoreInv /\ [Next]_vars =>
        [\A id \in Stored : id \in Stored' => appraisals'[id] = appraisals[id]]_vars
  BY StoredKept
<1> QED  BY <1>1, <1>2, <1>3, PTL DEF Spec, NeverOverwritten

\* Whatever happens between the check of the owner and the removal, only the
\* owner's request and the reaper make an appraisal go away.
THEOREM OnlyOwnerOrReaperRemoves == Spec => RemovedByOwnerOrReaper
<1> DEFINE Removal == \A id \in Stored : id \notin Stored' =>
                        \/ reaper.pc = "commit" /\ reaper.id = id
                        \/ \E r \in Requests : /\ req[r].op = "commit" /\ req[r].id = id
                                                /\ req[r].by = appraisals[id].user
<1>1. Init => StoreInv
  BY InitStore
<1>2. StoreInv /\ [Next]_vars => StoreInv'
  BY StoreInvNext
<1>3. StoreInv /\ [Next]_vars => [Removal]_vars
  <2> SUFFICES ASSUME StoreInv, [Next]_vars, NEW id \in Stored, id \notin Stored'
               PROVE  \/ reaper.pc = "commit" /\ reaper.id = id
                      \/ \E r \in Requests : /\ req[r].op = "commit" /\ req[r].id = id
                                              /\ req[r].by = appraisals[id].user
    OBVIOUS
  <2>1. CASE PutNext \/ PutLegacy
    BY <2>1, PutNextLeaves, PutLegacyLeaves
  <2>2. CASE ByRequest
    <3>1. PICK r \in Requests : req[r].op = "commit" /\ Remove(req[r].id, req[r].user)
      BY <2>2 DEF ByRequest
    <3>2. req[r].id = id
      BY <3>1, RemoveLeaves
    <3> QED  BY <3>1, <3>2 DEF StoreInv, ByOwner, Deleting
  <2>3. CASE ByReaper
    BY <2>3, RemoveLeaves DEF ByReaper
  <2>4. CASE LeavesStore
    BY <2>4 DEF LeavesStore, Stored
  <2> QED  BY <2>1, <2>2, <2>3, <2>4, StoreStep
<1> QED  BY <1>1, <1>2, <1>3, PTL DEF Spec, RemovedByOwnerOrReaper

-----------------------------------------------------------------------------
(***************************************************************************)
(* Notified states.  SetNotifiedState writes the time, and the status in a *)
(* later transaction; a removal between the two removes the time only.     *)
(* The status that is then written is of an appraisal that is not stored,  *)
(* and never will be, for requests and statuses are of issued IDs.         *)
(***************************************************************************)
Notifying(r) == req[r].op \in {"set", "time", "status"}

NotifyIssued == \A r \in Requests : Notifying(r) => req[r].id \in NewIDs /\ req[r].id <= sequence
StatusIssued == \A id \in DOMAIN notifiedStatus : id \in NewIDs /\ id <= sequence
TimeFirst    == \A r \in Requests : req[r].op = "status" /\ req[r].id \in Stored
                                      => req[r].id \in notifiedTime

NotifiedInv == StoreInv /\ NotifyIssued /\ StatusIssued /\ TimeFirst /\ NotifiedWhole

LEMMA InitNotified == Init => NotifiedInv
BY InitStore DEF Init, NotifiedInv, NotifyIssued, StatusIssued, TimeFirst, NotifiedWhole,
                 Notifying, Stored, NoRequest

\* What a step does to the times of the appraisals that stay, to the statuses,
\* to the requests that are about to write a status, and to all that notify.
TimeKept   == Stored' \cap notifiedTime \subseteq notifiedTime'
StatusSet  == \A id \in DOMAIN notifiedStatus' \ DOMAIN notifiedStatus :
                /\ \E r \in Requests : req[r].op = "status" /\ req[r].id = id
                /\ UNCHANGED <<appraisals, sequence, notifiedTime>>
StatusNext == \A r \in Requests : req'[r].op = "status" =>
                \/ req[r].op = "status" /\ req'[r].id = req[r].id
                \/ req'[r].id \in notifiedTime'
Notified   == \A r \in Requests : Notifying(r)' =>
                \/ Notifying(r) /\ req'[r].id = req[r].id
                \/ /\ LeavesStore /\ req'[r].id \in Stored
                   /\ appraisals[req'[r].id].user \in Users

NotifyStep == TimeKept /\ StatusSet /\ StatusNext /\ Notified

LEMMA StepNotifies ==
  ASSUME CommitFails = FALSE, TypeOK, [Next]_vars
  PROVE  NotifyStep
<1> USE DEF NotifyStep, TimeKept, StatusSet, StatusNext, Notified, Notifying
<1>1. ASSUME UNCHANGED <<notifiedTime, notifiedStatus, req>>
      PROVE  NotifyStep
  BY <1>1
<1>2. ASSUME NEW r \in Requests, NEW id \in IDs, NEW user \in Users, RequestDelete(r, id, user)
      PROVE  NotifyStep
  BY <1>2 DEF RequestDelete, TypeOK, buckets
<1>3. ASSUME NEW r \in Requests, NEW id \in IDs, NEW user \in Users, NEW status \in Statuses,
             ViewByOwner(r, id, user, status)
      PROVE  NotifyStep
  BY <1>3 DEF ViewByOwner, Get, LeavesStore, TypeOK, buckets
<1>4. ASSUME NEW r \in Requests, DeleteRead(r)
      PROVE  NotifyStep
  BY <1>4 DEF DeleteRead, TypeOK, buckets
<1>5. ASSUME NEW r \in Requests, SetNotifiedState(r)
      PROVE  NotifyStep
  BY <1>5 DEF SetNotifiedState, TypeOK, NoRequest, buckets
<1>6. ASSUME NEW r \in Requests, DeleteCommit(r)
      PROVE  NotifyStep
  BY <1>6 DEF DeleteCommit, Remove, DeleteKey, Stored, TypeOK, NoRequest
<1>7. ASSUME ReaperCommit
      PROVE  NotifyStep
  BY <1>7 DEF ReaperCommit, Remove, DeleteKey, Stored
<1>8. ASSUME NEW r \in Requests, SetNotifiedTime(r)
      PROVE  NotifyStep
  BY <1>8 DEF SetNotifiedTime, TypeOK
<1>9. ASSUME NEW r \in Requests, SetNotifiedStatus(r)
      PROVE  NotifyStep
  BY <1>9 DEF SetNotifiedStatus, PutKey, TypeOK, NoRequest
<1>10. ASSUME Closed \/ Crash
       PROVE  NotifyStep
  BY <1>10 DEF Closed, Crash, Stopped, NoRequest, buckets
<1>11. ASSUME NEW user \in Owners, NEW private \in BOOLEAN, Put(user, private)
       PROVE  UNCHANGED <<notifiedTime, notifiedStatus, req>>
  BY <1>11 DEF Put
<1>12. ASSUME NEW id \in LegacyIDs, Restore(id)
       PROVE  UNCHANGED <<notifiedTime, notifiedStatus, req>>
  BY <1>12 DEF Restore
<1>13. ASSUME NEW id \in IDs, PutFails(id) \/ View(id)
       PROVE  UNCHANGED <<notifiedTime, notifiedStatus, req>>
  BY <1>13 DEF PutFails, View, buckets
<1>14. ASSUME NEW t \in Touchers, SetLastUsedTime(t)
       PROVE  UNCHANGED <<notifiedTime, notifiedStatus, req>>
  BY <1>14 DEF SetLastUsedTime
<1>15. ASSUME ReaperScan \/ ReaperRead \/ ReaperWake \/ Close \/ Open \/ Tick \/ UNCHANGED vars
       PROVE  UNCHANGED <<notifiedTime, notifiedStatus, req>>
  BY <1>15 DEF ReaperScan, ReaperRead, ReaperWake, Close, Open, Tick, vars, buckets
<1> HIDE DEF NotifyStep
<1> QED
  BY <1>1, <1>2, <1>3, <1>4, <1>5, <1>6, <1>7, <1>8, <1>9, <1>10, <1>11, <1>12, <1>13, <1>14,
     <1>15 DEF Next, Client, Serve, Reap

\* An ID that was issued and is not stored does not become stored.
LEMMA IssuedStaysAway ==
  ASSUME TypeOK, [Next]_vars, NEW id \in NewIDs, id <= sequence, id \in Stored'
  PROVE  id \in Stored
<1>1. id \notin LegacyIDs /\ id # sequence + 1
  BY LegacyNotNew, SequenceAssumption DEF TypeOK, NewIDs
<1> QED  BY <1>1, OnlyPutStores

LEMMA NotifiedInvNext ==
  ASSUME CommitFails = FALSE, NotifiedInv, [Next]_vars
  PROVE  NotifiedInv'
<1>1. StoreInv' /\ TypeOK
  BY StoreInvNext DEF NotifiedInv, StoreInv
<1>2. ASSUME NEW id \in NewIDs, id <= sequence  PROVE id <= sequence'
  BY <1>1, <1>2, SequenceGrows, SequenceAssumption DEF TypeOK, NewIDs
<1>3. NotifyStep
  BY <1>1, StepNotifies
<1>4. NotifyIssued'
  <2> SUFFICES ASSUME NEW r \in Requests, Notifying(r)'
               PROVE  req'[r].id \in NewIDs /\ req'[r].id <= sequence'
    BY DEF NotifyIssued
  <2>1. CASE Notifying(r) /\ req'[r].id = req[r].id
    BY <1>2, <2>1 DEF NotifiedInv, NotifyIssued
  <2>2. CASE /\ LeavesStore /\ req'[r].id \in Stored
             /\ appraisals[req'[r].id].user \in Users
    <3>1. req'[r].id \in IDs
      BY <1>1, <2>2 DEF TypeOK, Bucket, Stored
    <3>2. req'[r].id \notin LegacyIDs
      BY <2>2, UsersAssumption DEF NotifiedInv, StoreInv, LegacyUnowned
    <3> QED  BY <1>2, <2>2, <3>1, <3>2 DEF NotifiedInv, StoreInv, StoredIssued, IDs
  <2> QED  BY <1>3, <2>1, <2>2 DEF NotifyStep, Notified
<1>5. StatusIssued'
  <2> SUFFICES ASSUME NEW id \in DOMAIN notifiedStatus'
               PROVE  id \in NewIDs /\ id <= sequence'
    BY DEF StatusIssued
  <2>1. id \in NewIDs /\ id <= sequence
    BY <1>3 DEF NotifyStep, StatusSet, NotifiedInv, StatusIssued, NotifyIssued, Notifying
  <2> QED  BY <1>2, <2>1
<1>6. TimeFirst'
  <2> SUFFICES ASSUME NEW r \in Requests, req'[r].op = "status", req'[r].id \in Stored'
               PROVE  req'[r].id \in notifiedTime'
    BY DEF TimeFirst
  <2>1. CASE req[r].op = "status" /\ req'[r].id = req[r].id
    <3>1. req[r].id \in NewIDs /\ req[r].id <= sequence
      BY <2>1 DEF NotifiedInv, NotifyIssued, Notifying
    <3>2. req[r].id \in Stored
      BY <1>1, <2>1, <3>1, IssuedStaysAway
    <3> QED  BY <1>3, <2>1, <3>2 DEF NotifiedInv, TimeFirst, NotifyStep, TimeKept
  <2> QED  BY <1>3, <2>1 DEF NotifyStep, StatusNext
<1>7. NotifiedWhole'
  <2> SUFFICES ASSUME NEW id \in Stored', id \in DOMAIN notifiedStatus'
               PROVE  id \in notifiedTime'
    BY DEF NotifiedWhole
  <2>1. CASE id \in DOMAIN notifiedStatus
    <3>1. id \in Stored
      BY <1>1, <2>1, IssuedStaysAway DEF NotifiedInv, StatusIssued
    <3> QED  BY <1>3, <2>1, <3>1 DEF NotifiedInv, NotifiedWhole, NotifyStep, TimeKept
  <2>2. CASE id \notin DOMAIN notifiedStatus
    <3>1. /\ \E r \in Requests : req[r].op = "status" /\ req[r].id = id
          /\ UNCHANGED <<appraisals, notifiedTime>>
      BY <1>3, <2>2 DEF NotifyStep, StatusSet
    <3> QED  BY <3>1 DEF NotifiedInv, TimeFirst, Stored
  <2> QED  BY <2>1, <2>2
<1> QED  BY <1>1, <1>4, <1>5, <1>6, <1>7 DEF NotifiedInv

\* As long as transactions commit, a stored appraisal never has a notified
\* status without its time, whatever removes, crashes or notifies meanwhile.
THEOREM StatusHasItsTime ==
  ASSUME CommitFails = FALSE
  PROVE  Spec => []NotifiedWhole
<1>1. Init => NotifiedInv
  BY InitNotified
<1>2. NotifiedInv /\ [Next]_vars => NotifiedInv'
  BY NotifiedInvNext
<1>3. NotifiedInv => NotifiedWhole
  BY DEF NotifiedInv
<1> QED  BY <1>1, <1>2, <1>3, PTL DEF Spec
=============================================================================
