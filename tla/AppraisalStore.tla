--------------------------- MODULE AppraisalStore ---------------------------
(***************************************************************************)
(* What the interface evepraisal.AppraisalDB (evepraisal.go) promises the  *)
(* web handlers about stored appraisals: each is created once, under an ID *)
(* never used before, is listed in its user's history from then on, and    *)
(* goes from both at once.  There are no transactions, goroutines, crashes *)
(* or restarts here: nothing of that may show.                             *)
(***************************************************************************)
CONSTANTS
  Users,      \* characters that can be logged in
  NoUser,     \* the user of an appraisal made without logging in
  LegacyIDs,  \* IDs of imported appraisals, which nobody owns
  NewIDs      \* IDs of all others

VARIABLES
  store,      \* ID -> [user, private]
  history,    \* user -> the IDs that LatestAppraisalsByUser lists
  issued      \* the IDs given out so far

vars == <<store, history, issued>>

Init ==
  /\ store = [id \in {} |-> NoUser]
  /\ history = [u \in Users |-> {}]
  /\ issued = {}

\* PutNewAppraisal without an ID.
Create(id, user, private) ==
  /\ id \notin issued
  /\ issued' = issued \cup {id}
  /\ store' = [i \in DOMAIN store \cup {id} |->
                 IF i = id THEN [user |-> user, private |-> private] ELSE store[i]]
  /\ history' = [u \in Users |-> history[u] \cup IF u = user THEN {id} ELSE {}]

\* PutNewAppraisal with an ID, by the restore command.
Import(id) ==
  /\ store' = [i \in DOMAIN store \cup {id} |->
                 IF i = id THEN [user |-> NoUser, private |-> FALSE] ELSE store[i]]
  /\ UNCHANGED <<history, issued>>

\* DeleteAppraisal, by the owner or the reaper.
Delete(id) ==
  /\ store' = [i \in DOMAIN store \ {id} |-> store[i]]
  /\ history' = [u \in Users |-> history[u] \ {id}]
  /\ UNCHANGED issued

Next ==
  \/ \E id \in NewIDs, user \in Users \cup {NoUser}, private \in BOOLEAN :
       Create(id, user, private)
  \/ \E id \in LegacyIDs : Import(id)
  \/ \E id \in LegacyIDs \cup NewIDs : Delete(id)

Spec == Init /\ [][Next]_vars
=============================================================================
