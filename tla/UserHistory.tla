---------------------------- MODULE UserHistory ----------------------------
(***************************************************************************)
(* A user goes through the pages of the own history (/user/history), from  *)
(* the newest appraisal to the oldest, while appraisals are stored and     *)
(* removed.  A page is one View of LatestAppraisalsByUser                  *)
(* (bolt/appraisal_db.go), its link to the next page is made by            *)
(* HandleUserHistoryAppraisals (web/handle_user_history.go).               *)
(*                                                                         *)
(* The appraisals come and go as AppraisalStore says; AppraisalDB shows    *)
(* that the database implements it.  IDs are given out in order, and the   *)
(* keys of the index by user have the order of the IDs.                    *)
(***************************************************************************)
EXTENDS Naturals, FiniteSets

CONSTANTS
  Users,    \* characters that can be logged in
  NoUser,   \* the user of an appraisal made without logging in
  User,     \* the one who reads the history
  Kinds,    \* kinds of appraisals
  AnyKind,  \* the parameter "kind" is not there
  Limit,    \* appraisals on a page, 50 in the code
  MaxID     \* bound: the appraisals that are stored

ASSUME UserAssumption  == User \in Users /\ NoUser \notin Users
ASSUME KindAssumption  == AnyKind \notin Kinds
ASSUME LimitAssumption == Limit \in Nat \ {0} /\ MaxID \in Nat

VARIABLES
  store,    \* the stored appraisals: ID -> [user, private]
  history,  \* the index: user -> IDs
  issued,   \* the IDs given out so far
  kindOf,   \* the kind of each appraisal
  kind,     \* the kind that the walk began with, or "none"
  page,     \* the IDs on the page that the user looks at
  next,     \* the "before" of its link to the next page, or 0
  shown,    \* history: the IDs on earlier pages of this walk
  stayed    \* history: the IDs that were listed ever since the walk began

bucketVars == <<store, history, issued>>
walkVars   == <<kind, page, next, shown>>
vars       == <<bucketVars, kindOf, walkVars, stayed>>

IDs   == 1 .. MaxID
Store == INSTANCE AppraisalStore WITH LegacyIDs <- {}, NewIDs <- IDs

Init ==
  /\ Store!Init
  /\ kindOf \in [IDs -> Kinds]
  /\ kind = "none" /\ page = {} /\ next = 0
  /\ shown = {} /\ stayed = {}

-----------------------------------------------------------------------------
\* The appraisals of the store come in the order of their IDs, and go.
StoreMoves ==
  /\ \/ \E user \in Users \cup {NoUser} :
          Store!Create(Cardinality(issued) + 1, user, FALSE)
     \/ \E id \in DOMAIN store : Store!Delete(id)
  /\ issued' \subseteq IDs
  /\ stayed' = stayed \cap history'[User]
  /\ UNCHANGED <<kindOf, walkVars>>

Newest(S, n) == {id \in S : Cardinality({other \in S : other > id}) < n}

\* A variant that lists the appraisal it starts from, for a check of the
\* properties.
LatestAppraisalsByUserInclusive(user, reqCount, k, after) ==
  Newest({id \in history[user] : /\ after # 0 => id <= after
                                 /\ k # AnyKind => kindOf[id] = k}, reqCount)

\* The cursor goes to the key of the appraisal "after", whether or not it is
\* still there, or behind all keys of the user, and back from there.  (What it
\* counts in queriedCount stays 0: the second limit is never reached.)
LatestAppraisalsByUser(user, reqCount, k, after) ==
  Newest({id \in history[user] : /\ after # 0 => id < after
                                 /\ k # AnyKind => kindOf[id] = k}, reqCount)

Least(S) == CHOOSE id \in S : \A other \in S : id <= other

\* A variant whose link starts from the extra appraisal, for a check of the
\* properties.
NextOfExtra(found) == IF Cardinality(found) > Limit THEN Least(found) ELSE 0

\* The link to the next page, if there is one: before the last but one of what
\* was found, which is the last one of the page.  It does not keep the kind.
NextLink(found) ==
  IF Cardinality(found) > Limit THEN Least(Newest(found, Limit)) ELSE 0

\* HandleUserHistoryAppraisals: one appraisal more than fits is asked for, and
\* cut off.
Show(k, before) ==
  LET found == LatestAppraisalsByUser(User, Limit + 1, k, before) IN
    /\ page' = Newest(found, Limit)
    /\ next' = NextLink(found)
    /\ UNCHANGED <<bucketVars, kindOf>>

\* The user comes from elsewhere: a new walk.
Latest(k) ==
  /\ Show(k, 0)
  /\ kind' = k
  /\ shown' = {}
  /\ stayed' = history[User]

Earlier ==
  /\ next # 0
  /\ Show(AnyKind, next)
  /\ shown' = shown \cup page
  /\ UNCHANGED <<kind, stayed>>

Next ==
  \/ StoreMoves
  \/ \E k \in Kinds \cup {AnyKind} : Latest(k)
  \/ Earlier

Spec == Init /\ [][Next]_vars

-----------------------------------------------------------------------------
(* Properties.                                                               *)

\* However appraisals come and go between two pages, also the one that the
\* link names, a page shows only appraisals older than all that were shown
\* before: none twice, none out of order (the cursor of LatestAppraisalsByUser,
\* the link of HandleUserHistoryAppraisals).
PagesDescend == \A id \in page, other \in shown : id < other

\* A walk through all kinds that is at a page without a link to the next one
\* has shown every appraisal of the user that was there all the time: none is
\* skipped where two pages meet.
WalkComplete == kind = AnyKind /\ next = 0 => stayed \subseteq shown \cup page
=============================================================================
