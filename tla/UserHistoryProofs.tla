-------------------------- MODULE UserHistoryProofs --------------------------
(***************************************************************************)
(* Theorems about UserHistory, for any users, page size and history: the   *)
(* pages of a walk descend, and a walk that has come to its end has shown  *)
(* every appraisal that was there all the time.                            *)
(***************************************************************************)
EXTENDS UserHistory, FiniteSetTheorems, WellFoundedInduction, TLAPS

\* The link is to the last appraisal of its page, the oldest one shown so far.
LinkOK ==
  next # 0 => next \in page /\ \A id \in page \cup shown : next <= id

\* What is still to be shown of a walk through all kinds is behind the link.
Behind ==
  kind = AnyKind =>
    \A id \in stayed : id \in shown \cup page \/ (next # 0 /\ id < next)

TypeOK ==
  /\ history \in [Users -> SUBSET IDs]
  /\ page \subseteq IDs /\ shown \subseteq IDs
  /\ stayed \subseteq history[User]
  /\ next \in {0} \cup IDs

Inv == TypeOK /\ PagesDescend /\ LinkOK /\ Behind

-----------------------------------------------------------------------------
(* Finite sets of IDs.                                                       *)

LEMMA IDsFinite == IsFiniteSet(IDs) /\ IDs \subseteq Nat
BY FS_Interval, LimitAssumption DEF IDs

LEMMA SubsetsFinite ==
  ASSUME NEW S \in SUBSET IDs
  PROVE  IsFiniteSet(S) /\ Cardinality(S) \in Nat
BY IDsFinite, FS_Subset, FS_CardinalityType

LEMMA InNat ==
  ASSUME NEW S \in SUBSET IDs
  PROVE  \A x \in S : x \in Nat /\ x <= MaxID
<1>1. \A x \in IDs : x \in Nat /\ x <= MaxID
  BY LimitAssumption DEF IDs
<1> QED
  BY <1>1

LEMMA MinExists ==
  ASSUME NEW S \in SUBSET Nat, S # {}
  PROVE  \E m \in S : \A x \in S : m <= x
<1>1. PICK m \in S : \A x \in S : ~ (<<x, m>> \in OpToRel(<, Nat))
  BY NatLessThanWellFounded, WFMin
<1>2. \A x \in S : ~(x < m)
  BY <1>1 DEF OpToRel
<1> QED
  BY <1>2

LEMMA MaxExists ==
  ASSUME NEW S \in SUBSET IDs, S # {}
  PROVE  \E m \in S : \A x \in S : x <= m
<1> DEFINE T == {MaxID - x : x \in S}
<1>1. T \subseteq Nat /\ T # {}
  <2>1. \A x \in S : MaxID - x \in Nat
    BY InNat, LimitAssumption
  <2>2. T \subseteq Nat
    BY <2>1
  <2> QED
    BY <2>2
<1>2. PICK t \in T : \A y \in T : t <= y
  <2> HIDE DEF T
  <2> QED
    BY <1>1, MinExists
<1>3. PICK m \in S : t = MaxID - m
  BY <1>2
<1>4. \A x \in S : MaxID - m <= MaxID - x
  BY <1>2, <1>3
<1>5. \A x \in S : x <= m
  BY <1>4, LimitAssumption DEF IDs
<1> QED
  BY <1>5

LEMMA LeastIs ==
  ASSUME NEW S \in SUBSET IDs, S # {}
  PROVE  Least(S) \in S /\ \A x \in S : Least(S) <= x
<1>1. \E m \in S : \A x \in S : m <= x
  BY MinExists, IDsFinite
<1> QED
  BY <1>1 DEF Least

-----------------------------------------------------------------------------
(* What a cursor that goes back from the newest finds.                       *)

Above(S, id) == {other \in S : other > id}

\* Newest takes from above: what is newer than something taken is taken.
LEMMA NewestUpward ==
  ASSUME NEW S \in SUBSET IDs, NEW n \in Nat, NEW p \in Newest(S, n), NEW id \in S, id >= p
  PROVE  id \in Newest(S, n)
<1>1. p \in Nat /\ id \in Nat /\ \A x \in S : x \in Nat
  BY InNat DEF Newest
<1>2. Above(S, id) \subseteq Above(S, p)
  <2>1. \A x \in S : x > id => x > p
    BY <1>1
  <2> QED
    BY <2>1 DEF Above
<1>3. IsFiniteSet(Above(S, p)) /\ Above(S, p) \in SUBSET IDs /\ Above(S, id) \in SUBSET IDs
  BY SubsetsFinite DEF Above
<1>4. Cardinality(Above(S, id)) <= Cardinality(Above(S, p))
  BY <1>2, <1>3, FS_Subset
<1>5. Cardinality(Above(S, p)) < n
  BY DEF Newest, Above
<1>6. Cardinality(Above(S, id)) \in Nat /\ Cardinality(Above(S, p)) \in Nat
  BY <1>3, SubsetsFinite
<1>7. Cardinality(Above(S, id)) < n
  BY <1>4, <1>5, <1>6
<1> QED
  BY <1>7 DEF Newest, Above

\* Something is taken when there is something.
LEMMA NewestNonempty ==
  ASSUME NEW S \in SUBSET IDs, NEW n \in Nat \ {0}, S # {}
  PROVE  Newest(S, n) # {}
<1>1. PICK m \in S : \A x \in S : x <= m
  BY MaxExists
<1>2. {other \in S : other > m} = {}
  <2>1. \A x \in S : x \in Nat
    BY InNat
  <2> QED
    BY <1>1, <2>1
<1>3. m \in Newest(S, n)
  BY <1>2, FS_EmptySet DEF Newest
<1> QED
  BY <1>3

\* All is taken when there is no more than asked for.
LEMMA NewestAll ==
  ASSUME NEW S \in SUBSET IDs, NEW n \in Nat, Cardinality(S) <= n
  PROVE  Newest(S, n) = S
<1> SUFFICES ASSUME NEW id \in S  PROVE id \in Newest(S, n)
  BY DEF Newest
<1>1. IsFiniteSet(S) /\ Cardinality(S) \in Nat /\ id \in Nat
  BY SubsetsFinite, IDsFinite
<1>2. IsFiniteSet(S \ {id}) /\ Cardinality(S \ {id}) = Cardinality(S) - 1
  BY <1>1, FS_RemoveElement
<1>3. Above(S, id) \in SUBSET (S \ {id})
  BY <1>1 DEF Above
<1>4. Cardinality(Above(S, id)) <= Cardinality(S \ {id})
  BY <1>2, <1>3, FS_Subset
<1>5. Cardinality(Above(S, id)) \in Nat
  BY SubsetsFinite DEF Above
<1>6. Cardinality(Above(S, id)) < n
  BY <1>1, <1>2, <1>4, <1>5
<1> QED
  BY <1>6 DEF Newest, Above

\* Less than asked for is found only when that is all.
LEMMA NewestShort ==
  ASSUME NEW S \in SUBSET IDs, NEW n \in Nat, Cardinality(Newest(S, n)) < n
  PROVE  Newest(S, n) = S
<1> SUFFICES ASSUME S \ Newest(S, n) # {}  PROVE FALSE
  BY DEF Newest
<1>1. Newest(S, n) \in SUBSET IDs /\ (S \ Newest(S, n)) \in SUBSET IDs
  BY DEF Newest
<1>2. PICK m \in S \ Newest(S, n) : \A x \in S \ Newest(S, n) : x <= m
  BY <1>1, MaxExists
<1>3. Above(S, m) \in SUBSET Newest(S, n)
  <2>1. \A x \in S : x \in Nat
    BY InNat
  <2> QED
    BY <1>2, <2>1 DEF Above
<1>4. Cardinality(Above(S, m)) <= Cardinality(Newest(S, n))
  BY <1>1, <1>3, SubsetsFinite, FS_Subset
<1>5. ~(Cardinality(Above(S, m)) < n)
  BY <1>2 DEF Newest, Above
<1>6. Cardinality(Above(S, m)) \in Nat /\ Cardinality(Newest(S, n)) \in Nat
  BY <1>1, <1>3, SubsetsFinite
<1> QED
  BY <1>4, <1>5, <1>6

-----------------------------------------------------------------------------
(* A page.                                                                   *)

Listed(k, before) ==
  {id \in history[User] : /\ before # 0 => id < before
                          /\ k # AnyKind => kindOf[id] = k}

\* What a page shows and where its link leads.
LEMMA ShowPage ==
  ASSUME TypeOK, NEW k, NEW before \in {0} \cup IDs, Show(k, before)
  PROVE  /\ page' \subseteq Listed(k, before)
         /\ Listed(k, before) \subseteq IDs
         /\ next' # 0 => next' \in page' /\ \A id \in page' : next' <= id
         /\ next' \in {0} \cup IDs
         /\ \A id \in Listed(k, before) : id \in page' \/ (next' # 0 /\ id < next')
<1> DEFINE all == Listed(k, before)
           found == Newest(all, Limit + 1)
<1>1. Limit \in Nat \ {0} /\ Limit + 1 \in Nat
  BY LimitAssumption
<1>2. all \in SUBSET IDs
  BY UserAssumption DEF TypeOK, Listed
<1>3. page' = Newest(found, Limit) /\ next' = NextLink(found)
  BY DEF Show, LatestAppraisalsByUser, Listed
<1> HIDE DEF all
<1>4. found \in SUBSET all /\ found \in SUBSET IDs
  BY <1>2 DEF Newest
<1>5. Cardinality(found) \in Nat
  BY <1>4, SubsetsFinite
<1>6. ASSUME NEW S  PROVE Newest(S, Limit) \subseteq S
  BY DEF Newest
<1>7. page' \subseteq found
  BY <1>3, <1>6
<1>8. CASE Cardinality(found) > Limit
  <2> HIDE DEF found
  <2>1. found # {}
    BY <1>1, <1>5, <1>8, FS_EmptySet
  <2>2. page' # {} /\ page' \in SUBSET IDs
    BY <1>1, <1>3, <1>4, <1>7, <2>1, NewestNonempty
  <2>3. next' = Least(page')
    BY <1>3, <1>8 DEF NextLink
  <2>4. next' \in page' /\ \A id \in page' : next' <= id
    BY <2>2, <2>3, LeastIs
  <2>5. next' \in IDs /\ next' # 0 /\ next' \in Nat
    BY <2>2, <2>4, LimitAssumption DEF IDs
  <2>6. ASSUME NEW id \in all  PROVE id \in page' \/ id < next'
    <3>1. id \in Nat
      BY <1>2, IDsFinite
    <3>2. CASE id >= next'
      <4>1. id \in found
        BY <1>1, <1>2, <1>7, <2>4, <3>2, NewestUpward DEF found
      <4>2. id \in page'
        BY <1>1, <1>3, <1>4, <2>4, <3>2, <4>1, NewestUpward
      <4> QED
        BY <4>2
    <3> QED
      BY <2>5, <3>1, <3>2
  <2> QED
    BY <1>2, <1>4, <1>7, <2>4, <2>5, <2>6 DEF all
<1>9. CASE ~(Cardinality(found) > Limit)
  <2>1. next' = 0
    BY <1>3, <1>9 DEF NextLink
  <2>2. Cardinality(found) < Limit + 1 /\ Cardinality(found) <= Limit
    BY <1>1, <1>5, <1>9
  <2>3. found = all
    BY <1>1, <1>2, <2>2, NewestShort
  <2>4. page' = found
    <3> HIDE DEF found
    <3> QED
      BY <1>1, <1>3, <1>4, <2>2, NewestAll
  <2> QED
    BY <1>2, <2>1, <2>3, <2>4 DEF all
<1> QED
  BY <1>8, <1>9

-----------------------------------------------------------------------------
(* The invariant.                                                            *)

LEMMA InitInv == Init => Inv
<1> SUFFICES ASSUME Init  PROVE Inv
  OBVIOUS
<1>1. history = [u \in Users |-> {}]
  BY DEF Init, Store!Init
<1> QED
  BY <1>1, UserAssumption DEF Init, Inv, TypeOK, PagesDescend, LinkOK, Behind

LEMMA StoreMovesInv == Inv /\ StoreMoves => Inv'
<1> SUFFICES ASSUME Inv, StoreMoves  PROVE Inv'
  OBVIOUS
<1>1. history' \in [Users -> SUBSET IDs]
  <2>1. ASSUME NEW user, Store!Create(Cardinality(issued) + 1, user, FALSE)
        PROVE  history' \in [Users -> SUBSET IDs]
    <3>1. Cardinality(issued) + 1 \in IDs
      BY <2>1 DEF StoreMoves, Store!Create
    <3> QED
      BY <2>1, <3>1 DEF Store!Create, Inv, TypeOK
  <2>2. ASSUME NEW id, Store!Delete(id)
        PROVE  history' \in [Users -> SUBSET IDs]
    BY <2>2 DEF Store!Delete, Inv, TypeOK
  <2> QED
    BY <2>1, <2>2 DEF StoreMoves
<1>2. UNCHANGED <<kind, page, next, shown>> /\ stayed' = stayed \cap history'[User]
  BY DEF StoreMoves, walkVars
<1> QED
  BY <1>1, <1>2 DEF Inv, TypeOK, PagesDescend, LinkOK, Behind

LEMMA LatestInv ==
  ASSUME Inv, NEW k \in Kinds \cup {AnyKind}, Latest(k)
  PROVE  Inv'
<1>1. Show(k, 0) /\ kind' = k /\ shown' = {} /\ stayed' = history[User]
  BY DEF Latest
<1>2. history' = history
  BY <1>1 DEF Show, bucketVars
<1>3. 0 \in {0} \cup IDs
  OBVIOUS
<1>4. /\ page' \subseteq Listed(k, 0)
      /\ Listed(k, 0) \subseteq IDs
      /\ next' # 0 => next' \in page' /\ \A id \in page' : next' <= id
      /\ next' \in {0} \cup IDs
      /\ \A id \in Listed(k, 0) : id \in page' \/ (next' # 0 /\ id < next')
  BY <1>1, <1>3, ShowPage DEF Inv
<1>5. k = AnyKind => Listed(k, 0) = history[User]
  BY DEF Listed
<1> QED
  BY <1>1, <1>2, <1>4, <1>5 DEF Inv, TypeOK, PagesDescend, LinkOK, Behind

LEMMA EarlierInv == Inv /\ Earlier => Inv'
<1> SUFFICES ASSUME Inv, Earlier  PROVE Inv'
  OBVIOUS
<1>1. /\ next # 0 /\ Show(AnyKind, next) /\ shown' = shown \cup page
      /\ kind' = kind /\ stayed' = stayed
  BY DEF Earlier
<1>2. history' = history
  BY <1>1 DEF Show, bucketVars
<1>3. next \in {0} \cup IDs
  BY DEF Inv, TypeOK
<1>4. /\ page' \subseteq Listed(AnyKind, next)
      /\ Listed(AnyKind, next) \subseteq IDs
      /\ next' # 0 => next' \in page' /\ \A id \in page' : next' <= id
      /\ next' \in {0} \cup IDs
      /\ \A id \in Listed(AnyKind, next) : id \in page' \/ (next' # 0 /\ id < next')
  BY <1>1, <1>3, ShowPage DEF Inv
<1>5. TypeOK'
  BY <1>1, <1>2, <1>4 DEF Inv, TypeOK
<1>6. PagesDescend'
  <2>1. \A id \in page', other \in page \cup shown : id < next /\ next <= other
    BY <1>1, <1>4 DEF Inv, LinkOK, Listed
  <2>2. /\ \A id \in page' : id \in Nat
        /\ \A other \in page \cup shown : other \in Nat
        /\ next \in Nat
    <3>1. page' \in SUBSET IDs /\ page \cup shown \in SUBSET IDs /\ {next} \in SUBSET IDs
      BY <1>1, <1>3, <1>4 DEF Inv, TypeOK
    <3>2. (\A id \in page' : id \in Nat) /\ (\A other \in page \cup shown : other \in Nat)
      BY <3>1, InNat
    <3> QED
      BY <3>1, <3>2, InNat
  <2> QED
    BY <1>1, <2>1, <2>2 DEF PagesDescend
<1>7. LinkOK'
  <2>1. next' # 0 => \A id \in shown' : next' <= id
    <3>1. next' # 0 => \A id \in shown' : next' < id
      BY <1>4, <1>6 DEF PagesDescend
    <3> QED
      BY <1>5, <3>1, IDsFinite DEF TypeOK
  <2> QED
    BY <1>4, <2>1 DEF LinkOK
<1>8. Behind'
  <2> SUFFICES ASSUME kind = AnyKind, NEW id \in stayed
               PROVE  id \in shown' \cup page' \/ (next' # 0 /\ id < next')
    BY <1>1 DEF Behind
  <2>1. CASE id \in shown \cup page
    BY <1>1, <2>1
  <2>2. CASE id < next
    <3>1. id \in Listed(AnyKind, next)
      BY <2>2 DEF Listed, Inv, TypeOK
    <3> QED
      BY <1>4, <3>1
  <2> QED
    BY <2>1, <2>2 DEF Inv, Behind
<1> QED
  BY <1>5, <1>6, <1>7, <1>8 DEF Inv

LEMMA InvNext == Inv /\ [Next]_vars => Inv'
<1> SUFFICES ASSUME Inv, [Next]_vars  PROVE Inv'
  OBVIOUS
<1>1. CASE UNCHANGED vars
  BY <1>1 DEF vars, bucketVars, walkVars, Inv, TypeOK, PagesDescend, LinkOK, Behind
<1>2. CASE Next
  BY <1>2, StoreMovesInv, LatestInv, EarlierInv DEF Next
<1> QED
  BY <1>1, <1>2

LEMMA Invariance == Spec => []Inv
BY InitInv, InvNext, PTL DEF Spec

-----------------------------------------------------------------------------
(* Theorems.                                                                 *)

\* However appraisals come and go between two pages, a page shows only appraisals
\* older than all that were shown before it.
THEOREM Descends == Spec => []PagesDescend
<1>1. Inv => PagesDescend
  BY DEF Inv
<1> QED
  BY <1>1, Invariance, PTL

\* A walk through all kinds that has come to a page without a link has shown every
\* appraisal of the user that was there since the walk began.
THEOREM NoneSkipped == Spec => []WalkComplete
<1>1. Inv => WalkComplete
  BY DEF Inv, Behind, WalkComplete
<1> QED
  BY <1>1, Invariance, PTL
=============================================================================
