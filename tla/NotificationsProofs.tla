------------------------- MODULE NotificationsProofs -------------------------
(***************************************************************************)
(* Theorems about Notifications, for any views, flaws and bounds: what is  *)
(* stored was answered by Discord, where a webhook is configured, and a    *)
(* verdict that is wrong has one of the reasons that VerdictExplained      *)
(* names.                                                                  *)
(*                                                                         *)
(* Neither property is inductive.  What they rest on is what a view knows  *)
(* at each point of its way through the checks (ViewOK), and why a         *)
(* location may be missing in its map (KnownOK), or lost in that of        *)
(* sovereignty (SovOK).                                                    *)
(***************************************************************************)
EXTENDS Notifications, TLAPS

Points   == {"idle", "lookup", "store", "structure", "sov", "fill", "find", "items",
             "compare", "post", "set"}
Maps     == {"empty", "partly", "ours", "lost"}
Statuses == {"not_found", "outstanding", "finished", "deleted"}
Verdicts == Statuses \cup {"none", "error", "valid", "invalid"}
ViewSet  == [at : Points, key : Keys \cup {"none"}, got : BOOLEAN, verdict : Verdicts,
             saw : Maps \cup {"none"}]

TypeOK ==
  /\ webhook \in Webhooks
  /\ flaw \in Flaws
  /\ place \in {"station", "structure"}
  /\ status \in Statuses
  /\ sov \in {"ours", "lost"}
  /\ views \in [Views -> ViewSet]
  /\ known \in [Keys -> {"unknown", "found", "missing"}]
  /\ sovMap \in Maps
  /\ faults \in Nat

\* A station or a region is missing in its map only after a fetch that failed.
KnownOK == \A key \in {"station", "region"} : known[key] = "missing" => faults > 0

\* An entry that says so is of a system that is lost, and will not come back.
SovOK == sovMap = "lost" => sov = "lost"

\* The part of the checks that a view has behind it at each point.
Checking(v) ==
  At(v, "lookup") \/ At(v, "store") \/ At(v, "structure")
  \/ At(v, "sov") \/ At(v, "fill") \/ At(v, "find") \/ At(v, "items")
Judged(v) == At(v, "compare") \/ At(v, "post") \/ At(v, "set")

ViewOK(v) ==
  /\ Checking(v) => flaw # "terms" /\ views[v].verdict \in {"valid", "finished", "deleted"}
  /\ At(v, "lookup") \/ At(v, "store") => Key(v) \in {place, "region"}
  /\ At(v, "store") /\ ~views[v].got => Key(v) = "structure" \/ faults > 0
  /\ At(v, "structure") => place = "structure" \/ faults > 0
  /\ At(v, "sov") \/ At(v, "fill") \/ At(v, "find") \/ At(v, "items") => flaw # "place"
  /\ At(v, "fill") /\ ~views[v].got => sov = "lost"
  /\ At(v, "find") => sovMap # "empty" \/ faults > 0
  /\ At(v, "items") /\ views[v].verdict = "valid" => views[v].saw = "ours"
  /\ Judged(v) =>
       /\ views[v].verdict = "valid" => Right /\ views[v].saw = "ours"
       /\ views[v].verdict = "invalid" =>
            \/ ~Right \/ faults > 0
            \/ views[v].saw = "lost" /\ sov = "lost"
            \/ views[v].saw = "partly"

\* The message of the verdict that a view is about to store was answered.
PostedOK(v) ==
  webhook /\ At(v, "set") /\ views[v].verdict \in Announced => views[v].got

Inv == /\ TypeOK /\ KnownOK /\ SovOK /\ StoredIsPosted
       /\ \A v \in Views : ViewOK(v) /\ PostedOK(v)

-----------------------------------------------------------------------------
(* One view moves, the others stay.                                          *)

\* What any step of a view leaves for the others: the contract, the faults and a
\* map that has entries.
Calm ==
  /\ UNCHANGED outside
  /\ faults' \in Nat /\ faults <= faults'
  /\ sovMap' \in Maps
  /\ sovMap # "empty" => sovMap' # "empty"
  /\ SovOK'

\* It moves alone.
Moves(v) ==
  /\ views' \in [Views -> ViewSet]
  /\ \A w \in Views \ {v} : views'[w] = views[w]

\* The maps of locations and the stored state are in order.
Kept ==
  /\ known' \in [Keys -> {"unknown", "found", "missing"}]
  /\ KnownOK'
  /\ StoredIsPosted'

\* They are, when they stay as they are.
LEMMA KeptUnchanged ==
  ASSUME Inv, Calm, known' = known, UNCHANGED <<notified, answered>>
  PROVE  Kept
<1>1. KnownOK'
  BY DEF Inv, TypeOK, KnownOK, Calm
<1>2. StoredIsPosted'
  BY DEF Inv, StoredIsPosted, Announced, Calm, outside
<1> QED
  BY <1>1, <1>2 DEF Inv, TypeOK, Kept

\* What the other views have behind them stays true.
LEMMA OtherViews ==
  ASSUME Inv, NEW v \in Views, Calm, Moves(v), NEW w \in Views \ {v}
  PROVE  ViewOK(w)' /\ PostedOK(w)'
<1>1. views'[w] = views[w] /\ UNCHANGED <<webhook, flaw, place, sov>>
  BY DEF Moves, Calm, outside
<1>2. ViewOK(w) /\ PostedOK(w) /\ faults \in Nat
  BY DEF Inv, TypeOK
<1>3. ViewOK(w)'
  BY <1>1, <1>2 DEF ViewOK, Checking, Judged, At, Key, Right, Calm
<1>4. PostedOK(w)'
  BY <1>1, <1>2 DEF PostedOK, At, Announced, Calm
<1> QED
  BY <1>3, <1>4

\* So a step of a view keeps the invariant, if it does so for the view itself.
LEMMA ViewStep ==
  ASSUME Inv, NEW v \in Views, Calm, Kept, Moves(v), ViewOK(v)', PostedOK(v)'
  PROVE  Inv'
<1>1. TypeOK'
  BY DEF Inv, TypeOK, Calm, Kept, Moves, outside
<1>2. \A w \in Views : ViewOK(w)' /\ PostedOK(w)'
  BY OtherViews
<1> QED
  BY <1>1, <1>2 DEF Inv, Kept, Calm

\* A fetch that is not answered is counted.
LEMMA FaultCounts ==
  ASSUME TypeOK, Fault
  PROVE  faults' \in Nat /\ faults <= faults' /\ faults' > 0
BY DEF TypeOK, Fault

\* A step that changes neither the contract nor the map of sovereignty is calm, with
\* or without a fault.
LEMMA CalmStep ==
  ASSUME Inv, UNCHANGED <<outside, sovMap>>, Fault \/ UNCHANGED faults
  PROVE  Calm
<1>1. faults' \in Nat /\ faults <= faults'
  BY FaultCounts DEF Inv, TypeOK
<1> QED
  BY <1>1 DEF Calm, Inv, TypeOK, SovOK, outside

-----------------------------------------------------------------------------
(* The ways on for a view.                                                   *)

Done(v) == Moves(v) /\ ViewOK(v)' /\ PostedOK(v)'

\* A verdict that has its reason.
LEMMA JudgeDone ==
  ASSUME Inv, NEW v \in Views, Calm, NEW verdict \in Verdicts, Judge(v, verdict),
         verdict = "valid" => Right /\ views[v].saw = "ours",
         verdict = "invalid" => ~Right \/ faults' > 0
  PROVE  Done(v)
<1> DEFINE x == [views[v] EXCEPT !.at = "compare", !.key = "none", !.got = FALSE,
                                 !.verdict = verdict]
<1>1. views[v] \in ViewSet
  BY DEF Inv, TypeOK
<1>2. /\ x \in ViewSet /\ x.at = "compare" /\ x.verdict = verdict
      /\ x.saw = views[v].saw
  BY <1>1 DEF ViewSet, Points, Keys, Verdicts
<1>3. views' = [views EXCEPT ![v] = x]
  BY DEF Judge
<1> HIDE DEF x
<1>4. Moves(v) /\ views'[v] = x
  BY <1>2, <1>3 DEF Moves, Inv, TypeOK
<1>5. Right' = Right
  BY DEF Calm, outside, Right
<1> QED
  BY <1>2, <1>4, <1>5 DEF Done, ViewOK, PostedOK, Checking, Judged, At

\* Contracts that are not outstanding keep their status as the verdict.
LEMMA InvalidDone ==
  ASSUME Inv, NEW v \in Views, Calm, Checking(v), Invalid(v), ~Right \/ faults' > 0
  PROVE  Done(v)
<1>1. views[v].verdict \in {"valid", "finished", "deleted"}
  BY DEF Inv, ViewOK
<1> DEFINE verdict == IF views[v].verdict = "valid" THEN "invalid" ELSE views[v].verdict
<1>2. verdict \in Verdicts /\ verdict # "valid"
  BY <1>1 DEF Verdicts, Statuses
<1>3. Judge(v, verdict)
  BY DEF Invalid
<1> HIDE DEF verdict
<1> QED
  BY <1>2, <1>3, JudgeDone

\* The next point of the checks.
LEMMA GoOnDone ==
  ASSUME Inv, NEW v \in Views, Calm, Checking(v),
         NEW at \in {"lookup", "structure", "sov"}, NEW key \in Keys \cup {"none"},
         GoOn(v, at, key),
         at = "lookup" => key \in {place, "region"},
         at = "structure" => place = "structure" \/ faults' > 0,
         at = "sov" => flaw # "place"
  PROVE  Done(v)
<1>1. /\ views[v] \in ViewSet
      /\ flaw # "terms" /\ views[v].verdict \in {"valid", "finished", "deleted"}
      /\ flaw' = flaw /\ place' = place
  BY DEF Inv, TypeOK, ViewOK, Calm, outside
<1> DEFINE x == [views[v] EXCEPT !.at = at, !.key = key, !.got = FALSE]
<1>2. x \in ViewSet /\ x.at = at /\ x.key = key /\ x.verdict = views[v].verdict
  BY <1>1 DEF ViewSet, Points
<1>3. views' = [views EXCEPT ![v] = x]
  BY DEF GoOn
<1> HIDE DEF x
<1>4. Moves(v) /\ views'[v] = x
  BY <1>2, <1>3 DEF Moves, Inv, TypeOK
<1> QED
  BY <1>1, <1>2, <1>4 DEF Done, ViewOK, PostedOK, Checking, Judged, At, Key

LEMMA LocatedDone ==
  ASSUME Inv, NEW v \in Views, Calm, Checking(v), NEW key \in Keys, Located(v, key)
  PROVE  Done(v)
<1>1. CASE key = "station"
  BY <1>1, GoOnDone DEF Located, Keys
<1>2. CASE key # "station" /\ flaw = "place"
  <2>1. ~Right
    BY <1>2 DEF Right
  <2> QED
    BY <1>2, <2>1, InvalidDone DEF Located
<1>3. CASE key # "station" /\ flaw # "place"
  BY <1>3, GoOnDone DEF Located
<1> QED
  BY <1>1, <1>2, <1>3

\* A location is missing because it is a structure, or because a fetch failed.
LEMMA UnlocatedDone ==
  ASSUME Inv, NEW v \in Views, Calm, Checking(v), NEW key \in {place, "region"},
         key \in Keys, Unlocated(v, key), key = "structure" \/ faults' > 0
  PROVE  Done(v)
<1>1. CASE key \in {"station", "structure"}
  BY <1>1, GoOnDone DEF Unlocated
<1>2. CASE key \notin {"station", "structure"}
  BY <1>2, InvalidDone DEF Unlocated
<1> QED
  BY <1>1, <1>2

-----------------------------------------------------------------------------
(* The checks of a contract, one action each.                                *)

LEMMA FetchContractsInv ==
  ASSUME Inv, NEW v \in Views, FetchContracts(v)
  PROVE  Inv'
<1>1. Calm
  BY CalmStep DEF FetchContracts
<1>2. Kept
  BY <1>1, KeptUnchanged DEF FetchContracts
<1>3. CASE status # "not_found" /\ flaw # "terms"
  <2> DEFINE verdict == IF status = "outstanding" THEN "valid" ELSE status
             x == [views[v] EXCEPT !.at = "lookup", !.key = place, !.verdict = verdict]
  <2>1. verdict \in {"valid", "finished", "deleted"}
    BY <1>3 DEF Inv, TypeOK, Statuses
  <2>2. views[v] \in ViewSet /\ place \in Keys
    BY DEF Inv, TypeOK, Keys
  <2> HIDE DEF verdict
  <2>3. x \in ViewSet /\ x.at = "lookup" /\ x.key = place /\ x.verdict = verdict
    BY <2>1, <2>2 DEF ViewSet, Points, Verdicts, Statuses
  <2>4. views' = [views EXCEPT ![v] = x]
    BY <1>3 DEF FetchContracts, verdict
  <2> HIDE DEF x
  <2>5. Moves(v) /\ views'[v] = x
    BY <2>3, <2>4 DEF Moves, Inv, TypeOK
  <2>6. ViewOK(v)' /\ PostedOK(v)'
    BY <1>1, <1>3, <2>1, <2>3, <2>5
       DEF ViewOK, PostedOK, Checking, Judged, At, Key, Calm, outside
  <2> QED
    BY <1>1, <1>2, <2>5, <2>6, ViewStep
<1>4. CASE ~(status # "not_found" /\ flaw # "terms")
  <2> DEFINE verdict == IF status = "outstanding" THEN "invalid" ELSE status
  <2>1. /\ verdict \in Verdicts /\ verdict # "valid"
        /\ verdict = "invalid" => ~Right
    BY <1>4 DEF Inv, TypeOK, Verdicts, Statuses, Right
  <2>2. Judge(v, verdict)
    BY <1>4 DEF FetchContracts
  <2> HIDE DEF verdict
  <2>3. Done(v)
    BY <1>1, <2>1, <2>2, JudgeDone
  <2> QED
    BY <1>1, <1>2, <2>3, ViewStep DEF Done
<1> QED
  BY <1>3, <1>4

LEMMA ContractsFailInv ==
  ASSUME Inv, NEW v \in Views, ContractsFail(v)
  PROVE  Inv'
<1>1. Calm
  BY CalmStep DEF ContractsFail
<1>2. Kept
  BY <1>1, KeptUnchanged DEF ContractsFail
<1>3. Done(v)
  BY <1>1, JudgeDone DEF ContractsFail, Verdicts
<1> QED
  BY <1>1, <1>2, <1>3, ViewStep DEF Done

LEMMA LookupInv ==
  ASSUME Inv, NEW v \in Views, Lookup(v)
  PROVE  Inv'
<1>1. Calm
  BY CalmStep DEF Lookup
<1>2. Kept
  BY <1>1, KeptUnchanged DEF Lookup
<1> DEFINE key == Key(v)
<1>3. Checking(v) /\ key \in {place, "region"} /\ key \in Keys /\ faults' = faults
  BY DEF Lookup, Checking, Inv, TypeOK, ViewOK, Keys
<1>4. known[key] \in {"found", "missing"}
  BY <1>3 DEF Lookup, Inv, TypeOK
<1>5. Done(v)
  <2>1. CASE known[key] = "found"
    <3>1. Located(v, key)
      BY <2>1 DEF Lookup
    <3> QED
      BY <1>1, <1>3, <3>1, LocatedDone
  <2>2. CASE known[key] # "found"
    <3>1. Unlocated(v, key)
      BY <2>2 DEF Lookup
    <3>2. key = "structure" \/ faults' > 0
      BY <1>3, <1>4, <2>2 DEF Inv, KnownOK, Keys
    <3> HIDE DEF key
    <3> QED
      BY <1>1, <1>3, <3>1, <3>2, UnlocatedDone
  <2> QED
    BY <2>1, <2>2
<1> QED
  BY <1>1, <1>2, <1>5, ViewStep DEF Done

\* What a view fetched, it goes on to store: it is missing for a reason.
LEMMA FetchedDone ==
  ASSUME Inv, NEW v \in Views, Calm, At(v, "lookup"), NEW got \in BOOLEAN,
         views' = [views EXCEPT ![v].at = "store", ![v].got = got],
         ~got => Key(v) = "structure" \/ faults' > 0
  PROVE  Done(v)
<1>1. views[v] \in ViewSet /\ ViewOK(v) /\ flaw' = flaw /\ place' = place
  BY DEF Inv, TypeOK, Calm, outside
<1> DEFINE x == [views[v] EXCEPT !.at = "store", !.got = got]
<1>2. /\ x \in ViewSet /\ x.at = "store" /\ x.got = got
      /\ x.key = views[v].key /\ x.verdict = views[v].verdict
  BY <1>1 DEF ViewSet, Points
<1>3. views' = [views EXCEPT ![v] = x]
  BY DEF Inv, TypeOK
<1> HIDE DEF x
<1>4. Moves(v) /\ views'[v] = x
  BY <1>2, <1>3 DEF Moves, Inv, TypeOK
<1> QED
  BY <1>1, <1>2, <1>4 DEF Done, ViewOK, PostedOK, Checking, Judged, At, Key

LEMMA FetchInv ==
  ASSUME Inv, NEW v \in Views, Fetch(v)
  PROVE  Inv'
<1>1. Calm
  BY CalmStep DEF Fetch
<1>2. Kept
  BY <1>1, KeptUnchanged DEF Fetch
<1>3. Done(v)
  BY <1>1, FetchedDone DEF Fetch
<1> QED
  BY <1>1, <1>2, <1>3, ViewStep DEF Done

LEMMA FetchFailsInv ==
  ASSUME Inv, NEW v \in Views, FetchFails(v)
  PROVE  Inv'
<1>1. Calm
  BY CalmStep DEF FetchFails
<1>2. Kept
  BY <1>1, KeptUnchanged DEF FetchFails
<1>3. faults' > 0
  BY FaultCounts DEF Inv, FetchFails
<1>4. Done(v)
  BY <1>1, <1>3, FetchedDone DEF FetchFails
<1> QED
  BY <1>1, <1>2, <1>4, ViewStep DEF Done

LEMMA StoreInv ==
  ASSUME Inv, NEW v \in Views, Store(v)
  PROVE  Inv'
<1>1. Calm
  BY CalmStep DEF Store
<1> DEFINE key == Key(v)
<1>2. /\ Checking(v) /\ key \in {place, "region"} /\ key \in Keys
      /\ faults' = faults /\ faults \in Nat
      /\ ~views[v].got => key = "structure" \/ faults > 0
  BY DEF Store, Checking, Inv, TypeOK, ViewOK, Keys
<1>3. Kept
  <2>1. known' = [known EXCEPT ![key] = IF views[v].got THEN "found" ELSE "missing"]
    BY DEF Store
  <2>2. known' \in [Keys -> {"unknown", "found", "missing"}]
    BY <2>1 DEF Inv, TypeOK
  <2>3. KnownOK'
    BY <1>2, <2>1 DEF Inv, TypeOK, KnownOK, Keys
  <2>4. StoredIsPosted'
    BY DEF Store, Inv, StoredIsPosted, Announced, outside
  <2> QED
    BY <2>2, <2>3, <2>4 DEF Kept
<1>4. Done(v)
  <2>1. CASE views[v].got
    <3>1. Located(v, key)
      BY <2>1 DEF Store
    <3> QED
      BY <1>1, <1>2, <3>1, LocatedDone
  <2>2. CASE ~views[v].got
    <3>1. Unlocated(v, key)
      BY <2>2 DEF Store
    <3> HIDE DEF key
    <3> QED
      BY <1>1, <1>2, <2>2, <3>1, UnlocatedDone
  <2> QED
    BY <2>1, <2>2
<1> QED
  BY <1>1, <1>3, <1>4, ViewStep DEF Done

LEMMA FetchStructureInv ==
  ASSUME Inv, NEW v \in Views, FetchStructure(v)
  PROVE  Inv'
<1>1. Calm
  BY CalmStep DEF FetchStructure
<1>2. Kept
  BY <1>1, KeptUnchanged DEF FetchStructure
<1>3. Checking(v) /\ faults' = faults
  BY DEF FetchStructure, Checking
<1>4. Done(v)
  <2>1. CASE place = "structure"
    BY <1>1, <1>3, <2>1, LocatedDone DEF FetchStructure, Keys
  <2>2. CASE place # "structure"
    <3>1. faults' > 0
      BY <1>3, <2>2 DEF FetchStructure, Inv, ViewOK
    <3> QED
      BY <1>1, <1>3, <2>2, <3>1, InvalidDone DEF FetchStructure
  <2> QED
    BY <2>1, <2>2
<1> QED
  BY <1>1, <1>2, <1>4, ViewStep DEF Done

LEMMA StructureFailsInv ==
  ASSUME Inv, NEW v \in Views, StructureFails(v)
  PROVE  Inv'
<1>1. Calm
  BY CalmStep DEF StructureFails
<1>2. Kept
  BY <1>1, KeptUnchanged DEF StructureFails
<1>3. Checking(v) /\ faults' > 0
  BY FaultCounts DEF Inv, StructureFails, Checking
<1>4. Done(v)
  BY <1>1, <1>3, InvalidDone DEF StructureFails
<1> QED
  BY <1>1, <1>2, <1>4, ViewStep DEF Done

\* A view goes to another point with what it has found.
LEMMA GotoDone ==
  ASSUME Inv, NEW v \in Views, Calm, Checking(v), At(v, "sov") \/ At(v, "fill"),
         NEW at \in {"fill", "find"}, NEW got \in BOOLEAN,
         views' = [views EXCEPT ![v] = [@ EXCEPT !.at = at, !.got = got]],
         at = "fill" /\ ~got => sov = "lost",
         at = "find" => sovMap' # "empty" \/ faults' > 0
  PROVE  Done(v)
<1>1. /\ views[v] \in ViewSet /\ ViewOK(v) /\ sov' = sov
      /\ flaw # "terms" /\ flaw # "place" /\ flaw' = flaw
  BY DEF Inv, TypeOK, ViewOK, Calm, outside
<1> DEFINE x == [views[v] EXCEPT !.at = at, !.got = got]
<1>2. x \in ViewSet /\ x.at = at /\ x.got = got /\ x.verdict = views[v].verdict
  BY <1>1 DEF ViewSet, Points
<1>3. views' = [views EXCEPT ![v] = x]
  OBVIOUS
<1> HIDE DEF x
<1>4. Moves(v) /\ views'[v] = x
  BY <1>2, <1>3 DEF Moves, Inv, TypeOK
<1> QED
  BY <1>1, <1>2, <1>4 DEF Done, ViewOK, PostedOK, Checking, Judged, At

LEMMA SovereigntyAnsweredInv ==
  ASSUME Inv, NEW v \in Views, SovereigntyAnswered(v)
  PROVE  Inv'
<1>1. Calm
  BY CalmStep DEF SovereigntyAnswered
<1>2. Kept
  BY <1>1, KeptUnchanged DEF SovereigntyAnswered
<1>3. Done(v)
  <2>1. PICK got \in BOOLEAN : got = (sov = "ours")
    OBVIOUS
  <2>2. views' = [views EXCEPT ![v] = [@ EXCEPT !.at = "fill", !.got = got]]
    BY <2>1 DEF SovereigntyAnswered, Inv, TypeOK
  <2>3. ~got => sov = "lost"
    BY <2>1 DEF Inv, TypeOK
  <2>4. Checking(v) /\ At(v, "sov")
    BY DEF SovereigntyAnswered, Checking
  <2> QED
    BY <1>1, <2>2, <2>3, <2>4, GotoDone
<1> QED
  BY <1>1, <1>2, <1>3, ViewStep DEF Done

\* Goto leaves what was found so far.
LEMMA GotoKeeps ==
  ASSUME Inv, NEW v \in Views, NEW at \in Points, Goto(v, at)
  PROVE  /\ views[v].got \in BOOLEAN
         /\ views' = [views EXCEPT ![v] = [@ EXCEPT !.at = at, !.got = views[v].got]]
<1>1. views[v] \in ViewSet
  BY DEF Inv, TypeOK
<1>2. [views[v] EXCEPT !.at = at] = [views[v] EXCEPT !.at = at, !.got = views[v].got]
  BY <1>1 DEF ViewSet
<1>3. views[v].got \in BOOLEAN
  BY <1>1 DEF ViewSet
<1> QED
  BY <1>2, <1>3 DEF Goto, Inv, TypeOK

LEMMA SovereigntyFailsInv ==
  ASSUME Inv, NEW v \in Views, SovereigntyFails(v)
  PROVE  Inv'
<1>1. Calm
  BY CalmStep DEF SovereigntyFails
<1>2. Kept
  BY <1>1, KeptUnchanged DEF SovereigntyFails
<1>3. Done(v)
  <2>1. Checking(v) /\ At(v, "sov") /\ faults' > 0
    BY FaultCounts DEF Inv, SovereigntyFails, Checking
  <2>2. PICK got \in BOOLEAN :
          views' = [views EXCEPT ![v] = [@ EXCEPT !.at = "find", !.got = got]]
    BY GotoKeeps DEF SovereigntyFails, Points
  <2> QED
    BY <1>1, <2>1, <2>2, GotoDone
<1> QED
  BY <1>1, <1>2, <1>3, ViewStep DEF Done

\* The view that fills the map moves no view.
LEMMA FillOthersInv ==
  ASSUME Inv, NEW v \in Views, FillOthers(v)
  PROVE  Inv'
<1>1. Calm
  BY DEF FillOthers, Inv, TypeOK, Calm, SovOK, Maps, outside
<1>2. Kept
  BY <1>1, KeptUnchanged DEF FillOthers
<1>3. Done(v)
  <2>1. views' = views /\ UNCHANGED <<webhook, flaw, place, sov, faults>>
    BY DEF FillOthers, outside
  <2>2. Moves(v)
    BY <2>1 DEF Moves, Inv, TypeOK
  <2>3. ViewOK(v) /\ PostedOK(v) /\ sovMap' # "empty"
    BY DEF FillOthers, Inv
  <2>4. ViewOK(v)'
    BY <2>1, <2>3 DEF ViewOK, Checking, Judged, At, Key, Right
  <2>5. PostedOK(v)'
    BY <2>1, <2>3 DEF PostedOK, At, Announced
  <2> QED
    BY <2>2, <2>4, <2>5 DEF Done
<1> QED
  BY <1>1, <1>2, <1>3, ViewStep DEF Done

LEMMA FillSystemInv ==
  ASSUME Inv, NEW v \in Views, FillSystem(v)
  PROVE  Inv'
<1>1. ~views[v].got => sov = "lost"
  BY DEF FillSystem, Inv, ViewOK
<1>2. Calm
  BY <1>1 DEF FillSystem, Inv, TypeOK, Calm, SovOK, Maps, outside
<1>3. Kept
  BY <1>2, KeptUnchanged DEF FillSystem
<1>4. Done(v)
  <2>1. Checking(v) /\ At(v, "fill") /\ sovMap' # "empty"
    BY DEF FillSystem, Checking
  <2>2. PICK got \in BOOLEAN :
          views' = [views EXCEPT ![v] = [@ EXCEPT !.at = "find", !.got = got]]
    BY GotoKeeps DEF FillSystem, Points
  <2> QED
    BY <1>2, <2>1, <2>2, GotoDone
<1> QED
  BY <1>2, <1>3, <1>4, ViewStep DEF Done

LEMMA ItemsFailInv ==
  ASSUME Inv, NEW v \in Views, ItemsFail(v)
  PROVE  Inv'
<1>1. Calm
  BY CalmStep DEF ItemsFail
<1>2. Kept
  BY <1>1, KeptUnchanged DEF ItemsFail
<1>3. Checking(v) /\ faults' > 0
  BY FaultCounts DEF Inv, ItemsFail, Checking
<1>4. Done(v)
  BY <1>1, <1>3, InvalidDone DEF ItemsFail
<1> QED
  BY <1>1, <1>2, <1>4, ViewStep DEF Done

LEMMA SovereigntyInv ==
  ASSUME Inv, NEW v \in Views, Sovereignty(v)
  PROVE  Inv'
<1>1. Calm
  BY CalmStep DEF Sovereignty
<1>2. Kept
  BY <1>1, KeptUnchanged DEF Sovereignty
<1>3. /\ views[v] \in ViewSet /\ sovMap \in Maps
      /\ flaw' = flaw /\ flaw # "terms" /\ flaw # "place"
      /\ sov' = sov /\ sovMap' = sovMap /\ faults' = faults
      /\ views[v].verdict \in {"valid", "finished", "deleted"}
      /\ sovMap # "empty" \/ faults > 0
  BY DEF Sovereignty, outside, ViewOK, Checking, Inv, TypeOK
<1>4. CASE sovMap = "ours"
  <2> DEFINE x == [views[v] EXCEPT !.at = "items", !.key = "none", !.got = FALSE,
                                   !.saw = IF views[v].verdict = "valid" THEN sovMap ELSE "none"]
  <2>1. /\ x \in ViewSet /\ x.at = "items" /\ x.verdict = views[v].verdict
        /\ x.verdict = "valid" => x.saw = "ours"
    BY <1>3, <1>4 DEF ViewSet, Points
  <2>2. views' = [views EXCEPT ![v] = x]
    BY <1>4 DEF Sovereignty
  <2> HIDE DEF x
  <2>3. Moves(v) /\ views'[v] = x
    BY <2>1, <2>2 DEF Moves, Inv, TypeOK
  <2>4. ViewOK(v)' /\ PostedOK(v)'
    BY <1>3, <2>1, <2>3 DEF ViewOK, PostedOK, Checking, Judged, At
  <2> QED
    BY <1>1, <1>2, <2>3, <2>4, ViewStep
<1>5. CASE sovMap # "ours"
  <2> DEFINE verdict == IF views[v].verdict = "valid" THEN "invalid" ELSE views[v].verdict
             seen == IF views[v].verdict = "valid" THEN sovMap ELSE "none"
             x == [views[v] EXCEPT !.at = "compare", !.key = "none", !.got = FALSE,
                                   !.saw = seen, !.verdict = verdict]
  <2>1. /\ verdict \in Verdicts /\ verdict # "valid"
        /\ seen \in Maps \cup {"none"} /\ (verdict = "invalid" => seen = sovMap)
    BY <1>3 DEF Verdicts, Statuses
  <2> HIDE DEF verdict, seen
  <2>2. x \in ViewSet /\ x.at = "compare" /\ x.saw = seen /\ x.verdict = verdict
    BY <1>3, <2>1 DEF ViewSet, Points
  <2>3. views' = [views EXCEPT ![v] = x]
    BY <1>5 DEF Sovereignty, verdict, seen
  <2> HIDE DEF x
  <2>4. Moves(v) /\ views'[v] = x
    BY <2>2, <2>3 DEF Moves, Inv, TypeOK
  <2>5. faults > 0 \/ sovMap = "partly" \/ (sovMap = "lost" /\ sov = "lost")
    BY <1>3, <1>5 DEF Inv, SovOK, Maps
  <2>6. ViewOK(v)' /\ PostedOK(v)'
    BY <1>3, <2>1, <2>2, <2>4, <2>5 DEF ViewOK, PostedOK, Checking, Judged, At
  <2> QED
    BY <1>1, <1>2, <2>4, <2>6, ViewStep
<1> QED
  BY <1>4, <1>5

LEMMA FetchItemsInv ==
  ASSUME Inv, NEW v \in Views, FetchItems(v)
  PROVE  Inv'
<1>1. Calm
  BY CalmStep DEF FetchItems
<1>2. Kept
  BY <1>1, KeptUnchanged DEF FetchItems
<1>3. Checking(v) /\ ViewOK(v) /\ sovMap' = sovMap
  BY DEF FetchItems, Checking, Inv
<1>4. Done(v)
  <2>1. CASE flaw = "items"
    BY <1>1, <1>3, <2>1, InvalidDone DEF FetchItems, Right
  <2>2. CASE flaw # "items"
    <3>1. Right /\ (views[v].verdict = "valid" => views[v].saw = "ours")
      BY <1>3, <2>2, FlawsAssumption
         DEF FetchItems, ViewOK, Checking, Right, Inv, TypeOK
    <3>2. /\ Judge(v, views[v].verdict)
          /\ views[v].verdict \in Verdicts /\ views[v].verdict # "invalid"
      BY <1>3, <2>2 DEF FetchItems, ViewOK, Verdicts, Statuses
    <3> QED
      BY <1>1, <1>3, <3>1, <3>2, JudgeDone
  <2> QED
    BY <2>1, <2>2
<1> QED
  BY <1>1, <1>2, <1>4, ViewStep DEF Done

-----------------------------------------------------------------------------
(* The announcement.                                                         *)

\* A view that has its verdict gives up, or takes the verdict along.
LEMMA AnnounceDone ==
  ASSUME Inv, NEW v \in Views, Calm, Judged(v),
         NEW at \in {"idle", "post", "set"}, NEW got \in BOOLEAN,
         at = "idle" => views' = [views EXCEPT ![v] = Idle],
         at # "idle" => views' = [views EXCEPT ![v] = [@ EXCEPT !.at = at, !.got = got]],
         webhook /\ at = "set" /\ views[v].verdict \in Announced => got
  PROVE  Done(v)
<1>1. views[v] \in ViewSet /\ ViewOK(v) /\ faults \in Nat
  BY DEF Inv, TypeOK
<1>2. /\ Right' = Right /\ faults' \in Nat /\ faults <= faults'
      /\ webhook' = webhook /\ sov' = sov
  BY DEF Calm, outside, Right
<1>3. CASE at = "idle"
  <2>1. Idle \in ViewSet /\ Idle.at = "idle"
    BY DEF Idle, ViewSet, Points, Verdicts
  <2>2. Moves(v) /\ views'[v] = Idle
    BY <1>3, <2>1 DEF Moves, Inv, TypeOK
  <2> QED
    BY <2>1, <2>2 DEF Done, ViewOK, PostedOK, Checking, Judged, At
<1>4. CASE at # "idle"
  <2>1. views' = [views EXCEPT ![v] = [@ EXCEPT !.at = at, !.got = got]]
    BY <1>4
  <2>2. /\ Moves(v) /\ views'[v].at = at /\ views'[v].got = got
        /\ views'[v].verdict = views[v].verdict /\ views'[v].saw = views[v].saw
    BY <1>1, <2>1 DEF Moves, ViewSet, Points, Inv, TypeOK
  <2>3. PostedOK(v)'
    BY <1>2, <2>2 DEF PostedOK, At, Announced
  <2>4. ViewOK(v)'
    BY <1>1, <1>2, <1>4, <2>2 DEF ViewOK, Checking, Judged, At
  <2> QED
    BY <2>2, <2>3, <2>4 DEF Done
<1> QED
  BY <1>3, <1>4

LEMMA CompareInv ==
  ASSUME Inv, NEW v \in Views, Compare(v)
  PROVE  Inv'
<1>1. Calm
  BY CalmStep DEF Compare
<1>2. Kept
  BY <1>1, KeptUnchanged DEF Compare
<1>3. Judged(v)
  BY DEF Compare, Judged
<1>4. PICK at \in {"idle", "post", "set"} :
        /\ at = "idle" => views' = [views EXCEPT ![v] = Idle]
        /\ at # "idle" => Goto(v, at)
        /\ at = "set" => views[v].verdict \notin Announced
  BY DEF Compare
<1>5. Done(v)
  <2>1. views[v] \in ViewSet /\ views[v].got \in BOOLEAN
    BY DEF Inv, TypeOK, ViewSet
  <2>2. [views[v] EXCEPT !.at = at] = [views[v] EXCEPT !.at = at, !.got = views[v].got]
    BY <2>1 DEF ViewSet
  <2>3. at # "idle" =>
          views' = [views EXCEPT ![v] = [@ EXCEPT !.at = at, !.got = views[v].got]]
    BY <1>4, <2>2 DEF Goto
  <2> QED
    BY <1>1, <1>3, <1>4, <2>1, <2>3, AnnounceDone
<1> QED
  BY <1>1, <1>2, <1>5, ViewStep DEF Done

LEMMA PostInv ==
  ASSUME Inv, NEW v \in Views, Post(v)
  PROVE  Inv'
<1>1. Calm
  BY CalmStep DEF Post
<1>2. Kept
  BY <1>1, KeptUnchanged DEF Post
<1>3. Judged(v) /\ webhook \in BOOLEAN
  BY WebhooksAssumption DEF Post, Judged, Inv, TypeOK
<1>4. Done(v)
  BY <1>1, <1>3, AnnounceDone DEF Post
<1> QED
  BY <1>1, <1>2, <1>4, ViewStep DEF Done

LEMMA PostUnansweredInv ==
  ASSUME Inv, NEW v \in Views, PostUnanswered(v)
  PROVE  Inv'
<1>1. Calm
  BY CalmStep DEF PostUnanswered
<1>2. Kept
  BY <1>1, KeptUnchanged DEF PostUnanswered
<1>3. Judged(v)
  BY DEF PostUnanswered, Judged
<1>4. Done(v)
  BY <1>1, <1>3, AnnounceDone DEF PostUnanswered
<1> QED
  BY <1>1, <1>2, <1>4, ViewStep DEF Done

LEMMA SetNotifiedStateInv ==
  ASSUME Inv, NEW v \in Views, SetNotifiedState(v)
  PROVE  Inv'
<1>1. Calm
  BY CalmStep DEF SetNotifiedState
<1>2. Kept
  <2>1. StoredIsPosted'
    BY DEF SetNotifiedState, Inv, PostedOK, StoredIsPosted, Announced, outside
  <2>2. KnownOK' /\ known' \in [Keys -> {"unknown", "found", "missing"}]
    BY DEF SetNotifiedState, Inv, TypeOK, KnownOK
  <2> QED
    BY <2>1, <2>2 DEF Kept
<1>3. Judged(v)
  BY DEF SetNotifiedState, Judged
<1>4. Done(v)
  BY <1>1, <1>3, AnnounceDone DEF SetNotifiedState
<1> QED
  BY <1>1, <1>2, <1>4, ViewStep DEF Done

-----------------------------------------------------------------------------
(* All steps.                                                                *)

LEMMA GameMovesInv == Inv /\ GameMoves => Inv'
<1> SUFFICES ASSUME Inv, GameMoves  PROVE Inv'
  OBVIOUS
<1>1. /\ UNCHANGED <<webhook, flaw, place, views, known, sovMap, notified, answered, faults>>
      /\ sov = "lost" => sov' = "lost"
  BY DEF GameMoves
<1>2. TypeOK'
  BY <1>1 DEF GameMoves, Inv, TypeOK, Statuses
<1>3. KnownOK' /\ SovOK' /\ StoredIsPosted'
  BY <1>1 DEF Inv, KnownOK, SovOK, StoredIsPosted, Announced
<1>4. ASSUME NEW v \in Views  PROVE ViewOK(v)' /\ PostedOK(v)'
  BY <1>1 DEF Inv, ViewOK, PostedOK, Checking, Judged, At, Key, Right, Announced
<1> QED
  BY <1>2, <1>3, <1>4 DEF Inv

\* Views that are idle have nothing behind them.
LEMMA IdleViews ==
  ASSUME views = [v \in Views |-> Idle], NEW v \in Views
  PROVE  ViewOK(v) /\ PostedOK(v)
BY DEF Idle, ViewOK, PostedOK, Checking, Judged, At

LEMMA InitInv == Init => Inv
<1> SUFFICES ASSUME Init  PROVE Inv
  OBVIOUS
<1>1. TypeOK
  BY DEF Init, TypeOK, Maps, Statuses, Idle, ViewSet, Points, Verdicts
<1>2. KnownOK /\ SovOK /\ StoredIsPosted
  BY DEF Init, KnownOK, SovOK, StoredIsPosted, Announced, Keys
<1>3. \A v \in Views : ViewOK(v) /\ PostedOK(v)
  BY IdleViews DEF Init
<1> QED
  BY <1>1, <1>2, <1>3 DEF Inv

\* After a restart nothing is known, and what is stored was answered before.
LEMMA RestartedInv == Inv /\ Restarted => Inv'
<1> SUFFICES ASSUME Inv, Restarted  PROVE Inv'
  OBVIOUS
<1>1. TypeOK'
  BY DEF Restarted, Inv, TypeOK, Maps, outside, Idle, ViewSet, Points, Verdicts
<1>2. KnownOK' /\ SovOK' /\ StoredIsPosted'
  BY DEF Restarted, Inv, KnownOK, SovOK, StoredIsPosted, Announced, Keys, outside
<1>3. \A v \in Views : ViewOK(v)' /\ PostedOK(v)'
  BY DEF Restarted, Idle, ViewOK, PostedOK, Checking, Judged, At
<1> QED
  BY <1>1, <1>2, <1>3 DEF Inv

LEMMA InvNext == Inv /\ [Next]_vars => Inv'
<1> SUFFICES ASSUME Inv, [Next]_vars  PROVE Inv'
  OBVIOUS
<1>1. ASSUME NEW v \in Views, View(v)  PROVE Inv'
  BY <1>1, FetchContractsInv, LookupInv, FetchInv, StoreInv, FetchStructureInv,
     SovereigntyAnsweredInv, FillOthersInv, FillSystemInv, SovereigntyInv,
     FetchItemsInv, CompareInv, PostInv, SetNotifiedStateInv
     DEF View
<1>2. ASSUME NEW v \in Views, Unanswered(v)  PROVE Inv'
  BY <1>2, ContractsFailInv, FetchFailsInv, StructureFailsInv, SovereigntyFailsInv,
     ItemsFailInv, PostUnansweredInv DEF Unanswered
<1>3. CASE GameMoves
  BY <1>3, GameMovesInv
<1>4. CASE ConcurrentMapWrite \/ Crash
  BY <1>4, RestartedInv DEF ConcurrentMapWrite, Crash
<1>5. CASE UNCHANGED vars
  BY <1>5 DEF vars, outside, Inv, TypeOK, KnownOK, SovOK, StoredIsPosted, ViewOK, PostedOK,
              Checking, Judged, At, Key, Right, Announced
<1> QED
  BY <1>1, <1>2, <1>3, <1>4, <1>5 DEF Next

-----------------------------------------------------------------------------
(* Theorems.                                                                 *)

\* Where a webhook is configured, a state that asks for a message is stored only
\* after Discord answered the message, however many views, lost answers and
\* restarts there are (HandleViewAppraisal: PostMessage before SetNotifiedState).
THEOREM StoredWasPosted == Spec => []StoredIsPosted
<1>1. Inv => StoredIsPosted
  BY DEF Inv
<1> QED
  BY <1>1, InitInv, InvNext, PTL DEF Spec

\* A contract is found valid only if it is right and its system was seen to be the
\* alliance's, and one that is right is found invalid only when an answer was
\* missing, the system was lost, or the map of sovereignty was just being filled,
\* whatever other views left in the maps (validateContract, FindLocation).
THEOREM VerdictsExplained == Spec => []VerdictExplained
<1>1. Inv => VerdictExplained
  BY DEF Inv, ViewOK, Judged, VerdictExplained
<1> QED
  BY <1>1, InitInv, InvNext, PTL DEF Spec
=============================================================================
