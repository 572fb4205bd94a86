---------------------------- MODULE Notifications ----------------------------
(***************************************************************************)
(* What happens when the owner of an appraisal looks at it: the contract   *)
(* of the buyback is fetched and judged (esi/contracts.go), with what is   *)
(* known of its location (esi/locations.go), and when the verdict is not   *)
(* the one that was announced last, it is posted to Discord and stored     *)
(* (the last part of HandleViewAppraisal, web/handle_appraisal.go).        *)
(*                                                                         *)
(* There is one appraisal, with one contract that the owner may submit.    *)
(* Views overlap, every fetch may fail, a post may be lost, and the        *)
(* program may end at any time and start again: what it knows of locations *)
(* is gone then, what is in the database stays.                            *)
(***************************************************************************)
EXTENDS Naturals

CONSTANTS
  Webhooks, \* bound: whether discord-webhook is configured, by default it is not
  Flaws,    \* bound: what may be wrong with the contract: "terms", "place",
            \* "items" (or their volume), "none"
  Views,    \* bound: the views that may overlap
  Faults,   \* bound: how many fetches and posts are not answered
  Restarts  \* bound: how often the program ends and starts again

ASSUME WebhooksAssumption == Webhooks \subseteq BOOLEAN
ASSUME FlawsAssumption == Flaws \subseteq {"terms", "place", "items", "none"}

VARIABLES
  webhook,   \* whether discord-webhook is configured
  flaw,      \* what is wrong with the contract
  place,     \* where it starts: at a "station" or in a "structure"
  status,    \* of the contract, as the game has it
  sov,       \* of the system now: "ours", the alliance's, or "lost"
  views,     \* what each view is at, and what it found so far
  known,     \* the maps of locations: "unknown", "found" or "missing"
  sovMap,    \* what it says of the system: "empty", "partly" when it has entries
             \* but not yet this one, or what sov was when it was fetched
  notified,  \* buckets "appraisals-notified-time" and -status
  answered,  \* history: Discord answered the view that stored what is there
  faults,    \* how many fetches and posts were not answered
  restarts   \* how often the program ended

outside == <<webhook, flaw, place, status, sov>>
vars == <<outside, views, known, sovMap, notified, answered, faults, restarts>>

Keys     == {"station", "structure", "region"}

\* The map that a key is in: a structure is looked up as a station first.  The
\* region of a system takes two maps, of systems and of constellations, which
\* are used alike: "region" stands for both.
MapOf(key) == IF key = "structure" THEN "station" ELSE key

\* saw (history): what the map of sovereignty said of the system when the view
\* looked, if its verdict depended on that.
Idle == [at |-> "idle", key |-> "none", got |-> FALSE, verdict |-> "none", saw |-> "none"]

Init ==
  /\ webhook \in Webhooks
  /\ flaw \in Flaws
  /\ place \in {"station", "structure"}
  /\ status = "not_found"
  /\ sov = "ours"
  /\ views = [v \in Views |-> Idle]
  /\ known = [key \in Keys |-> "unknown"]
  /\ sovMap = "empty"
  /\ notified = "none"
  /\ answered = FALSE /\ faults = 0 /\ restarts = 0

At(v, at)   == views[v].at = at
Goto(v, at) == views' = [views EXCEPT ![v].at = at]

\* A request to another server is not answered.
Fault == faults < Faults /\ faults' = faults + 1

GoOn(v, at, key) ==
  views' = [views EXCEPT ![v] = [@ EXCEPT !.at = at, !.key = key, !.got = FALSE]]

\* A verdict is what the view goes on with to the part that announces it.
Judge(v, verdict) ==
  views' = [views EXCEPT ![v] = [@ EXCEPT !.at = "compare", !.key = "none", !.got = FALSE,
                                          !.verdict = verdict]]

-----------------------------------------------------------------------------
(* The game: the contract is submitted, and is accepted or deleted; the      *)
(* system may change hands.                                                  *)

GameMoves ==
  /\ \/ /\ status = "not_found"
        /\ status' = "outstanding"
        /\ UNCHANGED sov
     \/ /\ status = "outstanding"
        /\ status' \in {"finished", "deleted"}
        /\ UNCHANGED sov
     \/ /\ sov = "ours"
        /\ sov' = "lost"
        /\ UNCHANGED status
  /\ UNCHANGED <<webhook, flaw, place, views, known, sovMap, notified, answered, faults, restarts>>

-----------------------------------------------------------------------------
(* GetContractStatus: the contracts of the character are fetched, the first  *)
(* one with the ID of the appraisal in its title is evaluated.               *)

\* A view of the owner begins, when its contracts arrive or cannot be had.
\* EvaluateContract, and the first part of validateContract: the terms.  The
\* status of a contract that is not outstanding is the verdict, although it is
\* validated as well; its location is then looked up for nothing.
FetchContracts(v) ==
  /\ At(v, "idle")
  /\ IF status # "not_found" /\ flaw # "terms"
     THEN views' = [views EXCEPT ![v] =
                      [@ EXCEPT !.at = "lookup", !.key = place,
                                !.verdict = IF status = "outstanding" THEN "valid"
                                            ELSE status]]
     ELSE Judge(v, IF status = "outstanding" THEN "invalid" ELSE status)
  /\ UNCHANGED <<outside, known, sovMap, notified, answered, faults, restarts>>

ContractsFail(v) ==
  /\ At(v, "idle")
  /\ Judge(v, "error")
  /\ Fault
  /\ UNCHANGED <<outside, known, sovMap, notified, answered, restarts>>

\* An error of the validation makes an outstanding contract invalid.
Invalid(v) ==
  Judge(v, IF views[v].verdict = "valid" THEN "invalid" ELSE views[v].verdict)

-----------------------------------------------------------------------------
(* Locations: what is not in its map is fetched and stored there, found or   *)
(* not, and is never fetched again.  The maps have no lock.                  *)

Key(v) == views[v].key

\* What comes after a key that is found: after a station the region of its
\* system, which must be the right one.
Located(v, key) ==
  IF key = "station" THEN GoOn(v, "lookup", "region")
  ELSE IF flaw = "place" THEN Invalid(v) ELSE GoOn(v, "sov", "none")

\* A variant that knows of stations only, for a check of the properties.
UnlocatedStationsOnly(v, key) == Invalid(v)

\* What comes after a key that is missing: a location that is no station may
\* be a structure; without its region a contract is invalid.
Unlocated(v, key) ==
  IF key \in {"station", "structure"} THEN GoOn(v, "structure", "none") ELSE Invalid(v)

Lookup(v) ==
  /\ At(v, "lookup")
  /\ known[Key(v)] # "unknown"
  /\ IF known[Key(v)] = "found" THEN Located(v, Key(v)) ELSE Unlocated(v, Key(v))
  /\ UNCHANGED <<outside, known, sovMap, notified, answered, faults, restarts>>

\* A structure is not found among the stations: that is no fault.
Fetch(v) ==
  /\ At(v, "lookup")
  /\ known[Key(v)] = "unknown"
  /\ views' = [views EXCEPT ![v].at = "store", ![v].got = Key(v) # "structure"]
  /\ UNCHANGED <<outside, known, sovMap, notified, answered, faults, restarts>>

FetchFails(v) ==
  /\ At(v, "lookup")
  /\ known[Key(v)] = "unknown"
  /\ views' = [views EXCEPT ![v].at = "store", ![v].got = FALSE]
  /\ Fault
  /\ UNCHANGED <<outside, known, sovMap, notified, answered, restarts>>

Store(v) ==
  /\ At(v, "store")
  /\ known' = [known EXCEPT ![Key(v)] = IF views[v].got THEN "found" ELSE "missing"]
  /\ IF views[v].got THEN Located(v, Key(v)) ELSE Unlocated(v, Key(v))
  /\ UNCHANGED <<outside, sovMap, notified, answered, faults, restarts>>

\* getUniverseStructure has no map.  A station that was not found is no structure.
FetchStructure(v) ==
  /\ At(v, "structure")
  /\ IF place = "structure" THEN Located(v, "station") ELSE Invalid(v)
  /\ UNCHANGED <<outside, known, sovMap, notified, answered, faults, restarts>>

StructureFails(v) ==
  /\ At(v, "structure")
  /\ Invalid(v)
  /\ Fault
  /\ UNCHANGED <<outside, known, sovMap, notified, answered, restarts>>

\* FindAllianceForSystemID fetches the map of sovereignty when it has no entry,
SovereigntyAnswered(v) ==
  /\ At(v, "sov") /\ sovMap = "empty"
  /\ views' = [views EXCEPT ![v].at = "fill", ![v].got = (sov = "ours")]
  /\ UNCHANGED <<outside, known, sovMap, notified, answered, faults, restarts>>

\* looks the system up without an entry when there is no answer,
SovereigntyFails(v) ==
  /\ At(v, "sov") /\ sovMap = "empty"
  /\ Goto(v, "find")
  /\ Fault
  /\ UNCHANGED <<outside, known, sovMap, notified, answered, restarts>>

\* and else stores the answer entry by entry, without a lock: others may come
\* before the one of the system.
FillOthers(v) ==
  /\ At(v, "fill") /\ sovMap = "empty"
  /\ sovMap' = "partly"
  /\ UNCHANGED <<outside, views, known, notified, answered, faults, restarts>>

FillSystem(v) ==
  /\ At(v, "fill")
  /\ sovMap' = IF views[v].got THEN "ours" ELSE "lost"
  /\ Goto(v, "find")
  /\ UNCHANGED <<outside, known, notified, answered, faults, restarts>>

\* The lookup, after the load or in a map that has entries already.
Sovereignty(v) ==
  /\ At(v, "find") \/ (At(v, "sov") /\ sovMap # "empty")
  /\ LET verdict == views[v].verdict
         seen    == IF verdict = "valid" THEN sovMap ELSE "none"
     IN  views' = [views EXCEPT ![v] =
                 IF sovMap = "ours"
                 THEN [@ EXCEPT !.at = "items", !.key = "none", !.got = FALSE, !.saw = seen]
                 ELSE [@ EXCEPT !.at = "compare", !.key = "none", !.got = FALSE, !.saw = seen,
                                !.verdict = IF verdict = "valid" THEN "invalid" ELSE verdict]]
  /\ UNCHANGED <<outside, known, sovMap, notified, answered, faults, restarts>>

\* The items are compared with those of the appraisal, then the volume, which
\* is limited outside of one system.
FetchItems(v) ==
  /\ At(v, "items")
  /\ IF flaw = "items" THEN Invalid(v) ELSE Judge(v, views[v].verdict)
  /\ UNCHANGED <<outside, known, sovMap, notified, answered, faults, restarts>>

ItemsFail(v) ==
  /\ At(v, "items")
  /\ Invalid(v)
  /\ Fault
  /\ UNCHANGED <<outside, known, sovMap, notified, answered, restarts>>

-----------------------------------------------------------------------------
(* The verdict is announced when it is not the one that is stored.           *)

Announced == {"valid", "invalid", "deleted"}

\* A variant that announces the first verdict only, for a check of the
\* properties.
CompareFirst(v) ==
  /\ At(v, "compare")
  /\ IF notified # "none" THEN views' = [views EXCEPT ![v] = Idle]
     ELSE IF views[v].verdict \in Announced THEN Goto(v, "post")
     ELSE Goto(v, "set")
  /\ UNCHANGED <<outside, known, sovMap, notified, answered, faults, restarts>>

Compare(v) ==
  /\ At(v, "compare")
  /\ IF notified = views[v].verdict THEN views' = [views EXCEPT ![v] = Idle]
     ELSE IF views[v].verdict \in Announced THEN Goto(v, "post")
     ELSE Goto(v, "set")
  /\ UNCHANGED <<outside, known, sovMap, notified, answered, faults, restarts>>

\* Discord answers, with whatever status: PostMessage only prints it.  Without a
\* webhook nothing is posted, and the verdict is stored all the same.  (got is
\* history here: there was an answer.)
Post(v) ==
  /\ At(v, "post")
  /\ views' = [views EXCEPT ![v] = [@ EXCEPT !.at = "set", !.got = webhook]]
  /\ UNCHANGED <<outside, known, sovMap, notified, answered, faults, restarts>>

\* A variant that goes on to store the verdict, for a check of the properties.
PostUnansweredStoring(v) ==
  /\ At(v, "post") /\ webhook
  /\ Fault
  /\ Goto(v, "set")
  /\ UNCHANGED <<outside, known, sovMap, notified, answered, restarts>>

\* No answer: the status of a response that is nil is printed, and the request
\* ends there in a panic.
PostUnanswered(v) ==
  /\ At(v, "post") /\ webhook
  /\ Fault
  /\ views' = [views EXCEPT ![v] = Idle]
  /\ UNCHANGED <<outside, known, sovMap, notified, answered, restarts>>

\* SetNotifiedState reads again, and writes when another verdict is there.
SetNotifiedState(v) ==
  /\ At(v, "set")
  /\ notified' = views[v].verdict /\ answered' = views[v].got
  /\ views' = [views EXCEPT ![v] = Idle]
  /\ UNCHANGED <<outside, known, sovMap, faults, restarts>>

-----------------------------------------------------------------------------
(* The program ends.  It does so by itself when one view uses a map while    *)
(* another one writes it: the runtime of Go finds that.                      *)

Restarted ==
  /\ restarts < Restarts
  /\ restarts' = restarts + 1
  /\ views' = [v \in Views |-> Idle]
  /\ known' = [key \in Keys |-> "unknown"]
  /\ sovMap' = "empty"
  /\ UNCHANGED <<outside, notified, answered, faults>>

ConcurrentMapWrite ==
  /\ \E v, w \in Views :
       /\ v # w
       /\ \/ /\ At(v, "store")
             /\ At(w, "store") \/ At(w, "lookup")
             /\ MapOf(Key(v)) = MapOf(Key(w))
          \/ /\ At(v, "fill")
             /\ At(w, "fill") \/ At(w, "find") \/ (At(w, "sov") /\ sovMap # "empty")
  /\ Restarted

Crash == Restarted

-----------------------------------------------------------------------------

View(v) ==
  \/ FetchContracts(v) \/ Lookup(v) \/ Fetch(v) \/ Store(v) \/ FetchStructure(v)
  \/ SovereigntyAnswered(v) \/ FillOthers(v) \/ FillSystem(v) \/ Sovereignty(v)
  \/ FetchItems(v) \/ Compare(v) \/ Post(v) \/ SetNotifiedState(v)

Unanswered(v) ==
  \/ ContractsFail(v) \/ FetchFails(v) \/ StructureFails(v)
  \/ SovereigntyFails(v) \/ ItemsFail(v) \/ PostUnanswered(v)

Next ==
  \/ \E v \in Views : View(v) \/ Unanswered(v)
  \/ GameMoves \/ ConcurrentMapWrite \/ Crash

\* The owner looks again and again, and a request that is being handled goes on.
Fairness == \A v \in Views : WF_vars(View(v))

Spec == Init /\ [][Next]_vars /\ Fairness

-----------------------------------------------------------------------------
(* Properties.                                                               *)

\* Where a webhook is configured, a state that asks for a message is stored only
\* by a view to which Discord answered that message, whatever other views, lost
\* answers and restarts come in between: the message may come twice, but it is not
\* forgotten (the order of PostMessage and SetNotifiedState in HandleViewAppraisal).
StoredIsPosted == webhook /\ notified \in Announced => answered

\* The contract is right, as far as anyone can know.
Right == flaw = "none"

\* No view finds a contract valid that is not, or without an entry of its system
\* that was the alliance's; and none finds one invalid that is right, unless
\* something was not answered, the system was lost as its entry said, or another
\* view was just filling the map of sovereignty and had not come to the entry.
\* Beyond that, what other views stored in the maps is as good as what a view
\* fetches itself (validateContract, FindLocation, FindRegionForSystemID,
\* FindAllianceForSystemID).
VerdictExplained ==
  \A v \in Views :
    At(v, "compare") \/ At(v, "post") \/ At(v, "set") =>
      /\ views[v].verdict = "valid" => Right /\ views[v].saw = "ours"
      /\ views[v].verdict = "invalid" =>
           \/ ~Right
           \/ faults > 0
           \/ views[v].saw = "lost" /\ sov = "lost"
           \/ views[v].saw = "partly"

\* The verdict that a view comes to when nothing fails.
Verdict == IF status # "outstanding" THEN status
           ELSE IF Right /\ sov = "ours" THEN "valid" ELSE "invalid"

\* The maps do not hold a location as missing that is there, nor a former
\* state of sovereignty; one that is being filled is filled in the end.
MapsRight == /\ \A key \in Keys \ {"structure"} : known[key] # "missing"
             /\ sovMap \in {"empty", "partly", sov}

\* While the owner looks, what is stored, and was announced before, becomes the
\* verdict again and again, unless the maps stay wrong and the contract waits:
\* late views, lost posts and restarts only delay it (GetContractStatus,
\* GetNotifiedState, PostMessage, SetNotifiedState).
EventuallyTold ==
  []<>(status # "outstanding" \/ MapsRight => notified = Verdict)
=============================================================================
