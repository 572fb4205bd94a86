----------------------------- MODULE Lifecycle -----------------------------
(***************************************************************************)
(* appMain (evepraisal/app.go) starts the parts of the program one after   *)
(* the other and closes them in reverse, by its deferred functions, while  *)
(* requests for appraisals and the restore command (evepraisal/restore.go, *)
(* legacy/restore.go) go on.                                               *)
(*                                                                         *)
(* A request is StringToAppraisal (appraisal.go) and PutNewAppraisal, in   *)
(* stages that each look a type up: it takes app.TypeDB and then uses it.  *)
(* What a lookup may read from a closed type database is in TypeDBSwap;    *)
(* here it does not find the type.                                         *)
(*                                                                         *)
(* The goroutines that note when an appraisal was used (setLastUsedTime)   *)
(* are in AppraisalDB: Close does not wait for them.                       *)
(***************************************************************************)
EXTENDS Naturals, Sequences

CONSTANTS
  Requests,  \* bound: requests for appraisals that overlap
  Records    \* bound: the records of the file that is restored

ASSUME RecordsAssumption == Records \in Nat

VARIABLES
  main,      \* "down", or what appMain is at: "starting", "running", "closing"
  up,        \* how many of the parts are started, or not closed yet
  stopping,  \* whether the stop channel of the last of them is closed
  signal,    \* a signal is in the channel stop of appMain
  tasks,     \* the goroutine of each part that has one
  requests,  \* what each request is at, what it holds and found
  stored,    \* history: what the last stored appraisal was made from, till the next request
  zeroType,  \* the dump has a type with ID 0
  file,      \* the legacy file: what becomes of each record
  restore,   \* the record that the restore command is at, or 0
  imported,  \* history: the records that this restore got stored
  refused    \* history: a record of this restore was not taken

mainVars    == <<main, up, stopping, signal>>
given       == <<zeroType, file>>
restoreVars == <<given, restore, imported, refused>>
vars        == <<mainVars, tasks, requests, stored, restoreVars>>

\* Mutant: the price database is closed in front of its fetcher.
PartsPricesFirst == <<"priceDB", "httpCache", "priceFetcher", "priceDB", "appraisalDB",
                      "staticFetcher", "server", "mgmtServer">>

\* What is closed, in the order of the defer statements.  There are two for
\* priceDB: the second starts nothing, and what it closes the first closes again
\* at the very end, which does nothing.  The reaper comes with appraisalDB,
\* the type database with staticFetcher: NewStaticFetcher returns when a first
\* one is loaded, and the deferred function closes it after the fetcher.
Parts == <<"priceDB", "httpCache", "priceDB", "priceFetcher", "appraisalDB",
           "staticFetcher", "server", "mgmtServer">>

Tasks == {"priceFetcher", "appraisalDB", "staticFetcher"}

\* A part is up when it was started and no deferred function has closed it.
Up(part) ==
  /\ \E i \in 1 .. up : Parts[i] = part
  /\ main = "closing" => \A i \in up + 1 .. Len(Parts) : Parts[i] # part
Top == Parts[up]

\* types: every item got its type; prices: priceDB was open when items and
\* materials were priced; whole: no other lookup missed; closed (history): a type
\* database was closed in its time.
Stages    == {"parse", "price", "collect", "offer"}
NoRequest == [at |-> "none", held |-> "none",
              types |-> TRUE, prices |-> TRUE, whole |-> TRUE, closed |-> FALSE]

Off == [t \in Tasks |-> "off"]

Init ==
  /\ main = "down" /\ up = 0 /\ stopping = FALSE /\ signal = FALSE
  /\ tasks = Off
  /\ requests = [r \in Requests |-> NoRequest]
  /\ stored = {}
  /\ zeroType \in BOOLEAN
  /\ file \in [1 .. Records -> {"good", "skipped", "unreadable"}]
  /\ restore = 0 /\ imported = {} /\ refused = FALSE

-----------------------------------------------------------------------------
(* Start.                                                                    *)

Start ==
  /\ main = "down"
  /\ main' = "starting"
  /\ UNCHANGED <<up, stopping, signal, tasks, requests, stored, restoreVars>>

\* The price fetcher and the reaper begin with a first run at once; that of the
\* static fetcher is part of its start.
StartPart ==
  /\ main = "starting"
  /\ up' = up + 1
  /\ main' = IF up' = Len(Parts) THEN "running" ELSE "starting"
  /\ LET part == Parts[up'] IN
       tasks' = IF part \in Tasks
                THEN [tasks EXCEPT ![part] =
                        IF part = "staticFetcher" THEN "wait" ELSE "work"]
                ELSE tasks
  /\ UNCHANGED <<stopping, signal, requests, stored, restoreVars>>

\* log.Fatalf at a part that does not start or at a server that fails, or a
\* crash: no deferred function runs.
Exit ==
  /\ main' = "down" /\ up' = 0 /\ stopping' = FALSE /\ signal' = FALSE
  /\ tasks' = Off
  /\ requests' = [r \in Requests |-> NoRequest]

Fatal ==
  /\ main # "down"
  /\ Exit
  /\ UNCHANGED <<stored, restoreVars>>

-----------------------------------------------------------------------------
(* Shutdown.  The channel stop has room for one signal, which waits there    *)
(* until everything is started.                                              *)

Interrupt ==
  /\ main \in {"starting", "running"}
  /\ signal' = TRUE
  /\ UNCHANGED <<main, up, stopping, tasks, requests, stored, restoreVars>>

ReceiveStop ==
  /\ main = "running" /\ signal
  /\ main' = "closing"
  /\ signal' = FALSE
  /\ UNCHANGED <<up, stopping, tasks, requests, stored, restoreVars>>

HasTask == Top \in Tasks /\ tasks[Top] # "off"

\* A variant that waits without closing the channel, for a check of the
\* properties.
StopTaskUnclosed ==
  /\ main = "closing" /\ HasTask
  /\ UNCHANGED vars

\* Close of a part with a goroutine closes its channel and waits for it.
StopTask ==
  /\ main = "closing" /\ HasTask
  /\ stopping' = TRUE
  /\ UNCHANGED <<main, up, signal, tasks, requests, stored, restoreVars>>

\* A type database is closed: requests that hold it find it closed.
Stale == [r \in Requests |->
            [requests[r] EXCEPT !.held = IF @ = "fresh" THEN "stale" ELSE @,
                                !.closed = requests[r].at # "none"]]

\* A variant of Close that does not wait, for a check of the properties.
ClosePartUnwaited ==
  /\ main = "closing"
  /\ IF up = 1 THEN Exit
     ELSE /\ up' = up - 1
          /\ stopping' = FALSE
          /\ requests' = IF Top = "staticFetcher" THEN Stale ELSE requests
          /\ UNCHANGED <<main, signal, tasks>>
  /\ UNCHANGED <<stored, restoreVars>>

\* The servers are closed without waiting for the requests in progress: the
\* context of Shutdown had five seconds when the program started.  appMain
\* returns after the last part.
ClosePart ==
  /\ main = "closing" /\ ~HasTask
  /\ IF up = 1 THEN Exit
     ELSE /\ up' = up - 1
          /\ stopping' = FALSE
          /\ requests' = IF Top = "staticFetcher" THEN Stale ELSE requests
          /\ UNCHANGED <<main, signal, tasks>>
  /\ UNCHANGED <<stored, restoreVars>>

-----------------------------------------------------------------------------
(* The goroutines: work, then a select between a timer and stop.             *)

Stopped(t) == stopping /\ Top = t

TaskWaits(t) ==
  /\ tasks[t] = "work"
  /\ tasks' = [tasks EXCEPT ![t] = "wait"]
  /\ UNCHANGED <<mainVars, requests, stored, restoreVars>>

\* The timer of the price fetcher has run out already when a fetch took longer
\* than five minutes: then the select may take it although stop is closed.
TimerFires(t) ==
  /\ tasks[t] = "wait"
  /\ ~Stopped(t) \/ t = "priceFetcher"
  /\ tasks' = [tasks EXCEPT ![t] = "work"]
  /\ UNCHANGED <<mainVars, requests, stored, restoreVars>>

TaskEnds(t) ==
  /\ tasks[t] = "wait" /\ Stopped(t)
  /\ tasks' = [tasks EXCEPT ![t] = "off"]
  /\ UNCHANGED <<mainVars, requests, stored, restoreVars>>

\* The callback of the static fetcher replaces app.TypeDB and closes the old one.
SwapTypeDB ==
  /\ tasks["staticFetcher"] = "work"
  /\ requests' = Stale
  /\ UNCHANGED <<mainVars, tasks, stored, restoreVars>>

-----------------------------------------------------------------------------
(* Requests.                                                                 *)

\* A request passes a stage.
Pass(r, at, types, prices, whole) ==
  requests' = [requests EXCEPT ![r] =
    [requests[r] EXCEPT !.at = at, !.held = "none", !.types = types, !.prices = prices,
                        !.whole = requests[r].whole /\ whole]]
Goto(r, at, whole) == Pass(r, at, requests[r].types, requests[r].prices, whole)
End(r) == requests' = [requests EXCEPT ![r] = NoRequest]

Request(r) ==
  /\ Up("server") /\ requests[r].at = "none"
  /\ Goto(r, "parse", TRUE)
  /\ stored' = {}
  /\ UNCHANGED <<mainVars, tasks, restoreVars>>

TakeTypeDB(r) ==
  /\ requests[r].at \in Stages /\ requests[r].held = "none"
  /\ requests' = [requests EXCEPT ![r].held =
                    IF Up("staticFetcher") THEN "fresh" ELSE "stale"]
  /\ UNCHANGED <<mainVars, tasks, stored, restoreVars>>

Holds(r, at) == requests[r].at = at /\ requests[r].held # "none"
Found(r)     == requests[r].held = "fresh"

\* Whether the lookups of a stage found all they looked for.  What is closed
\* under them may fail all, some, or none of them.
Outcomes(r) == IF Found(r) THEN {TRUE} ELSE BOOLEAN

\* Some parsers take a line without looking its name up; others leave it, and
\* when nothing is taken there is no appraisal.
Parse(r) ==
  /\ Holds(r, "parse")
  /\ \/ \E whole \in Outcomes(r) : Goto(r, "price", whole)
     \/ ~Found(r) /\ End(r)
  /\ UNCHANGED <<mainVars, tasks, stored, restoreVars>>

\* priceAppraisalItems: a name that is no type is left without a type and a
\* price, an item that has no price without a price.  A variety of ore whose
\* plain ore is not found gets another price (GetAdjustedPriceForItem).
Price(r) ==
  /\ Holds(r, "price")
  /\ \E types, whole \in Outcomes(r) :
       Pass(r, "collect", types, Up("priceDB"), whole)
  /\ UNCHANGED <<mainVars, tasks, stored, restoreVars>>

\* Mutant: what is not a type is left out.
CollectUnknownToo(r) ==
  /\ Holds(r, "collect")
  /\ \E whole \in Outcomes(r) : Goto(r, "offer", whole)
  /\ UNCHANGED <<mainVars, tasks, stored, restoreVars>>

\* calculateBuyback looks up the types that have an adjustment, which it
\* leaves out when they are not found; collectBuybackItems divides by 0 and the
\* request ends when an item or a material is not found.  An item without a type
\* has the ID 0.
Collect(r) ==
  /\ Holds(r, "collect")
  /\ LET divisible == requests[r].types \/ zeroType IN
       \/ divisible /\ \E whole \in Outcomes(r) : Goto(r, "offer", whole)
       \/ ~(divisible /\ Found(r)) /\ End(r)
  /\ UNCHANGED <<mainVars, tasks, stored, restoreVars>>

\* The materials are priced; what is not found has no price in the offer.
Offer(r) ==
  /\ Holds(r, "offer")
  /\ \E whole \in Outcomes(r) :
       Pass(r, "put", requests[r].types, requests[r].prices /\ Up("priceDB"), whole)
  /\ UNCHANGED <<mainVars, tasks, stored, restoreVars>>

\* PutNewAppraisal fails when its database is closed.
Put(r) ==
  /\ requests[r].at = "put"
  /\ stored' = IF Up("appraisalDB") THEN {requests[r]} ELSE stored
  /\ End(r)
  /\ UNCHANGED <<mainVars, tasks, restoreVars>>

-----------------------------------------------------------------------------
(* The restore command, a process of its own.                                *)

RestoreBegins ==
  /\ restore = 0 /\ Records > 0
  /\ restore' = 1
  /\ UNCHANGED <<mainVars, tasks, requests, stored, given, imported, refused>>

\* A variant that stops at a record it cannot use, for a check of the properties.
RestoreRecordStopping ==
  /\ restore \in 1 .. Records
  /\ LET taken == Up("mgmtServer") IN
       /\ imported' = IF file[restore] = "good" /\ taken
                      THEN imported \cup {restore} ELSE imported
       /\ refused' = (refused \/ (file[restore] = "good" /\ ~taken))
       /\ restore' = IF file[restore] = "good" THEN restore + 1 ELSE Records + 1
  /\ UNCHANGED <<mainVars, tasks, requests, stored, given>>

\* A private record, and one with a bad ID, market, time or lines, is skipped.
\* Any other is posted to the management server; that it is not taken is only
\* logged.  A record that cannot be read ends the command.
RestoreRecord ==
  /\ restore \in 1 .. Records
  /\ LET taken == Up("mgmtServer") IN
       /\ imported' = IF file[restore] = "good" /\ taken
                      THEN imported \cup {restore} ELSE imported
       /\ refused' = (refused \/ (file[restore] = "good" /\ ~taken))
       /\ restore' = IF file[restore] = "unreadable" THEN Records + 1 ELSE restore + 1
  /\ UNCHANGED <<mainVars, tasks, requests, stored, given>>

RestoreEnds ==
  /\ restore > Records
  /\ restore' = 0 /\ imported' = {} /\ refused' = FALSE
  /\ UNCHANGED <<mainVars, tasks, requests, stored, given>>

-----------------------------------------------------------------------------

Main == Start \/ StartPart \/ ReceiveStop \/ StopTask \/ ClosePart

Task(t) == TaskWaits(t) \/ TimerFires(t) \/ TaskEnds(t)

Serve(r) == \/ Request(r) \/ TakeTypeDB(r)
            \/ Parse(r) \/ Price(r) \/ Collect(r) \/ Offer(r) \/ Put(r)

Next ==
  \/ Main \/ Fatal \/ Interrupt \/ SwapTypeDB
  \/ \E t \in Tasks : Task(t)
  \/ \E r \in Requests : Serve(r)
  \/ RestoreBegins \/ RestoreRecord \/ RestoreEnds

\* appMain goes on, which takes for granted that the first dump is found and
\* loaded; a run of a goroutine ends; and a select, which chooses at random
\* among what is ready, does not overlook stop for ever.
Fairness ==
  /\ WF_vars(Main)
  /\ \A t \in Tasks : WF_vars(TaskWaits(t)) /\ SF_vars(TaskEnds(t))

Spec == Init /\ [][Next]_vars /\ Fairness

-----------------------------------------------------------------------------
(* Properties.                                                               *)

\* No fetcher and no pass of the reaper is at work on a database that was closed,
\* or never opened: the order of the deferred functions of appMain, each of which
\* waits.
TasksHaveStores ==
  /\ tasks["priceFetcher"] = "work" => Up("priceDB") /\ Up("httpCache")
  /\ tasks["appraisalDB"] = "work" => Up("appraisalDB")
  /\ tasks["staticFetcher"] = "work" => Up("staticFetcher")

\* Requests go on while the databases under them are swapped and closed.  Still no
\* appraisal is stored that met a closed priceDB, for appraisalDB is closed
\* before it; none whose items were not found, unless the dump has a type with the
\* ID 0, for the request ends in collectBuybackItems; and one that was stored short
\* of a line, an ore's price or a part of its offer had a type database closed
\* in its time.
StoredWhole ==
  \A appraisal \in stored : /\ appraisal.prices
                           /\ (appraisal.types \/ zeroType)
                           /\ ((appraisal.types /\ appraisal.whole) \/ appraisal.closed)

\* A signal ends the program, however early it comes and whatever the
\* goroutines are doing.
StopEnds == signal ~> main = "down"

\* When the program took every record that was posted to it, each good record
\* in front of one that cannot be read is stored, whatever was skipped between
\* them (RestoreLegacyFile).
Readable == {i \in 1 .. Records : \A j \in 1 .. i : file[j] # "unreadable"}

RestoredAll ==
  restore > Records /\ ~refused => {i \in Readable : file[i] = "good"} \subseteq imported
=============================================================================
