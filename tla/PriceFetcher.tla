---------------------------- MODULE PriceFetcher ----------------------------
(***************************************************************************)
(* The price fetcher of esi/fetcher.go: the goroutine that refreshes the   *)
(* price database every five minutes, the workers that fetch the pages of  *)
(* market orders, one for each region, and the channels between them.      *)
(*                                                                         *)
(* Of the data only this is kept: whether a price was computed from all    *)
(* the orders that the regions have.  (What is computed is in PriceMerge.) *)
(* A worker that still runs when FetchOrderData returns with an error is    *)
(* forgotten: nobody has its map or its channels any more.                 *)
(***************************************************************************)
EXTENDS Naturals

CONSTANTS
  Regions,   \* regionIDs; the program passes one
  MaxPage,   \* bound: pages of orders of a region
  Markets,   \* regionNames()
  Types      \* bound: types that have a price

ASSUME PageAssumption == MaxPage \in Nat

VARIABLES
  pc,        \* the fetcher's goroutine
  late,      \* whether runOnce takes more than five minutes
  todo,      \* markets that UpdatePrice was not called for
  market,    \* the market that is being written,
  items,     \*   and its types that were not written yet
  workers,   \* the worker of each region and the page it is at
  finished,  \* the channel finished is closed
  errors,    \* what is buffered in errChannel (capacity 1)
  early,     \* history: an error came before the select of FetchOrderData
  stop,      \* the channel stop is closed
  stored     \* the price database: market, type -> what its price rests on

fetch == <<workers, finished, errors, early>>
write == <<todo, market, items, stored>>
vars  == <<pc, late, stop, fetch, write>>

NoMarket == "none"

TypeOK ==
  /\ pc \in {"start", "spawned", "blocked", "aggregate", "ccp", "markets", "write",
             "published", "wait", "ended"}
  /\ late \in BOOLEAN
  /\ todo \subseteq Markets /\ items \subseteq Types
  /\ market \in Markets \cup {NoMarket}
  /\ workers \in [Regions -> [pc : {"fetch", "send", "done", "lost"}, page : 1 .. MaxPage + 1]]
  /\ finished \in BOOLEAN
  /\ errors \in 0 .. 1
  /\ early \in BOOLEAN
  /\ stop \in BOOLEAN
  /\ stored \in [Markets \X Types -> {"none", "all", "some"}]

Spawned == [r \in Regions |-> [pc |-> "fetch", page |-> 1]]

Init ==
  /\ pc = "start"
  /\ late \in BOOLEAN
  /\ todo = {} /\ market = NoMarket /\ items = {}
  /\ workers = Spawned
  /\ finished = FALSE /\ errors = 0 /\ early = FALSE
  /\ stop = FALSE
  /\ stored = [k \in Markets \X Types |-> "none"]

InFetch == pc \in {"spawned", "blocked"}

-----------------------------------------------------------------------------
(* The workers of FetchOrderData *)

\* A page with orders: they are added to the map under the lock.
NextPage(r) ==
  /\ InFetch /\ workers[r].pc = "fetch" /\ workers[r].page <= MaxPage
  /\ workers' = [workers EXCEPT ![r].page = @ + 1]
  /\ UNCHANGED <<pc, late, finished, errors, early, stop, write>>

\* An empty page is the last one.
LastPage(r) ==
  /\ InFetch /\ workers[r].pc = "fetch"
  /\ workers' = [workers EXCEPT ![r].pc = "done"]
  /\ UNCHANGED <<pc, late, finished, errors, early, stop, write>>

PageFails(r) ==
  /\ InFetch /\ workers[r].pc = "fetch"
  /\ workers' = [workers EXCEPT ![r].pc = "send"]
  /\ UNCHANGED <<pc, late, finished, errors, early, stop, write>>

\* Mutant: an error that is received does not end FetchOrderData.
SendIgnored(r) ==
  /\ InFetch /\ workers[r].pc = "send"
  /\ \/ pc = "blocked" /\ pc' = pc /\ UNCHANGED <<errors, early>>
     \/ pc = "spawned" /\ errors = 0 /\ errors' = 1 /\ early' = TRUE /\ pc' = pc
  /\ workers' = [workers EXCEPT ![r].pc = "lost"]
  /\ UNCHANGED <<late, finished, stop, write>>

\* errChannel <- err goes to FetchOrderData if it is waiting in its select,
\* and to the buffer otherwise.
Send(r) ==
  /\ InFetch /\ workers[r].pc = "send"
  /\ \/ pc = "blocked" /\ pc' = "wait" /\ UNCHANGED <<errors, early>>
     \/ pc = "spawned" /\ errors = 0 /\ errors' = 1 /\ early' = TRUE /\ pc' = pc
  /\ workers' = [workers EXCEPT ![r].pc = "lost"]
  /\ UNCHANGED <<late, finished, stop, write>>

Returned(r) == workers[r].pc \in {"done", "lost"}

\* Mutant: the group counts one worker only.
FinishOne ==
  /\ InFetch /\ ~finished
  /\ \E r \in Regions : Returned(r)
  /\ finished' = TRUE
  /\ pc' = IF pc = "blocked" THEN "aggregate" ELSE pc
  /\ UNCHANGED <<late, workers, errors, early, stop, write>>

\* wg.Wait(); close(finished)
Finish ==
  /\ InFetch /\ ~finished
  /\ \A r \in Regions : Returned(r)
  /\ finished' = TRUE
  /\ pc' = IF pc = "blocked" THEN "aggregate" ELSE pc
  /\ UNCHANGED <<late, workers, errors, early, stop, write>>

-----------------------------------------------------------------------------
(* runOnce *)

Start ==
  /\ pc = "start"
  /\ workers' = Spawned
  /\ finished' = FALSE /\ errors' = 0 /\ early' = FALSE
  /\ pc' = "spawned"
  /\ UNCHANGED <<late, stop, write>>

\* The select of FetchOrderData: any case that is ready, or else it waits.
Select ==
  /\ pc = "spawned"
  /\ \/ finished /\ pc' = "aggregate" /\ UNCHANGED errors
     \/ stop /\ pc' = "wait" /\ UNCHANGED errors
     \/ errors = 1 /\ errors' = 0 /\ pc' = "wait"
     \/ ~finished /\ ~stop /\ errors = 0 /\ pc' = "blocked" /\ UNCHANGED errors
  /\ UNCHANGED <<late, workers, finished, early, stop, write>>

\* The aggregates are computed from the map of orders, without the lock.
Aggregate ==
  /\ pc = "aggregate"
  /\ pc' = "ccp"
  /\ UNCHANGED <<late, stop, fetch, write>>

\* FetchPriceData, and the merge if it succeeds.
FetchPriceData ==
  /\ pc = "ccp"
  /\ pc' = "markets" /\ todo' = Markets
  /\ UNCHANGED <<late, market, items, stored, stop, fetch>>

\* Mutant: the goroutine ends with the failure.
PriceDataFailsEnding ==
  /\ pc = "ccp"
  /\ pc' = "ended"
  /\ UNCHANGED <<late, stop, fetch, write>>

PriceDataFails ==
  /\ pc = "ccp"
  /\ pc' = "wait"
  /\ UNCHANGED <<late, stop, fetch, write>>

\* for market, pmap := range priceMap, and the look at stop before each.
Market ==
  /\ pc = "markets"
  /\ \/ /\ todo = {} /\ pc' = "published"
        /\ UNCHANGED <<todo, market, items>>
     \/ /\ todo # {} /\ stop /\ pc' = "wait"
        /\ UNCHANGED <<todo, market, items>>
     \/ /\ ~stop
        /\ \E m \in todo, pmap \in SUBSET Types :
             todo' = todo \ {m} /\ market' = m /\ items' = pmap
        /\ pc' = "write"
  /\ UNCHANGED <<late, stored, stop, fetch>>

Basis == IF \E r \in Regions : workers[r].pc = "lost" THEN "some" ELSE "all"

\* UpdatePrice; an error is logged and the next type is written.
UpdatePrice ==
  /\ pc = "write"
  /\ \E t \in items :
       /\ items' = items \ {t}
       /\ stored' \in {stored, [stored EXCEPT ![<<market, t>>] = Basis]}
  /\ UNCHANGED <<pc, late, todo, market, stop, fetch>>

MarketDone ==
  /\ pc = "write" /\ items = {}
  /\ pc' = "markets" /\ market' = NoMarket
  /\ UNCHANGED <<late, todo, items, stored, stop, fetch>>

Published ==
  /\ pc = "published"
  /\ pc' = "wait"
  /\ UNCHANGED <<late, stop, fetch, write>>

-----------------------------------------------------------------------------
(* The loop of NewPriceFetcher, and Close *)

\* Mutant: stop is not looked at between two runs.
WaitUnstopped ==
  /\ pc = "wait"
  /\ pc' = "start" /\ late' \in BOOLEAN
  /\ UNCHANGED <<stop, fetch, write>>

\* The select between two runs.  After a run that was late the timer has
\* fired as well, and either case may be taken; a run that starts when stop
\* is closed is never late, as FetchOrderData returns from its select.
Wait ==
  /\ pc = "wait"
  /\ \/ stop /\ pc' = "ended" /\ late' = late
     \/ (stop => late) /\ pc' = "start" /\ late' \in IF stop THEN {FALSE} ELSE BOOLEAN
  /\ UNCHANGED <<stop, fetch, write>>

\* close(p.stop) wakes FetchOrderData; Close then waits for the goroutine.
Close ==
  /\ ~stop
  /\ stop' = TRUE
  /\ pc' = IF pc = "blocked" THEN "wait" ELSE pc
  /\ UNCHANGED <<late, fetch, write>>

Ended == pc = "ended" /\ UNCHANGED vars

Work(r)  == NextPage(r) \/ LastPage(r) \/ PageFails(r) \/ Send(r)
RunOnce  == Start \/ Select \/ Aggregate \/ FetchPriceData \/ PriceDataFails
            \/ Market \/ UpdatePrice \/ MarketDone \/ Published

Next == (\E r \in Regions : Work(r)) \/ Finish \/ RunOnce \/ Wait \/ Close \/ Ended

Spec == Init /\ [][Next]_vars

\* Every request is answered or times out, and after some time none fails.
Failure  == PriceDataFails \/ \E r \in Regions : PageFails(r)
FairSpec == /\ Spec
            /\ \A r \in Regions : WF_vars(Work(r))
            /\ WF_vars(Finish) /\ WF_vars(RunOnce) /\ WF_vars(Wait)
            /\ <>[][~Failure]_vars

-----------------------------------------------------------------------------
\* The map of orders is read without its lock only when no worker is left
\* that writes to it.
AggregatesAlone == pc = "aggregate" => \A r \in Regions : Returned(r)

\* Prices that rest on a part of the orders are never stored, although a
\* worker that failed counts as one that has finished: the error is received
\* before finished is closed - unless it came before the select.
AllOrdersOrNone ==
  [][\A k \in DOMAIN stored : stored'[k] # stored[k] /\ stored'[k] = "some" => early]_vars

\* Failures do not end the refreshing of prices.
RefreshedAgain == []<>(pc = "published" \/ stop)

\* Close returns, whatever the fetcher is doing.
CloseReturns == stop ~> pc = "ended"
=============================================================================
