----------------------------- MODULE PriceMerge -----------------------------
(***************************************************************************)
(* How runOnce of esi/fetcher.go chooses the price of a type in a market   *)
(* among the orders of that market, the orders of the universe and the     *)
(* price that CCP publishes.  The loops change the map that they and the   *)
(* later ones read, and Go's order of iteration over a map is arbitrary:   *)
(* here every order is a behaviour.                                        *)
(*                                                                         *)
(* Of a price there is its source and its Sell.Volume, which is all that   *)
(* the loops look at.                                                      *)
(***************************************************************************)
EXTENDS Naturals

CONSTANTS
  TypeIDs,  \* bound
  Volumes   \* bound: sell volumes of a type's orders, on both sides of 2 and 10

ASSUME VolumesAssumption == Volumes \subseteq Nat /\ 0 \in Volumes

VARIABLES
  aggregates, \* what FetchOrderData returned: market -> type -> price
  ccp,        \* the types that FetchPriceData returned a price for
  priceMap,   \* market -> type -> price, as the loops change it
  region,     \* the market that is being merged, or "done"
  loop,       \* "ccp" or "universe": the inner loop
  left        \* the types that this loop did not come to yet

mergeVars == <<aggregates, ccp, priceMap, region, loop, left>>

RegionNames == {"universe", "jita"}
Sources == {"orders", "orders_universe", "ccp"}
Prices  == [source : Sources, volume : Volumes]

Orders(volume) == [source |-> "orders", volume |-> volume]
CCPPrice       == [source |-> "ccp", volume |-> 0]

\* A market's prices, by type.
PriceMaps == UNION {[types -> Prices] : types \in SUBSET TypeIDs}

MergeTypeOK ==
  /\ aggregates \in [RegionNames -> PriceMaps]
  /\ priceMap \in [RegionNames -> PriceMaps]
  /\ ccp \subseteq TypeIDs
  /\ region \in RegionNames \cup {"done"}
  /\ loop \in {"ccp", "universe"}
  /\ left \subseteq TypeIDs

\* FetchOrderData computes both aggregates of every type that has an order;
\* the stations of Jita have some of the orders.
Aggregated(universe, jita) ==
  [m \in RegionNames |-> [t \in DOMAIN universe |->
                             Orders(IF m = "jita" THEN jita[t] ELSE universe[t])]]

MergeInit ==
  /\ \E types \in SUBSET TypeIDs :
       \E universe, jita \in [types -> Volumes] :
         /\ \A t \in types : jita[t] <= universe[t]
         /\ aggregates = Aggregated(universe, jita)
  /\ ccp \in SUBSET TypeIDs
  /\ priceMap = aggregates
  /\ region = "universe" /\ loop = "ccp" /\ left = ccp

Set(m, t, p) ==
  [priceMap EXCEPT ![m] = [x \in DOMAIN @ \cup {t} |-> IF x = t THEN p ELSE @[x]]]

\* Mutant: the volume that a regional price needs is one less.
MergeCCPBelow9(t) ==
  /\ loop = "ccp" /\ region # "done" /\ t \in left
  /\ priceMap' = IF t \notin DOMAIN priceMap[region] \/ priceMap[region][t].volume < 9
                 THEN Set(region, t, CCPPrice) ELSE priceMap
  /\ left' = left \ {t}
  /\ UNCHANGED <<aggregates, ccp, region, loop>>

\* "Use CCP's price if our regional price is too low"
MergeCCP(t) ==
  /\ loop = "ccp" /\ region # "done" /\ t \in left
  /\ priceMap' = IF t \notin DOMAIN priceMap[region] \/ priceMap[region][t].volume < 10
                 THEN Set(region, t, CCPPrice) ELSE priceMap
  /\ left' = left \ {t}
  /\ UNCHANGED <<aggregates, ccp, region, loop>>

\* Mutant: the universe price is not looked at before it is used.
MergeUniverseAny(t) ==
  /\ loop = "universe" /\ region # "done" /\ t \in left
  /\ LET universe == priceMap["universe"] IN
       priceMap' = IF priceMap[region][t].volume < 2 /\ t \in DOMAIN universe
                   THEN Set(region, t, [universe[t] EXCEPT !.source = "orders_universe"])
                   ELSE priceMap
  /\ left' = left \ {t}
  /\ UNCHANGED <<aggregates, ccp, region, loop>>

\* "Use the universe price if our regional price is too low (override CCP's
\* price)"
MergeUniverse(t) ==
  /\ loop = "universe" /\ region # "done" /\ t \in left
  /\ LET universe == priceMap["universe"] IN
       priceMap' = IF /\ priceMap[region][t].volume < 2
                      /\ t \in DOMAIN universe /\ universe[t].volume >= 2
                   THEN Set(region, t, [universe[t] EXCEPT !.source = "orders_universe"])
                   ELSE priceMap
  /\ left' = left \ {t}
  /\ UNCHANGED <<aggregates, ccp, region, loop>>

\* The second loop of a market, the first one of the next (regionNames has the
\* universe first), or the end.
NextLoop ==
  /\ left = {} /\ region # "done"
  /\ IF loop = "ccp"
     THEN loop' = "universe" /\ region' = region /\ left' = DOMAIN priceMap[region]
     ELSE /\ loop' = "ccp"
          /\ region' = IF region = "universe" THEN "jita" ELSE "done"
          /\ left' = IF region = "universe" THEN ccp ELSE {}
  /\ UNCHANGED <<aggregates, ccp, priceMap>>

Done == region = "done" /\ UNCHANGED mergeVars

MergeNext == (\E t \in TypeIDs : MergeCCP(t) \/ MergeUniverse(t)) \/ NextLoop \/ Done

MergeSpec == MergeInit /\ [][MergeNext]_mergeVars

-----------------------------------------------------------------------------
(* The reference: what a market's price of a type should be. *)

Volume(m, t) == IF t \in DOMAIN aggregates[m] THEN aggregates[m][t].volume ELSE 0

\* How many sales make orders a better source than any other one: 10 where CCP
\* has a price, 2 where it has none.
Enough(t) == IF t \in ccp THEN 10 ELSE 2

Chosen(m, t) ==
  IF Volume(m, t) >= Enough(t) THEN Orders(Volume(m, t))
  ELSE IF m = "jita" /\ Volume("universe", t) >= Enough(t)
       THEN [source |-> "orders_universe", volume |-> Volume("universe", t)]
  ELSE IF t \in ccp THEN CCPPrice
  ELSE Orders(Volume(m, t))

\* Every type that has an order or a price of CCP has a price in each market,
\* and in whatever order the maps are iterated it is the chosen one.
MergedAsChosen ==
  region = "done" =>
    \A m \in RegionNames :
      /\ DOMAIN priceMap[m] = DOMAIN aggregates["universe"] \cup ccp
      /\ \A t \in DOMAIN priceMap[m] : priceMap[m][t] = Chosen(m, t)

\* What jita takes from the universe is the price that the universe ends up
\* with itself, for the universe is merged first and is not changed again.
UniverseSettled ==
  \A t \in DOMAIN priceMap["jita"] :
    priceMap["jita"][t].source = "orders_universe" =>
      /\ priceMap["universe"][t].source = "orders"
      /\ priceMap["universe"][t].volume = priceMap["jita"][t].volume
=============================================================================
