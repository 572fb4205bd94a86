----------------------------- MODULE PriceProofs -----------------------------
(***************************************************************************)
(* Theorems about the prices, for any types.  PriceMerge, for any volumes: *)
(* in whatever order the loops of runOnce come to the types, each market   *)
(* ends up with the price that the reference chooses; the invariant says   *)
(* for each type what its price is on the way there.  PriceFetcher, for    *)
(* any regions, pages and markets: no worker writes to the orders while    *)
(* they are aggregated, and a part of the orders is never stored, unless   *)
(* its error came before the select.                                       *)
(***************************************************************************)
EXTENDS PriceMerge, PriceFetcher, TLAPS

Ordered == DOMAIN aggregates["universe"]

\* Both markets have aggregates of the same types.
AggregatesOK ==
  \A m \in RegionNames :
    /\ DOMAIN aggregates[m] = Ordered
    /\ \A t \in Ordered : aggregates[m][t] = Orders(Volume(m, t))

LoopOK ==
  /\ loop = "ccp" => left \subseteq ccp
  /\ loop = "universe" => region # "done" /\ left \subseteq Ordered \cup ccp
  /\ region = "done" => left = {}

\* The types that the loop over CCP's prices, or that over the universe's, has
\* still to come to in a market.
CCPAhead(m) ==
  IF region = m /\ loop = "ccp" THEN left
  ELSE IF m = "jita" /\ region = "universe" THEN ccp
  ELSE {}

UniverseAhead(m) ==
  IF region = m /\ loop = "universe" THEN left
  ELSE IF region = m \/ (m = "jita" /\ region = "universe") THEN TypeIDs
  ELSE {}

WithCCP(m, t) ==
  IF t \in ccp /\ Volume(m, t) < 10 THEN CCPPrice ELSE Orders(Volume(m, t))

Price(m, t) ==
  IF t \in CCPAhead(m) THEN Orders(Volume(m, t))
  ELSE IF t \in UniverseAhead(m) THEN WithCCP(m, t)
  ELSE Chosen(m, t)

MapsOK ==
  \A m \in RegionNames :
    /\ DOMAIN priceMap[m] = Ordered \cup (ccp \ CCPAhead(m))
    /\ \A t \in DOMAIN priceMap[m] : priceMap[m][t] = Price(m, t)

MergeInv == MergeTypeOK /\ AggregatesOK /\ LoopOK /\ MapsOK

-----------------------------------------------------------------------------
(* Prices and volumes.                                                       *)

\* The reference depends on what the merge does not change.
LEMMA SameReference ==
  ASSUME UNCHANGED <<aggregates, ccp>>
  PROVE  /\ Ordered' = Ordered
         /\ \A m, t : /\ Volume(m, t)' = Volume(m, t)
                      /\ Enough(t)' = Enough(t)
                      /\ WithCCP(m, t)' = WithCCP(m, t)
                      /\ Chosen(m, t)' = Chosen(m, t)
<1>1. aggregates' = aggregates /\ ccp' = ccp
  OBVIOUS
<1>2. \A m, t : Volume(m, t)' = Volume(m, t)
  BY <1>1 DEF Volume
<1>3. \A t : Enough(t)' = Enough(t)
  BY <1>1 DEF Enough
<1>4. \A m, t : WithCCP(m, t)' = WithCCP(m, t)
  BY <1>1, <1>2 DEF WithCCP
<1>5. \A m, t : Chosen(m, t)' = Chosen(m, t)
  BY <1>1, <1>2, <1>3 DEF Chosen
<1> QED
  BY <1>1, <1>2, <1>3, <1>4, <1>5 DEF Ordered

LEMMA AggregatesStay ==
  ASSUME AggregatesOK, UNCHANGED <<aggregates, ccp>>
  PROVE  AggregatesOK'
BY SameReference DEF AggregatesOK

LEMMA VolumeType ==
  ASSUME MergeTypeOK, NEW m \in RegionNames, NEW t
  PROVE  Volume(m, t) \in Volumes /\ Volume(m, t) \in Nat
<1>1. PICK types \in SUBSET TypeIDs : aggregates[m] \in [types -> Prices]
  BY DEF MergeTypeOK, PriceMaps
<1>2. CASE t \in DOMAIN aggregates[m]
  BY <1>1, <1>2, VolumesAssumption DEF Volume, Prices
<1>3. CASE t \notin DOMAIN aggregates[m]
  BY <1>3, VolumesAssumption DEF Volume
<1> QED
  BY <1>2, <1>3

LEMMA PriceTypes ==
  ASSUME MergeTypeOK, NEW m \in RegionNames, NEW t
  PROVE  /\ Orders(Volume(m, t)) \in Prices
         /\ CCPPrice \in Prices
         /\ [source |-> "orders_universe", volume |-> Volume("universe", t)] \in Prices
         /\ WithCCP(m, t) \in Prices
         /\ Chosen(m, t) \in Prices
<1>1. Volume(m, t) \in Volumes /\ Volume("universe", t) \in Volumes
  BY VolumeType DEF RegionNames
<1>2. Orders(Volume(m, t)) \in Prices /\ CCPPrice \in Prices
  BY <1>1, VolumesAssumption DEF Orders, CCPPrice, Prices, Sources
<1>3. [source |-> "orders_universe", volume |-> Volume("universe", t)] \in Prices
  BY <1>1 DEF Prices, Sources
<1> QED
  BY <1>2, <1>3 DEF WithCCP, Chosen

\* In the universe there is no other source of orders: with CCP's price it is what
\* the reference chooses.
LEMMA ChosenInUniverse ==
  ASSUME MergeTypeOK, NEW t
  PROVE  WithCCP("universe", t) = Chosen("universe", t)
<1>1. Volume("universe", t) \in Nat
  BY VolumeType DEF RegionNames
<1> QED
  BY <1>1 DEF WithCCP, Chosen, Enough

-----------------------------------------------------------------------------
(* A price is set.                                                           *)

LEMMA SetPrice ==
  ASSUME MergeTypeOK, NEW m \in RegionNames, NEW t \in TypeIDs, NEW p \in Prices, priceMap' = Set(m, t, p)
  PROVE  /\ priceMap' \in [RegionNames -> PriceMaps]
         /\ DOMAIN priceMap'[m] = DOMAIN priceMap[m] \cup {t}
         /\ priceMap'[m][t] = p
         /\ \A x \in DOMAIN priceMap[m] : x # t => priceMap'[m][x] = priceMap[m][x]
         /\ \A k \in RegionNames : k # m => priceMap'[k] = priceMap[k]
<1>1. PICK types \in SUBSET TypeIDs : priceMap[m] \in [types -> Prices]
  BY DEF MergeTypeOK, PriceMaps
<1> DEFINE new == [x \in DOMAIN priceMap[m] \cup {t} |-> IF x = t THEN p ELSE priceMap[m][x]]
<1>2. priceMap' = [priceMap EXCEPT ![m] = new]
  BY DEF Set
<1>3. new \in [types \cup {t} -> Prices] /\ types \cup {t} \in SUBSET TypeIDs
  BY <1>1
<1>4. new \in PriceMaps
  <2> HIDE DEF new
  <2> QED
    BY <1>3 DEF PriceMaps
<1>5. priceMap' \in [RegionNames -> PriceMaps] /\ priceMap'[m] = new
      /\ \A k \in RegionNames : k # m => priceMap'[k] = priceMap[k]
  <2> HIDE DEF new
  <2> QED
    BY <1>2, <1>4 DEF MergeTypeOK
<1> QED
  BY <1>5

\* A loop comes to a type t of its market: what it makes of the map.
LEMMA MapsStep ==
  ASSUME MergeInv, NEW m \in RegionNames, NEW t \in TypeIDs, NEW p \in Prices,
         UNCHANGED <<aggregates, ccp>>,
         \/ priceMap' = Set(m, t, p)
         \/ priceMap' = priceMap /\ t \in DOMAIN priceMap[m] /\ priceMap[m][t] = p,
         \A k \in RegionNames : /\ CCPAhead(k) \ {t} = CCPAhead(k)' \ {t}
                                /\ UniverseAhead(k) \ {t} = UniverseAhead(k)' \ {t}
                                /\ k # m => /\ CCPAhead(k)' = CCPAhead(k)
                                            /\ UniverseAhead(k)' = UniverseAhead(k),
         t \in (Ordered \cup ccp) \ CCPAhead(m)',
         p = Price(m, t)'
  PROVE  priceMap' \in [RegionNames -> PriceMaps] /\ MapsOK'
<1>1. /\ priceMap' \in [RegionNames -> PriceMaps]
      /\ DOMAIN priceMap'[m] = DOMAIN priceMap[m] \cup {t}
      /\ priceMap'[m][t] = p
      /\ \A x \in DOMAIN priceMap[m] : x # t => priceMap'[m][x] = priceMap[m][x]
      /\ \A k \in RegionNames : k # m => priceMap'[k] = priceMap[k]
  <2>1. CASE priceMap' = Set(m, t, p)
    BY <2>1, SetPrice DEF MergeInv
  <2>2. CASE priceMap' = priceMap /\ t \in DOMAIN priceMap[m] /\ priceMap[m][t] = p
    BY <2>2 DEF MergeInv, MergeTypeOK
  <2> QED
    BY <2>1, <2>2
<1>2. \A k \in RegionNames : \A x : (x # t \/ k # m) => Price(k, x)' = Price(k, x)
  <2> SUFFICES ASSUME NEW k \in RegionNames, NEW x, x # t \/ k # m
               PROVE  Price(k, x)' = Price(k, x)
    OBVIOUS
  <2>1. x \in CCPAhead(k)' <=> x \in CCPAhead(k)
    OBVIOUS
  <2>2. x \in UniverseAhead(k)' <=> x \in UniverseAhead(k)
    OBVIOUS
  <2> QED
    BY <2>1, <2>2, SameReference DEF Price
<1>3. \A k \in RegionNames : k # m =>
        /\ DOMAIN priceMap'[k] = Ordered' \cup (ccp' \ CCPAhead(k)')
        /\ \A x \in DOMAIN priceMap'[k] : priceMap'[k][x] = Price(k, x)'
  BY <1>1, <1>2, SameReference DEF MergeInv, MapsOK
<1>4. DOMAIN priceMap'[m] = Ordered' \cup (ccp' \ CCPAhead(m)')
  BY <1>1, SameReference DEF MergeInv, MapsOK
<1>5. \A x \in DOMAIN priceMap'[m] : priceMap'[m][x] = Price(m, x)'
  BY <1>1, <1>2 DEF MergeInv, MapsOK
<1> QED
  BY <1>1, <1>3, <1>4, <1>5 DEF MapsOK

-----------------------------------------------------------------------------
(* The invariant.                                                            *)

LEMMA MergeInitInv == MergeInit => MergeInv
<1> SUFFICES ASSUME MergeInit  PROVE MergeInv
  OBVIOUS
<1>1. PICK types \in SUBSET TypeIDs : \E universe, jita \in [types -> Volumes] :
        aggregates = Aggregated(universe, jita)
  BY DEF MergeInit
<1>2. PICK universe \in [types -> Volumes], jita \in [types -> Volumes] :
        aggregates = Aggregated(universe, jita)
  BY <1>1
<1>3. ASSUME NEW m \in RegionNames
      PROVE  /\ aggregates[m] \in PriceMaps
             /\ DOMAIN aggregates[m] = types
             /\ \A t \in types : aggregates[m][t] = Orders(Volume(m, t))
  <2> DEFINE volumes == IF m = "jita" THEN jita ELSE universe
  <2>1. volumes \in [types -> Volumes]
    OBVIOUS
  <2>2. aggregates[m] = [t \in types |-> Orders(volumes[t])]
    BY <1>2, <2>1 DEF Aggregated
  <2> HIDE DEF volumes
  <2>3. aggregates[m] \in [types -> Prices]
    BY <2>1, <2>2 DEF Orders, Prices, Sources
  <2>4. aggregates[m] \in PriceMaps
    BY <2>3 DEF PriceMaps
  <2>5. \A t \in types : aggregates[m][t] = Orders(Volume(m, t))
    BY <2>2 DEF Volume, Orders
  <2> QED
    BY <2>2, <2>4, <2>5
<1>4. MergeTypeOK
  <2>1. aggregates \in [RegionNames -> PriceMaps]
    BY <1>2, <1>3 DEF Aggregated
  <2> QED
    BY <2>1 DEF MergeInit, MergeTypeOK, RegionNames
<1>5. AggregatesOK
  BY <1>3 DEF AggregatesOK, Ordered, RegionNames
<1>6. LoopOK
  BY DEF MergeInit, LoopOK
<1>7. MapsOK
  <2>1. \A m \in RegionNames : CCPAhead(m) = ccp
    BY DEF MergeInit, CCPAhead, RegionNames
  <2>2. \A m \in RegionNames, t \in Ordered : Price(m, t) = Orders(Volume(m, t))
    <3>1. \A m \in RegionNames : UniverseAhead(m) = TypeIDs
      BY DEF MergeInit, UniverseAhead, RegionNames
    <3>2. Ordered \subseteq TypeIDs
      BY <1>2 DEF Aggregated, Ordered, RegionNames
    <3> QED
      BY <2>1, <3>1, <3>2 DEF Price, WithCCP
  <2> QED
    BY <1>5, <2>1, <2>2 DEF MergeInit, MapsOK, AggregatesOK
<1> QED
  BY <1>4, <1>5, <1>6, <1>7 DEF MergeInv

LEMMA MergeCCPInv ==
  ASSUME MergeInv, NEW t \in TypeIDs, MergeCCP(t)
  PROVE  MergeInv'
<1> DEFINE m == region
           p == WithCCP(m, t)
<1>1. /\ m \in RegionNames /\ loop = "ccp" /\ t \in left /\ t \in ccp /\ left' = left \ {t}
      /\ UNCHANGED <<aggregates, ccp>> /\ region' = region /\ loop' = loop
  BY DEF MergeCCP, MergeInv, MergeTypeOK, LoopOK
<1>2. t \in CCPAhead(m) /\ CCPAhead(m)' = CCPAhead(m) \ {t} /\ UniverseAhead(m) = TypeIDs
      /\ UniverseAhead(m)' = TypeIDs
  BY <1>1 DEF CCPAhead, UniverseAhead
<1>3. \A k \in RegionNames : k # m => /\ CCPAhead(k)' = CCPAhead(k)
                                      /\ UniverseAhead(k)' = UniverseAhead(k)
  BY <1>1 DEF CCPAhead, UniverseAhead
<1>4. t \in DOMAIN priceMap[m] <=> t \in Ordered
  BY <1>1, <1>2 DEF MergeInv, MapsOK
<1>5. t \in Ordered => priceMap[m][t] = Orders(Volume(m, t))
  BY <1>1, <1>2, <1>4 DEF MergeInv, MapsOK, Price
<1>6. t \notin Ordered => Volume(m, t) = 0
  BY <1>1 DEF Volume, MergeInv, AggregatesOK
<1>7. p \in Prices /\ Volume(m, t) \in Nat
  BY <1>1, PriceTypes, VolumeType DEF MergeInv
<1>8. \/ priceMap' = Set(m, t, p)
      \/ priceMap' = priceMap /\ t \in DOMAIN priceMap[m] /\ priceMap[m][t] = p
  <2>1. CASE t \notin Ordered
    BY <1>1, <1>4, <1>6, <2>1 DEF MergeCCP, WithCCP
  <2>2. CASE t \in Ordered
    <3>1. priceMap[m][t].volume = Volume(m, t)
      BY <1>5, <2>2 DEF Orders
    <3> QED
      BY <1>1, <1>4, <1>5, <1>7, <2>2, <3>1 DEF MergeCCP, WithCCP
  <2> QED
    BY <2>1, <2>2
<1>9. p = Price(m, t)'
  <2>1. p = WithCCP(m, t)'
    BY <1>1, SameReference
  <2>2. Price(m, t)' = WithCCP(m, t)'
    BY <1>1, <1>2 DEF Price
  <2> QED
    BY <2>1, <2>2
<1>10. priceMap' \in [RegionNames -> PriceMaps] /\ MapsOK'
  <2> HIDE DEF p
  <2> QED
    BY <1>1, <1>2, <1>3, <1>7, <1>8, <1>9, MapsStep
<1>11. MergeTypeOK'
  BY <1>1, <1>10 DEF MergeInv, MergeTypeOK
<1>12. LoopOK'
  BY <1>1 DEF MergeInv, LoopOK
<1> QED
  BY <1>1, <1>10, <1>11, <1>12, AggregatesStay DEF MergeInv

LEMMA MergeUniverseInv ==
  ASSUME MergeInv, NEW t \in TypeIDs, MergeUniverse(t)
  PROVE  MergeInv'
<1> DEFINE m == region
           p == Chosen(m, t)
<1>1. /\ m \in RegionNames /\ loop = "universe" /\ t \in left /\ t \in Ordered \cup ccp
      /\ left' = left \ {t}
      /\ UNCHANGED <<aggregates, ccp>> /\ region' = region /\ loop' = loop
  BY DEF MergeUniverse, MergeInv, MergeTypeOK, LoopOK
<1>2. /\ CCPAhead(m) = {} /\ CCPAhead(m)' = {} /\ t \in UniverseAhead(m)
      /\ UniverseAhead(m)' = UniverseAhead(m) \ {t}
  BY <1>1 DEF CCPAhead, UniverseAhead
<1>3. \A k \in RegionNames : k # m => /\ CCPAhead(k)' = CCPAhead(k)
                                      /\ UniverseAhead(k)' = UniverseAhead(k)
  BY <1>1 DEF CCPAhead, UniverseAhead
<1>4. t \in DOMAIN priceMap[m] /\ priceMap[m][t] = WithCCP(m, t)
  BY <1>1, <1>2 DEF MergeInv, MapsOK, Price
<1>5. t \in DOMAIN priceMap["universe"] /\ priceMap["universe"][t] = Chosen("universe", t)
  <2>1. CASE m = "universe"
    BY <1>4, <2>1, ChosenInUniverse DEF MergeInv
  <2>2. CASE m = "jita"
    <3>1. CCPAhead("universe") = {} /\ UniverseAhead("universe") = {}
      BY <2>2 DEF CCPAhead, UniverseAhead
    <3> QED
      BY <1>1, <3>1 DEF MergeInv, MapsOK, Price, RegionNames
  <2> QED
    BY <1>1, <2>1, <2>2 DEF RegionNames
<1>6. p \in Prices /\ Volume(m, t) \in Nat /\ Volume("universe", t) \in Nat
  BY <1>1, PriceTypes, VolumeType DEF MergeInv, RegionNames
<1>7. \/ priceMap' = Set(m, t, p)
      \/ priceMap' = priceMap /\ t \in DOMAIN priceMap[m] /\ priceMap[m][t] = p
  <2> DEFINE low  == priceMap[m][t].volume < 2
             sold == priceMap["universe"][t].volume >= 2
             other == [priceMap["universe"][t] EXCEPT !.source = "orders_universe"]
  <2>1. priceMap' = IF low /\ sold THEN Set(m, t, other) ELSE priceMap
    BY <1>1, <1>5 DEF MergeUniverse
  <2>2. low <=> Volume(m, t) < Enough(t)
    BY <1>4, <1>6 DEF WithCCP, Enough, CCPPrice, Orders
  <2>3. /\ sold <=> Volume("universe", t) >= Enough(t)
        /\ sold => priceMap["universe"][t] = Orders(Volume("universe", t))
    BY <1>5, <1>6 DEF Chosen, Enough, CCPPrice, Orders
  <2>4. sold => other = [source |-> "orders_universe", volume |-> Volume("universe", t)]
    BY <2>3 DEF Orders
  <2>5. CASE m = "universe"
    <3>1. ~(low /\ sold)
      BY <1>6, <2>2, <2>3, <2>5 DEF Enough
    <3>2. priceMap' = priceMap
      BY <2>1, <3>1
    <3> QED
      BY <1>4, <1>5, <2>5, <3>2
  <2>6. CASE m = "jita"
    <3>1. CASE low /\ sold
      <4>1. p = other
        BY <1>6, <2>2, <2>3, <2>4, <2>6, <3>1 DEF Chosen, Enough
      <4> QED
        BY <2>1, <3>1, <4>1
    <3>2. CASE ~(low /\ sold)
      <4>1. p = WithCCP(m, t)
        BY <1>6, <2>2, <2>3, <2>6, <3>2 DEF Chosen, WithCCP, Enough
      <4> QED
        BY <1>4, <2>1, <3>2, <4>1
    <3> QED
      BY <3>1, <3>2
  <2> QED
    BY <1>1, <2>5, <2>6 DEF RegionNames
<1>8. p = Price(m, t)'
  <2>1. p = Chosen(m, t)'
    BY <1>1, SameReference
  <2>2. Price(m, t)' = Chosen(m, t)'
    BY <1>1, <1>2 DEF Price
  <2> QED
    BY <2>1, <2>2
<1>9. priceMap' \in [RegionNames -> PriceMaps] /\ MapsOK'
  <2> HIDE DEF p
  <2> QED
    BY <1>1, <1>2, <1>3, <1>6, <1>7, <1>8, MapsStep
<1>10. MergeTypeOK'
  BY <1>1, <1>9 DEF MergeInv, MergeTypeOK
<1>11. LoopOK'
  BY <1>1, SameReference DEF MergeInv, LoopOK, RegionNames
<1> QED
  BY <1>1, <1>9, <1>10, <1>11, AggregatesStay DEF MergeInv

\* At the end of a loop no price is what it was expected to become only later.
LEMMA NextLoopInv == MergeInv /\ NextLoop => MergeInv'
<1> SUFFICES ASSUME MergeInv, NextLoop  PROVE MergeInv'
  OBVIOUS
<1>1. /\ left = {} /\ region \in RegionNames /\ UNCHANGED <<aggregates, ccp, priceMap>>
      /\ loop \in {"ccp", "universe"}
  BY DEF NextLoop, MergeInv, MergeTypeOK
<1>2. \A m \in RegionNames : CCPAhead(m)' = CCPAhead(m)
  BY <1>1 DEF NextLoop, CCPAhead, RegionNames
<1>3. loop = "ccp" => left' = Ordered \cup ccp
  <2> SUFFICES ASSUME loop = "ccp"  PROVE left' = Ordered \cup ccp
    OBVIOUS
  <2>1. CCPAhead(region) = {} /\ left' = DOMAIN priceMap[region]
    BY <1>1 DEF NextLoop, CCPAhead
  <2> QED
    BY <1>1, <2>1 DEF MergeInv, MapsOK
<1>4. Ordered \subseteq TypeIDs /\ ccp \subseteq TypeIDs
  BY DEF MergeInv, MergeTypeOK, PriceMaps, Ordered, RegionNames
<1>5. \A m \in RegionNames, t \in Ordered \cup ccp :
        t \in UniverseAhead(m)' <=> t \in UniverseAhead(m)
  BY <1>1, <1>3, <1>4 DEF NextLoop, UniverseAhead, RegionNames
<1>6. MapsOK'
  <2>1. \A m \in RegionNames, t \in Ordered \cup ccp : Price(m, t)' = Price(m, t)
    BY <1>1, <1>2, <1>5, SameReference DEF Price
  <2>2. \A m \in RegionNames : DOMAIN priceMap[m] \subseteq Ordered \cup ccp
    BY DEF MergeInv, MapsOK
  <2> QED
    BY <1>1, <1>2, <2>1, <2>2, SameReference DEF MergeInv, MapsOK
<1>7. MergeTypeOK'
  BY <1>1, <1>3, <1>4 DEF NextLoop, MergeInv, MergeTypeOK, RegionNames
<1>8. LoopOK'
  <2>1. Ordered' = Ordered /\ ccp' = ccp
    BY <1>1, SameReference
  <2>2. CASE loop = "ccp"
    <3>1. loop' = "universe" /\ region' = region /\ region # "done" /\ left' = Ordered \cup ccp
      BY <1>1, <1>3, <2>2 DEF NextLoop
    <3> QED
      BY <2>1, <3>1 DEF LoopOK
  <2>3. CASE loop = "universe"
    <3>1. loop' = "ccp" /\ left' \subseteq ccp /\ (region' = "done" => left' = {})
      BY <1>1, <2>3 DEF NextLoop, RegionNames
    <3> QED
      BY <2>1, <3>1 DEF LoopOK
  <2> QED
    BY <1>1, <2>2, <2>3
<1> QED
  BY <1>1, <1>6, <1>7, <1>8, AggregatesStay DEF MergeInv

LEMMA StutterInv == MergeInv /\ UNCHANGED mergeVars => MergeInv'
<1> SUFFICES ASSUME MergeInv, UNCHANGED mergeVars  PROVE MergeInv'
  OBVIOUS
<1>1. UNCHANGED <<aggregates, ccp, priceMap, region, loop, left>>
  BY DEF mergeVars
<1>2. \A m, t : Price(m, t)' = Price(m, t) /\ CCPAhead(m)' = CCPAhead(m)
  BY <1>1, SameReference DEF Price, CCPAhead, UniverseAhead
<1>3. MapsOK'
  BY <1>1, <1>2, SameReference DEF MergeInv, MapsOK
<1> QED
  BY <1>1, <1>3, AggregatesStay DEF MergeInv, MergeTypeOK, LoopOK, Ordered

LEMMA InvNext == MergeInv /\ [MergeNext]_mergeVars => MergeInv'
BY MergeCCPInv, MergeUniverseInv, NextLoopInv, StutterInv DEF MergeNext, Done

LEMMA MergeInvariance == MergeSpec => []MergeInv
BY MergeInitInv, InvNext, PTL DEF MergeSpec

-----------------------------------------------------------------------------
(* Theorems about the merge.                                                 *)

\* Every reachable state is well typed.
THEOREM MergeTypeCorrect == MergeSpec => []MergeTypeOK
<1>1. MergeInv => MergeTypeOK
  BY DEF MergeInv
<1> QED
  BY <1>1, MergeInvariance, PTL

\* In whatever order the maps are iterated, each market has a price for every type
\* with an order or a price of CCP, and it is the one that the reference chooses.
THEOREM MergeIsChoice == MergeSpec => []MergedAsChosen
<1>1. MergeInv => MergedAsChosen
  <2> SUFFICES ASSUME MergeInv, region = "done", NEW m \in RegionNames
               PROVE  /\ DOMAIN priceMap[m] = DOMAIN aggregates["universe"] \cup ccp
                      /\ \A t \in DOMAIN priceMap[m] : priceMap[m][t] = Chosen(m, t)
    BY DEF MergedAsChosen
  <2>1. CCPAhead(m) = {} /\ UniverseAhead(m) = {}
    BY DEF CCPAhead, UniverseAhead, RegionNames
  <2> QED
    BY <2>1 DEF MergeInv, MapsOK, Price, Ordered
<1> QED
  BY <1>1, MergeInvariance, PTL

\* A price that jita takes from the universe is the one the universe keeps.
THEOREM TakenIsSettled == MergeSpec => []UniverseSettled
<1>1. MergeInv => UniverseSettled
  <2> SUFFICES ASSUME MergeInv, NEW t \in DOMAIN priceMap["jita"],
                      priceMap["jita"][t].source = "orders_universe"
               PROVE  /\ priceMap["universe"][t].source = "orders"
                      /\ priceMap["universe"][t].volume = priceMap["jita"][t].volume
    BY DEF UniverseSettled
  <2>1. "jita" \in RegionNames /\ "universe" \in RegionNames
    BY DEF RegionNames
  <2>2. priceMap["jita"][t] = Price("jita", t) /\ t \in Ordered \cup ccp
    BY <2>1 DEF MergeInv, MapsOK
  <2>3. Volume("universe", t) \in Nat /\ Volume("jita", t) \in Nat
    BY <2>1, VolumeType DEF MergeInv
  <2>4. /\ Price("jita", t) = Chosen("jita", t) /\ t \notin UniverseAhead("jita")
        /\ priceMap["jita"][t].volume = Volume("universe", t)
        /\ Volume("universe", t) >= Enough(t)
    BY <2>2, <2>3 DEF Price, WithCCP, Chosen, Orders, CCPPrice
  <2>5. region # "universe"
    <3>1. t \in TypeIDs
      BY <2>1, <2>2 DEF MergeInv, MergeTypeOK, PriceMaps, Ordered
    <3> QED
      BY <2>4, <3>1 DEF UniverseAhead
  <2>6. CCPAhead("universe") = {} /\ UniverseAhead("universe") = {}
    BY <2>5 DEF CCPAhead, UniverseAhead
  <2>7. priceMap["universe"][t] = Chosen("universe", t)
    BY <2>1, <2>2, <2>6 DEF MergeInv, MapsOK, Price
  <2>8. Chosen("universe", t) = Orders(Volume("universe", t))
    BY <2>4 DEF Chosen
  <2> QED
    BY <2>4, <2>7, <2>8 DEF Orders
<1> QED
  BY <1>1, MergeInvariance, PTL

-----------------------------------------------------------------------------
(* The fetch.                                                                *)

\* The goroutine is in the part of runOnce that follows FetchOrderData.
Fetched == pc \in {"aggregate", "ccp", "markets", "write", "published"}

\* finished is closed only when all workers returned, and they stay where they
\* are until the next run; only then runOnce goes on.
FinishedOK ==
  /\ finished => \A r \in Regions : Returned(r)
  /\ Fetched => finished

\* A worker that failed leaves FetchOrderData in its select only when the error
\* was not received there.
LostEarly ==
  InFetch \/ Fetched => ((\E r \in Regions : workers[r].pc = "lost") => early)

WriteOK == pc = "write" => market \in Markets

WorkerStates == [pc : {"fetch", "send", "done", "lost"}, page : 1 .. MaxPage + 1]
StoredStates == [Markets \X Types -> {"none", "all", "some"}]

FetchInv == TypeOK /\ FinishedOK /\ LostEarly /\ WriteOK

USE DEF WorkerStates, StoredStates

-----------------------------------------------------------------------------

LEMMA FetchInitInv == Init => FetchInv
<1> SUFFICES ASSUME Init  PROVE FetchInv
  OBVIOUS
<1>1. Spawned \in [Regions -> WorkerStates]
  BY PageAssumption DEF Spawned
<1>2. workers \in [Regions -> WorkerStates]
  BY <1>1 DEF Init
<1>3. stored \in StoredStates
  BY DEF Init
<1>4. TypeOK
  <2>1. late \in BOOLEAN /\ finished \in BOOLEAN /\ early \in BOOLEAN /\ stop \in BOOLEAN
    BY DEF Init
  <2>2. pc = "start" /\ todo = {} /\ market = NoMarket /\ items = {} /\ errors = 0
    BY DEF Init
  <2> QED
    BY <1>2, <1>3, <2>1, <2>2 DEF TypeOK
<1> QED
  BY <1>4 DEF Init, FetchInv, FinishedOK, LostEarly, WriteOK, Fetched, InFetch

\* The workers of the fetch.
LEMMA WorkInv ==
  ASSUME FetchInv, NEW r \in Regions, Work(r)
  PROVE  FetchInv'
<1>1. /\ InFetch /\ ~finished
      /\ workers[r].pc \in {"fetch", "send"} /\ workers[r] \in WorkerStates
  BY DEF Work, NextPage, LastPage, PageFails, Send, FetchInv, FinishedOK, Returned, TypeOK
<1>2. PICK w \in WorkerStates :
        workers' = [workers EXCEPT ![r] = w] /\ (w.pc = "lost" => Send(r))
  <2>1. CASE NextPage(r)
    <3>1. [workers[r] EXCEPT !.page = @ + 1] \in WorkerStates
      BY <1>1, <2>1, PageAssumption DEF NextPage
    <3>2. workers' = [workers EXCEPT ![r] = [workers[r] EXCEPT !.page = @ + 1]]
      BY <2>1 DEF NextPage
    <3> QED
      BY <1>1, <2>1, <3>1, <3>2 DEF NextPage
  <2>2. CASE LastPage(r)
    <3>1. [workers[r] EXCEPT !.pc = "done"] \in WorkerStates
      BY <1>1
    <3> QED
      BY <2>2, <3>1 DEF LastPage
  <2>3. CASE PageFails(r)
    <3>1. [workers[r] EXCEPT !.pc = "send"] \in WorkerStates
      BY <1>1
    <3> QED
      BY <2>3, <3>1 DEF PageFails
  <2>4. CASE Send(r)
    <3>1. [workers[r] EXCEPT !.pc = "lost"] \in WorkerStates
      BY <1>1
    <3> QED
      BY <2>4, <3>1 DEF Send
  <2> QED
    BY <2>1, <2>2, <2>3, <2>4 DEF Work
<1>3. /\ finished' = finished /\ UNCHANGED <<late, stop, write>>
      /\ pc' \in {pc, "wait"} /\ errors' \in 0 .. 1 /\ early' \in BOOLEAN
  <2>1. CASE NextPage(r) \/ LastPage(r) \/ PageFails(r)
    <3>1. UNCHANGED <<pc, late, finished, errors, early, stop, write>>
      BY <2>1 DEF NextPage, LastPage, PageFails
    <3>2. errors' \in 0 .. 1
      BY <3>1 DEF FetchInv, TypeOK
    <3>3. early' \in BOOLEAN
      BY <3>1 DEF FetchInv, TypeOK
    <3> QED
      BY <3>1, <3>2, <3>3
  <2>2. CASE Send(r)
    <3>1. errors \in 0 .. 1 /\ early \in BOOLEAN
      BY DEF FetchInv, TypeOK
    <3>2. pc' \in {pc, "wait"}
      BY <2>2 DEF Send
    <3>3. errors' \in 0 .. 1
      BY <2>2, <3>1 DEF Send
    <3>4. early' \in BOOLEAN
      BY <2>2, <3>1 DEF Send
    <3>5. UNCHANGED <<late, finished, stop, write>>
      BY <2>2 DEF Send
    <3> QED
      BY <3>2, <3>3, <3>4, <3>5
  <2> QED
    BY <2>1, <2>2 DEF Work
<1>4. early => early'
  BY DEF Work, NextPage, LastPage, PageFails, Send
<1>5. TypeOK'
  <2>1. workers' \in [Regions -> WorkerStates]
    BY <1>2 DEF FetchInv, TypeOK
  <2> QED
    BY <1>3, <2>1 DEF FetchInv, TypeOK, write
<1>6. FinishedOK' /\ WriteOK'
  BY <1>1, <1>3 DEF FetchInv, FinishedOK, WriteOK, Fetched, InFetch, write
<1>7. LostEarly'
  <2> SUFFICES ASSUME (InFetch \/ Fetched)', NEW q \in Regions,
                      workers'[q].pc = "lost"
               PROVE  early'
    BY DEF LostEarly
  <2>1. CASE q # r
    BY <1>1, <1>2, <1>4, <2>1 DEF FetchInv, TypeOK, LostEarly
  <2>2. CASE q = r
    BY <1>2, <2>2 DEF Send, FetchInv, TypeOK, InFetch, Fetched
  <2> QED
    BY <2>1, <2>2
<1> QED
  BY <1>5, <1>6, <1>7 DEF FetchInv

LEMMA FinishInv == FetchInv /\ Finish => FetchInv'
BY DEF Finish, FetchInv, TypeOK, FinishedOK, LostEarly, WriteOK,
       Fetched, InFetch, Returned, write

LEMMA StartInv ==
  ASSUME FetchInv, Start
  PROVE  FetchInv'
<1>1. Spawned \in [Regions -> WorkerStates]
  BY PageAssumption DEF Spawned
<1>2. \A r \in Regions : workers'[r].pc # "lost"
  BY DEF Start, Spawned
<1>3. TypeOK'
  <2>1. workers' \in [Regions -> WorkerStates]
    BY <1>1 DEF Start
  <2>2. pc' = "spawned" /\ errors' = 0 /\ UNCHANGED <<late, stop, write>>
    BY DEF Start
  <2>3. finished' \in BOOLEAN /\ early' \in BOOLEAN
    BY DEF Start
  <2> QED
    BY <2>1, <2>2, <2>3 DEF FetchInv, TypeOK, write
<1>4. FinishedOK' /\ LostEarly' /\ WriteOK'
  BY <1>2 DEF Start, FinishedOK, LostEarly, WriteOK, Fetched
<1> QED
  BY <1>3, <1>4 DEF FetchInv

LEMMA SelectInv == FetchInv /\ Select => FetchInv'
BY DEF Select, FetchInv, TypeOK, FinishedOK, LostEarly, WriteOK,
       Fetched, InFetch, Returned, write

\* The rest of runOnce, where FetchOrderData is over.
LEMMA FetchedInv ==
  ASSUME FetchInv, UNCHANGED <<late, stop, fetch>>, Fetched,
         pc' \in {"ccp", "markets", "write", "published", "wait"},
         todo' \subseteq Markets, items' \subseteq Types,
         market' \in Markets \cup {NoMarket},
         pc' = "write" => market' \in Markets,
         stored' \in StoredStates
  PROVE  FetchInv'
BY DEF FetchInv, TypeOK, FinishedOK, LostEarly, WriteOK, Fetched,
       InFetch, Returned, fetch

\* Only UpdatePrice stores, what it stores rests on all orders or an early error.
LEMMA UpdatePriceStores ==
  ASSUME FetchInv, UpdatePrice
  PROVE  /\ stored' \in StoredStates
         /\ \A k \in DOMAIN stored : stored'[k] # stored[k] /\ stored'[k] = "some" => early
<1>1. PICK t \in items : stored' \in {stored, [stored EXCEPT ![<<market, t>>] = Basis]}
  BY DEF UpdatePrice
<1>2. t \in Types /\ market \in Markets /\ stored \in StoredStates
  BY DEF UpdatePrice, FetchInv, TypeOK, WriteOK
<1>3. Basis \in {"all", "some"} /\ (Basis = "some" => early)
  BY DEF Basis, UpdatePrice, FetchInv, LostEarly, Fetched
<1> QED
  BY <1>1, <1>2, <1>3

LEMMA RestInv ==
  ASSUME FetchInv,
         \/ Aggregate \/ FetchPriceData \/ PriceDataFails
         \/ Market \/ UpdatePrice \/ MarketDone \/ Published
  PROVE  FetchInv'
<1>1. CASE Aggregate \/ PriceDataFails \/ Published
  BY <1>1, FetchedInv
     DEF Aggregate, PriceDataFails, Published, Fetched,
         FetchInv, TypeOK, write
<1>2. CASE FetchPriceData
  BY <1>2, FetchedInv DEF FetchPriceData, Fetched, FetchInv, TypeOK
<1>3. CASE Market
  BY <1>3, FetchedInv DEF Market, Fetched, FetchInv, TypeOK
<1>4. CASE UpdatePrice
  <2>1. Fetched /\ pc' = "write" /\ market' = market /\ market \in Markets
    BY <1>4 DEF UpdatePrice, Fetched, FetchInv, WriteOK
  <2>2. todo' \subseteq Markets /\ items' \subseteq Types /\ UNCHANGED <<late, stop, fetch>>
    BY <1>4 DEF UpdatePrice, FetchInv, TypeOK
  <2> QED
    BY <1>4, <2>1, <2>2, UpdatePriceStores, FetchedInv
<1>5. CASE MarketDone
  BY <1>5, FetchedInv DEF MarketDone, Fetched, FetchInv, TypeOK
<1> QED
  BY <1>1, <1>2, <1>3, <1>4, <1>5

LEMMA WaitCloseInv == FetchInv /\ (Wait \/ Close) => FetchInv'
<1> SUFFICES ASSUME FetchInv, Wait \/ Close  PROVE FetchInv'
  OBVIOUS
<1>1. UNCHANGED <<fetch, write>> /\ late' \in BOOLEAN /\ stop' \in BOOLEAN
  BY DEF Wait, Close, FetchInv, TypeOK
<1>2. pc' \in {pc, "wait", "start", "ended"}
  BY DEF Wait, Close
<1>3. TypeOK'
  BY <1>1, <1>2 DEF FetchInv, TypeOK, fetch, write
<1>4. FinishedOK' /\ LostEarly' /\ WriteOK'
  BY <1>1, <1>2
     DEF FetchInv, FinishedOK, LostEarly, WriteOK, Fetched, InFetch,
         Returned, fetch, write
<1> QED
  BY <1>3, <1>4 DEF FetchInv

LEMMA FetchInvNext == FetchInv /\ [Next]_vars => FetchInv'
<1> SUFFICES ASSUME FetchInv, [Next]_vars  PROVE FetchInv'
  OBVIOUS
<1>1. ASSUME NEW r \in Regions, Work(r)  PROVE FetchInv'
  BY <1>1, WorkInv
<1>2. CASE Finish
  BY <1>2, FinishInv
<1>3. CASE RunOnce
  BY <1>3, StartInv, SelectInv, RestInv DEF RunOnce
<1>4. CASE Wait \/ Close
  BY <1>4, WaitCloseInv
<1>5. CASE UNCHANGED vars
  BY <1>5
     DEF vars, fetch, write, FetchInv, TypeOK, FinishedOK, LostEarly, WriteOK, Fetched,
         InFetch, Returned
<1> QED
  BY <1>1, <1>2, <1>3, <1>4, <1>5 DEF Next, Ended

LEMMA FetchInvariance == Spec => []FetchInv
<1>1. Init => FetchInv
  BY FetchInitInv
<1>2. FetchInv /\ [Next]_vars => FetchInv'
  BY FetchInvNext
<1> QED
  BY <1>1, <1>2, PTL DEF Spec

-----------------------------------------------------------------------------
(* Theorems about the fetch.                                                 *)

\* Every reachable state is well typed.
THEOREM FetchTypeCorrect == Spec => []TypeOK
<1>1. FetchInv => TypeOK
  BY DEF FetchInv
<1> QED
  BY <1>1, FetchInvariance, PTL

\* The map of orders, which is read without its lock, has no writer left then,
\* however many regions are fetched and fail.
THEOREM NoWriterLeft == Spec => []AggregatesAlone
<1>1. FetchInv => AggregatesAlone
  BY DEF FetchInv, FinishedOK, Fetched, AggregatesAlone
<1> QED
  BY <1>1, FetchInvariance, PTL

\* No step stores a price that rests on a part of the orders, unless an error
\* came before FetchOrderData was in its select.
THEOREM PartNeverStored == Spec => AllOrdersOrNone
<1>1. FetchInv /\ [Next]_vars
        => [\A k \in DOMAIN stored :
              stored'[k] # stored[k] /\ stored'[k] = "some" => early]_vars
  <2> SUFFICES ASSUME FetchInv, [Next]_vars, NEW k \in DOMAIN stored,
                      stored'[k] # stored[k], stored'[k] = "some"
               PROVE  early
    OBVIOUS
  <2>1. UpdatePrice
    BY DEF Next, Work, NextPage, LastPage, PageFails, Send, Finish, RunOnce, Start, Select,
           Aggregate, FetchPriceData, PriceDataFails, Market, MarketDone, Published, Wait,
           Close, Ended, vars, write
  <2> QED
    BY <2>1, UpdatePriceStores
<1> QED
  BY <1>1, FetchInvariance, PTL DEF Spec, AllOrdersOrNone
=============================================================================
