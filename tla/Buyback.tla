------------------------------- MODULE Buyback -------------------------------
(***************************************************************************)
(* What an appraisal is worth: the price of each of its items and the      *)
(* materials that the corporation would get out of them (appraisal.go,     *)
(* buyback.go).  Quantities are whole numbers, and so is the arithmetic    *)
(* here: prices are in hundredths, an adjustment is a percentage.          *)
(***************************************************************************)
EXTENDS Naturals, Sequences, FiniteSetsExt, SequencesExt

CONSTANTS
  TypeInfo,       \* what the type database says of each type, by name
  Price,          \* market -> type -> what buyers pay for one of it
  Rate,           \* "REFINE", "REPROCESS": the percentage of it that is got
  BaseAdjustment, \* the percentage of the price that is paid, 0 for all of it
  Adjustment      \* the types whose percentage differs, with the difference

Types == DOMAIN TypeInfo

ASSUME TypeAssumption ==
  \A t \in Types :
    /\ TypeInfo[t].kind \in {"buyback", "asteroid", "other"}
    /\ TypeInfo[t].portion \in Nat
    /\ TypeInfo[t].yield \in Nat
    /\ IsFiniteSet(DOMAIN TypeInfo[t].materials)
    /\ \A k \in DOMAIN TypeInfo[t].materials : TypeInfo[t].materials[k].qty \in Nat

ASSUME TypesAssumption == IsFiniteSet(Types)

ASSUME PriceAssumption == \A t \in Types : Price["jita"][TypeInfo[t].base] \in Nat

\* The two rates and the adjustments are numbers of the configuration.
ASSUME RateAssumption ==
  /\ Rate["REFINE"] \in Nat /\ Rate["REPROCESS"] \in Nat
  /\ BaseAdjustment \in Int
  /\ \A t \in DOMAIN Adjustment : Adjustment[t] \in Int

-----------------------------------------------------------------------------
(* Prices.                                                                   *)

\* The price of an ore of a better kind is that of its plain kind and the
\* yield of its adjective; a copy of a blueprint is worth nothing.
GetAdjustedPriceForItem(market, name) ==
  Price[market][TypeInfo[name].base] * (100 + TypeInfo[name].yield)

PricesForItem(market, name, bpc) ==
  IF bpc THEN 0 ELSE GetAdjustedPriceForItem(market, name)

\* The percentage for a type, by the table that buybackAdjustments makes; an
\* item without an adjustment, or with one of 0, counts in full.
EffectiveAdjustment(name) ==
  LET adjusted == IF name \in DOMAIN Adjustment
                  THEN BaseAdjustment + Adjustment[name] ELSE BaseAdjustment
  IN  IF BaseAdjustment = 0 \/ adjusted = 0 THEN 100 ELSE adjusted

BuyTotal(market, name, qty, bpc, adjustment) ==
  qty * adjustment * PricesForItem(market, name, bpc)

\* An item whose name is no type is left without a price.
Priced(market, name, item) ==
  IF name \in Types THEN BuyTotal(market, name, item.qty, item.bpc, 100) ELSE 0

\* The price of a bag of materials.
PricedMaterials(bag) ==
  SumFunction([m \in DOMAIN bag |->
                 BuyTotal("jita", m, bag[m], FALSE, EffectiveAdjustment(m))])

-----------------------------------------------------------------------------
(* Materials: a bag maps the name of a material to its quantity.             *)

None == [m \in {} |-> 0]

Amount(bag, m) == IF m \in DOMAIN bag THEN bag[m] ELSE 0

Added(bag1, bag2) ==
  [m \in DOMAIN bag1 \cup DOMAIN bag2 |-> Amount(bag1, m) + Amount(bag2, m)]

updateBuybackItems(bag, efficiency, m, qty) ==
  Added(bag, [t \in {m} |-> (qty * efficiency) \div 100])

\* The types that can be taken apart, by those of which that is known.
TakenApart(known) ==
  {t \in Types :
     /\ TypeInfo[t].portion # 0
     /\ \/ TypeInfo[t].kind = "buyback"
        \/ \A k \in DOMAIN TypeInfo[t].materials : TypeInfo[t].materials[k].name \in known}

\* All of them.  With any other type the code divides by zero, because a type
\* that is not found has portions of 0, and so do its materials that are not
\* found; or the type is made of itself, and the calls have no end.  (What is
\* not found has the ID 0: Types are those of a dump without such a type, which
\* would be taken apart in its place.)
Divisible ==
  {t \in Types : \A known \in SUBSET Types : TakenApart(known) \subseteq known => t \in known}

\* The bags of several materials as one.
Together(bags) ==
  [m \in UNION {DOMAIN bags[k] : k \in DOMAIN bags} |->
     SumFunction([k \in DOMAIN bags |-> Amount(bags[k], m)])]

\* The materials of so many of a type, at an efficiency.  What is bought is taken
\* as it is; anything else is taken apart, in whole portions, and then its
\* materials are.  Only the rate of the last step counts.
Collect[s \in Divisible \X Nat \X Nat] ==
  LET type    == TypeInfo[s[1]]
      portion == s[2] \div type.portion
      rate    == IF type.kind = "asteroid" THEN Rate["REFINE"] ELSE Rate["REPROCESS"]
  IN  IF type.kind = "buyback"
      THEN updateBuybackItems(None, s[3], s[1], portion)
      ELSE Together([k \in DOMAIN type.materials |->
                       Collect[<<type.materials[k].name,
                                 portion * type.materials[k].qty, rate>>]])

collectBuybackItems(name, qty) == Collect[<<name, qty, 100>>]

\* What is in which bag.
Contents(bags) ==
  UNION {{<<name, m>> : m \in DOMAIN bags[name]} : name \in DOMAIN bags}

\* A variant that applies a rate again, for a check of the properties.
BuybackMapReduced(bags) ==
  FoldSet(LAMBDA c, total : updateBuybackItems(total, Rate["REFINE"], c[2], bags[c[1]][c[2]]),
          None, Contents(bags))

\* The bag of the whole appraisal: the bags of its items, one material after the
\* other.
BuybackMap(bags) ==
  FoldSet(LAMBDA c, total : updateBuybackItems(total, 100, c[2], bags[c[1]][c[2]]),
          None, Contents(bags))
=============================================================================
