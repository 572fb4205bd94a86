------------------------------ MODULE Appraise ------------------------------
(***************************************************************************)
(* From a paste to an appraisal: the loop over the parsers                 *)
(* (NewContextMultiParser of parser.go), and then what StringToAppraisal   *)
(* of appraisal.go does with what they found: the kind, the items with     *)
(* their prices, and the buyback.                                          *)
(*                                                                         *)
(* The parsers are in LineParsers, prices and materials in Buyback.        *)
(***************************************************************************)
EXTENDS LineParsers, Buyback

CONSTANTS
  Pastes,  \* bound: the pastes that are appraised
  Market   \* the market that they are appraised at

ASSUME KnownAssumption == Known = DOMAIN TypeInfo

\* StringsToInput numbers the lines of the text from 0 on; there is at least one.
ASSUME PasteAssumption ==
  \A p \in Pastes : /\ IsFiniteSet(DOMAIN p) /\ 0 \in DOMAIN p
                    /\ DOMAIN p = 0 .. Cardinality(DOMAIN p) - 1

\* ToInt reads what the expressions match, digits without a sign, or a part of
\* a line trimmed of its dashes.
ASSUME QuantityAssumption == \A p \in Pastes : \A i \in DOMAIN p : p[i].qty \in Nat

VARIABLES
  paste,    \* the lines, by number
  pc,       \* "parsing", "parsed", "itemized", "priced", "done", and how it may
            \* end before: "no_lines", or "panic" of the request
  next,     \* the index of the next parser
  left,     \* the lines that no parser took yet
  results,  \* what parsers took and the loop kept
  kind,     \* the parser that took the most lines
  items,    \* the items of the appraisal, by name
  bought,   \* by name, the bag of materials of an item and their price
  offer     \* the bag of the whole appraisal and its price

vars == <<paste, pc, next, left, results, kind, items, bought, offer>>

\* A variant with the fits of EFT after the loot history, for a check of the
\* properties.
ParsersLootFirst ==
  <<"killmail", "loot_history", "eft", "fitting", "pi", "view_contents",
    "wallet", "survey", "contract", "listing", "assets", "industry",
    "cargo_scan", "dscan", "heuristic">>

Parsers ==
  <<"killmail", "eft", "fitting", "loot_history", "pi", "view_contents",
    "wallet", "survey", "contract", "listing", "assets", "industry",
    "cargo_scan", "dscan", "heuristic">>

Parse(parser, in) ==
  CASE parser = "killmail"      -> ParseKillmail(in)
    [] parser = "eft"           -> ParseEFT(in)
    [] parser = "fitting"       -> ParseFitting(in)
    [] parser = "loot_history"  -> ParseLootHistory(in)
    [] parser = "pi"            -> ParsePI(in)
    [] parser = "view_contents" -> ParseViewContents(in)
    [] parser = "wallet"        -> ParseWallet(in)
    [] parser = "survey"        -> ParseSurveyScan(in)
    [] parser = "contract"      -> ParseContract(in)
    [] parser = "listing"       -> ContextListing(in)
    [] parser = "assets"        -> ParseAssets(in)
    [] parser = "industry"      -> ParseIndustry(in)
    [] parser = "cargo_scan"    -> ParseCargoScan(in)
    [] parser = "dscan"         -> ParseDScan(in)
    [] parser = "heuristic"     -> Heuristic(in)

Init ==
  /\ paste \in Pastes
  /\ left = paste
  /\ pc = "parsing" /\ next = 1 /\ results = <<>>
  /\ kind = "" /\ items = <<>> /\ bought = <<>> /\ offer = [bag |-> None, buy |-> 0]

-----------------------------------------------------------------------------
(* The loop over the parsers.                                                *)

Parsing == pc = "parsing" /\ next <= Len(Parsers) /\ left # <<>>

\* A variant that keeps every result, for a check of the properties.
LikedAlways(parsed) == parsed.lines # {}

\* A result is kept when one of its items is a type that the database has.
Liked(parsed) ==
  /\ parsed.lines # {}
  /\ \E item \in parsed.items : HasType(item.name)

Take ==
  /\ Parsing
  /\ LET parsed == Parse(Parsers[next], left)
     IN  /\ Liked(parsed)
         /\ results' = Append(results, [parser |-> Parsers[next],
                                        lines |-> parsed.lines,
                                        items |-> parsed.items])
         /\ left' = parsed.rest
  /\ next' = next + 1
  /\ UNCHANGED <<paste, pc, kind, items, bought, offer>>

\* A result that is not liked is dropped, with the lines that it took.
MoveAhead ==
  /\ Parsing
  /\ LET parsed == Parse(Parsers[next], left)
     IN  ~parsed.panics /\ ~Liked(parsed) /\ left' = parsed.rest
  /\ next' = next + 1
  /\ UNCHANGED <<paste, pc, results, kind, items, bought, offer>>

\* A killmail that ends where a section or the victim should be.
ParserPanics ==
  /\ Parsing
  /\ Parse(Parsers[next], left).panics
  /\ pc' = "panic"
  /\ UNCHANGED <<paste, next, left, results, kind, items, bought, offer>>

-----------------------------------------------------------------------------
(* The rest of StringToAppraisal.                                            *)

filterUnparsed(lines) == Only(lines, {i \in DOMAIN lines : lines[i].form # "blank"})

AllParsed == pc = "parsing" /\ (next > Len(Parsers) \/ left = <<>>)

NoValidLinesFound ==
  /\ AllParsed
  /\ results = <<>>
  /\ left' = filterUnparsed(left)
  /\ pc' = "no_lines"
  /\ UNCHANGED <<paste, next, results, kind, items, bought, offer>>

\* The first of the results with the most lines.
findKind ==
  LET Most(k) == \A j \in DOMAIN results :
                   /\ Cardinality(results[j].lines) <= Cardinality(results[k].lines)
                   /\ j < k => Cardinality(results[j].lines)
                                 < Cardinality(results[k].lines)
  IN  results[CHOOSE k \in DOMAIN results : Most(k)].parser

FindKind ==
  /\ AllParsed
  /\ results # <<>>
  /\ left' = filterUnparsed(left)
  /\ kind' = findKind
  /\ pc' = "parsed"
  /\ UNCHANGED <<paste, next, results, items, bought, offer>>

\* A variant that keeps the largest quantity, for a check of the properties.
MergedLargest(found, bpc) ==
  [name \in {item.name : item \in found} |->
     [qty |-> Max({item.qty : item \in {i \in found : i.name = name}}),
      bpc |-> bpc[name]]]

\* Items of one name become one: their quantities are added, anything else is
\* that of the last one.  bpc says of each name what the last one is.
Merged(found, bpc) ==
  [name \in {item.name : item \in found} |->
     [qty |-> SumFunction([item \in {i \in found : i.name = name} |-> item.qty]),
      bpc |-> bpc[name]]]

\* The items of each result are merged, and then those of all results.
AllMerged(bpc) ==
  LET Of(k)   == Merged(results[k].items, bpc)
      found   == UNION {{[from |-> k, name |-> name, qty |-> Of(k)[name].qty] :
                           name \in DOMAIN Of(k)} : k \in DOMAIN results}
  IN  Merged(found, bpc)

Found == UNION {results[k].items : k \in DOMAIN results}

ItemsOfResult ==
  /\ pc = "parsed"
  /\ \E bpc \in [{item.name : item \in Found} -> BOOLEAN] :
       /\ \A name \in DOMAIN bpc :
            \E item \in Found : item.name = name /\ item.bpc = bpc[name]
       /\ items' = AllMerged(bpc)
  /\ pc' = "itemized"
  /\ UNCHANGED <<paste, next, left, results, kind, bought, offer>>

PriceItems ==
  /\ pc = "itemized"
  /\ items' = [name \in DOMAIN items |->
                 [qty |-> items[name].qty, bpc |-> items[name].bpc,
                  buy |-> Priced(Market, name, items[name])]]
  /\ pc' = "priced"
  /\ UNCHANGED <<paste, next, left, results, kind, bought, offer>>

\* Every item is taken apart, then the materials of all of them are added up.
CalculateBuyback ==
  /\ pc = "priced"
  /\ DOMAIN items \subseteq Divisible
  /\ LET bags   == [name \in DOMAIN items |-> collectBuybackItems(name, items[name].qty)]
         total  == BuybackMap(bags)
         Of(bag) == [bag |-> bag, buy |-> PricedMaterials(bag)]
     IN  /\ bought' = [name \in DOMAIN items |-> Of(bags[name])]
         /\ offer' = Of(total)
  /\ pc' = "done"
  /\ UNCHANGED <<paste, next, left, results, kind, items>>

\* The quantity of an item is divided by portions of 0, as the dump has no type
\* with the ID 0, which an unknown item has.  (A type that is made of
\* itself, of which the type data has none, ends in calls without end instead.)
BuybackPanics ==
  /\ pc = "priced"
  /\ ~(DOMAIN items \subseteq Divisible)
  /\ pc' = "panic"
  /\ UNCHANGED <<paste, next, left, results, kind, items, bought, offer>>

Next ==
  \/ Take \/ MoveAhead \/ ParserPanics
  \/ NoValidLinesFound \/ FindKind
  \/ ItemsOfResult \/ PriceItems \/ CalculateBuyback \/ BuybackPanics

Spec == Init /\ [][Next]_vars

-----------------------------------------------------------------------------
(* Properties.                                                               *)

TakenBy(k) == results[k].lines
Taken      == UNION {TakenBy(k) : k \in DOMAIN results}

\* A line is counted at most once: no two parsers of the list take it, a line
\* that is still left was not taken, and it has the number and the text that
\* it has in the paste (NewContextMultiParser, regexParseLines and the
\* renumbering of Input.Strings).
LineCountedOnce ==
  /\ \A k, j \in DOMAIN results : k # j => TakenBy(k) \cap TakenBy(j) = {}
  /\ Taken \subseteq DOMAIN paste
  /\ \A i \in DOMAIN left : i \in DOMAIN paste /\ left[i] = paste[i] /\ i \notin Taken

\* The forms in which a line alone says what it is about.
Plain == {"name", "qtyName", "nameQty", "assets", "stack", "view", "viewShort",
          "contract", "contractShort", "loot", "pi1", "pi2", "pi3", "wallet2",
          "industry", "dscan", "qtyTab"}

Has(form) == \E i \in DOMAIN paste : paste[i].form = form

\* A plain line about a known type is not lost: when the parsers are through,
\* one of them took it, although the result of a parser that is not liked is
\* dropped with its lines.  The exceptions: a killmail and a survey scan, which
\* drop the rest of the paste, and the headers of fits, which make mere text of
\* other lines.
KnownLineKept ==
  pc = "parsed" \/ pc = "no_lines" =>
    \/ paste[0].form = "date"
    \/ Has("survey")
    \/ Has("fitHeader")
    \/ paste[0].form = "eftHeader" /\ ~HasType(paste[0].name)
    \/ \A i \in DOMAIN paste :
         paste[i].form \in Plain /\ HasType(paste[i].name) => i \in Taken

\* The quantities survive both mergings: the appraisal has one item of each
\* name that was found, with all that the results say of it
\* (parserResultToAppraisalItems, called for the whole and for each part).
QuantitiesKept ==
  pc \in {"itemized", "priced", "done"} =>
    /\ DOMAIN items = {item.name : item \in Found}
    /\ \A name \in DOMAIN items :
         items[name].qty =
           SumFunction([k \in DOMAIN results |->
             SumFunction([item \in {i \in results[k].items : i.name = name} |-> item.qty])])

\* The offer is the sum of the offers that the page shows below each item:
\* materials are rounded down once per item, not again for the total, and the
\* prices of the total are those of the items (calculateBuyback).
BuybackSumsUp ==
  pc = "done" =>
    /\ \A m \in Types :
         Amount(offer.bag, m)
           = SumFunction([name \in DOMAIN items |-> Amount(bought[name].bag, m)])
    /\ offer.buy = SumFunction([name \in DOMAIN items |-> bought[name].buy])

\* Only a paste that also names a type can end a request in a panic, unless it
\* begins as a killmail: nothing but unknown names is refused in good order
\* (the test of foundRealType comes before the division by PortionSize).
PanicNeedsKnownType ==
  pc = "panic" /\ paste[0].form # "date" =>
    \E i \in DOMAIN paste : HasType(paste[i].name) \/ HasType(paste[i].ammo)
=============================================================================
