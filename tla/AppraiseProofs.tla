--------------------------- MODULE AppraiseProofs ---------------------------
(***************************************************************************)
(* Theorems about Appraise, for any types, prices and pastes.  Of the      *)
(* lines: none is counted twice, none that says plainly what it is about   *)
(* is lost, and a panic needs a type in the paste.  They rest on what each *)
(* parser may do with the lines that it is given, and on Inv.              *)
(*                                                                         *)
(* Of the numbers: no quantity is lost, and the offer is the sum of what   *)
(* is shown for the items, and holds what is bought.  They rest on         *)
(* OfferInv, and on lemmas about definitions by recursion and about sums,  *)
(* which are inductions in the first order: over the subsets of a finite   *)
(* set, or along a relation of which no set lacks a first element.         *)
(***************************************************************************)
EXTENDS Appraise, FiniteSetTheorems, WellFoundedInduction, SequenceTheorems, TLAPS

\* A parser takes lines that it was given and hands on others of them, as they are.
Orderly(parsed, in) ==
  /\ parsed.lines \subseteq DOMAIN in
  /\ DOMAIN parsed.rest \subseteq DOMAIN in \ parsed.lines
  /\ \A i \in DOMAIN parsed.rest : parsed.rest[i] = in[i]

\* The types that it finds are named in the lines.
Named(parsed, in) ==
  \A item \in parsed.items :
    HasType(item.name) => \E i \in DOMAIN in : item.name \in {in[i].name, in[i].ammo}

\* A line is handed on, or it is taken and a type was found.
Keeps(parsed, in, i) ==
  \/ i \in parsed.lines /\ \E item \in parsed.items : HasType(item.name)
  \/ i \in DOMAIN parsed.rest

-----------------------------------------------------------------------------
(* Which expression reads a line.                                            *)

LEMMA MinIs ==
  ASSUME NEW S \in SUBSET Nat, S # {}
  PROVE  Min(S) \in S /\ \A k \in S : Min(S) <= k
<1>1. PICK m \in S : \A k \in S : ~ (<<k, m>> \in OpToRel(<, Nat))
  BY NatLessThanWellFounded, WFMin
<1>2. \A k \in S : ~(k < m)
  BY <1>1 DEF OpToRel
<1>3. \A k \in S : m <= k
  BY <1>2
<1> QED
  BY <1>3 DEF Min

LEMMA ReaderIs ==
  ASSUME NEW res, Len(res) \in Nat, NEW line
  PROVE  LET reader == Reader(res, line) IN
         /\ reader \in 0 .. Len(res)
         /\ reader > 0 => /\ Matches(res[reader], line)
                          /\ \A k \in 1 .. reader - 1 : ~Matches(res[k], line)
         /\ reader = 0 => \A k \in 1 .. Len(res) : ~Matches(res[k], line)
<1> DEFINE S == {k \in 1 .. Len(res) : Matches(res[k], line)}
<1>1. Reader(res, line) = IF S # {} THEN Min(S) ELSE 0
  BY DEF Reader, SelectInSeq
<1>2. CASE S = {}
  <2>1. Reader(res, line) = 0
    BY <1>1, <1>2
  <2>2. \A k \in 1 .. Len(res) : ~Matches(res[k], line)
    BY <1>2
  <2> HIDE DEF S
  <2> QED
    BY <2>1, <2>2
<1>3. CASE S # {}
  <2>1. S \in SUBSET Nat
    OBVIOUS
  <2>2. Min(S) \in S /\ \A k \in S : Min(S) <= k
    <3> HIDE DEF S
    <3> QED
      BY <1>3, <2>1, MinIs
  <2>3. Reader(res, line) = Min(S)
    BY <1>1, <1>3
  <2>4. Min(S) \in 1 .. Len(res) /\ Matches(res[Min(S)], line)
    BY <2>2
  <2>5. ASSUME NEW k \in 1 .. Min(S) - 1  PROVE ~Matches(res[k], line)
    <3>1. k \in 1 .. Len(res) /\ ~(Min(S) <= k)
      BY <2>4
    <3>2. k \notin S
      BY <2>2, <3>1
    <3> QED
      BY <3>1, <3>2
  <2> HIDE DEF S
  <2> QED
    BY <2>3, <2>4, <2>5
<1> QED
  BY <1>2, <1>3

LEMMA StageIs ==
  ASSUME NEW line
  PROVE  LET stage == ListingStage(line) IN
         /\ stage \in 0 .. 4
         /\ stage > 0 => Knows(ListingStages[stage], line)
         /\ stage = 0 => \A k \in 1 .. 4 : ~Knows(ListingStages[k], line)
<1> DEFINE S == {k \in 1 .. 4 : Knows(ListingStages[k], line)}
<1>1. ListingStage(line) = IF S # {} THEN Min(S) ELSE 0
  BY DEF ListingStage, SelectInSeq, ListingStages
<1>2. CASE S = {}
  <2>1. ListingStage(line) = 0
    BY <1>1, <1>2
  <2> QED
    BY <1>2, <2>1
<1>3. CASE S # {}
  <2>1. S \in SUBSET Nat
    OBVIOUS
  <2>2. Min(S) \in S
    <3> HIDE DEF S
    <3> QED
      BY <1>3, <2>1, MinIs
  <2>3. ListingStage(line) = Min(S)
    BY <1>1, <1>3
  <2> QED
    BY <2>2, <2>3
<1> QED
  BY <1>2, <1>3

-----------------------------------------------------------------------------
(* The parsers of regular expressions.                                       *)

LEMMA ItemsNamed ==
  ASSUME NEW re, NEW i, NEW line, NEW item \in Items(re, i, line), HasType(item.name)
  PROVE  item.name \in {line.name, line.ammo}
BY JunkAssumption DEF Items, Item, Name, HasType

LEMMA RegexOrderly ==
  ASSUME NEW res, Len(res) \in Nat, NEW in
  PROVE  LET parsed == RegexParse(res, in) IN
         /\ Orderly(parsed, in) /\ Named(parsed, in) /\ ~parsed.panics
<1> DEFINE parsed == RegexParse(res, in)
<1>1. Orderly(parsed, in) /\ ~parsed.panics
  BY DEF Orderly, RegexParse, Parsed, Without, Only
<1>2. ASSUME NEW item \in parsed.items, HasType(item.name)
      PROVE  \E i \in DOMAIN in : item.name \in {in[i].name, in[i].ammo}
  <2>1. PICK i \in DOMAIN in : item \in Items(res[Reader(res, in[i])], i, in[i])
    BY <1>2 DEF RegexParse, Parsed
  <2> QED
    BY <1>2, <2>1, ItemsNamed
<1> QED
  BY <1>1, <1>2 DEF Named

\* A line is handed on when no expression matches it.
LEMMA RegexHandsOn ==
  ASSUME NEW res, Len(res) \in Nat, NEW in, NEW i \in DOMAIN in
  PROVE  LET parsed == RegexParse(res, in) IN
         IF \A k \in 1 .. Len(res) : ~Matches(res[k], in[i])
         THEN i \in DOMAIN parsed.rest
         ELSE i \in parsed.lines
BY ReaderIs DEF RegexParse, Parsed, Without, Only

\* A type that an expression captures is found.
LEMMA RegexFinds ==
  ASSUME NEW res, Len(res) \in Nat, NEW in, NEW i \in DOMAIN in, HasType(in[i].name),
         NEW k \in 1 .. Len(res), Matches(res[k], in[i]),
         \A j \in 1 .. k - 1 : ~Matches(res[j], in[i]),
         in[i].form \in Captured[res[k]], res[k] # "wallet"
  PROVE  \E item \in RegexParse(res, in).items : HasType(item.name)
<1>1. Reader(res, in[i]) = k
  BY ReaderIs
<1>2. Items(res[k], i, in[i]) \subseteq RegexParse(res, in).items
  BY <1>1 DEF RegexParse, Parsed
<1>3. \E item \in Items(res[k], i, in[i]) : item.name = in[i].name
  BY DEF Items, Item, Name
<1> QED
  BY <1>2, <1>3

-----------------------------------------------------------------------------
(* The other parsers.                                                        *)

LEMMA NothingOrderly ==
  ASSUME NEW in
  PROVE  Orderly(Nothing(in), in) /\ Named(Nothing(in), in) /\ ~Nothing(in).panics
BY DEF Orderly, Named, Nothing, Parsed

LEMMA SurveyOrderly ==
  ASSUME NEW in
  PROVE  LET parsed == ParseSurveyScan(in) IN
         /\ Orderly(parsed, in) /\ Named(parsed, in) /\ ~parsed.panics
<1> DEFINE scan == RegexParse(<<"survey">>, in)
<1>1. Orderly(scan, in) /\ Named(scan, in) /\ ~scan.panics
  BY RegexOrderly
<1>2. CASE scan.lines = {}
  BY <1>2, NothingOrderly DEF ParseSurveyScan
<1>3. CASE scan.lines # {}
  <2>1. ParseSurveyScan(in) = [scan EXCEPT !.rest = <<>>]
    BY <1>3 DEF ParseSurveyScan
  <2>2. scan = [lines |-> scan.lines, items |-> scan.items, rest |-> scan.rest,
                panics |-> scan.panics]
    BY DEF RegexParse, Parsed
  <2> HIDE DEF scan
  <2>3. LET parsed == ParseSurveyScan(in) IN
        /\ parsed.lines = scan.lines /\ parsed.items = scan.items
        /\ parsed.rest = <<>> /\ parsed.panics = scan.panics
    BY <2>1, <2>2
  <2> QED
    BY <1>1, <2>3 DEF Orderly, Named
<1> QED
  BY <1>2, <1>3

LEMMA ListingOrderly ==
  ASSUME NEW in
  PROVE  LET parsed == ContextListing(in) IN
         /\ Orderly(parsed, in) /\ Named(parsed, in) /\ ~parsed.panics
<1> DEFINE parsed == ContextListing(in)
<1>1. Orderly(parsed, in) /\ ~parsed.panics
  BY DEF Orderly, ContextListing, Parsed, Without, Only
<1>2. ASSUME NEW item \in parsed.items, HasType(item.name)
      PROVE  \E i \in DOMAIN in : item.name \in {in[i].name, in[i].ammo}
  <2>1. PICK i \in DOMAIN in :
               item \in Items(ListingStages[ListingStage(in[i])], i, in[i])
    BY <1>2 DEF ContextListing, Parsed
  <2> QED
    BY <1>2, <2>1, ItemsNamed
<1> QED
  BY <1>1, <1>2 DEF Named

\* A listing takes a line only for a type, which it then finds.
LEMMA ListingKeeps ==
  ASSUME NEW in, NEW i \in DOMAIN in
  PROVE  LET parsed == ContextListing(in) IN
         IF \A k \in 1 .. 4 : ~Knows(ListingStages[k], in[i])
         THEN i \in DOMAIN parsed.rest
         ELSE i \in parsed.lines /\ \E item \in parsed.items : HasType(item.name)
<1> DEFINE parsed == ContextListing(in)
           stage  == ListingStage(in[i])
<1>1. stage \in 0 .. 4 /\ (stage > 0 => Knows(ListingStages[stage], in[i]))
  BY StageIs
<1>2. IF stage > 0 THEN i \in parsed.lines ELSE i \in DOMAIN parsed.rest
  BY <1>1 DEF ContextListing, Parsed, Without, Only
<1>3. ASSUME stage > 0  PROVE \E item \in parsed.items : HasType(item.name)
  <2>1. Items(ListingStages[stage], i, in[i]) \subseteq parsed.items
    BY <1>3 DEF ContextListing, Parsed
  <2>2. ListingStages[stage] # "wallet"
    BY <1>1, <1>3 DEF ListingStages
  <2>3. \E item \in Items(ListingStages[stage], i, in[i]) :
          item.name = Name(ListingStages[stage], in[i])
    BY <2>2 DEF Items, Item
  <2> QED
    BY <1>1, <1>3, <2>1, <2>3 DEF Knows
<1>4. stage = 0 => \A k \in 1 .. 4 : ~Knows(ListingStages[k], in[i])
  BY StageIs
<1>5. stage > 0 => \E k \in 1 .. 4 : Knows(ListingStages[k], in[i])
  BY <1>1
<1> HIDE DEF stage
<1> QED
  BY <1>1, <1>2, <1>3, <1>4, <1>5

LEMMA SpecifiedNames ==
  ASSUME NEW line, NEW item, NEW i,
         item \in HeuristicMethod1(i, line) \cup HeuristicMethod2(i, line)
  PROVE  HasType(item.name) => item.name \in {line.name, line.ammo}
BY JunkAssumption DEF HeuristicMethod1, HeuristicMethod2, Item, PartName, HasType

LEMMA HeuristicOrderly ==
  ASSUME NEW in
  PROVE  LET parsed == Heuristic(in) IN
         /\ Orderly(parsed, in) /\ Named(parsed, in) /\ ~parsed.panics
<1> DEFINE parsed == Heuristic(in)
<1>1. Orderly(parsed, in) /\ ~parsed.panics
  BY DEF Orderly, Heuristic, Parsed, Without, Only
<1>2. ASSUME NEW item \in parsed.items, HasType(item.name)
      PROVE  \E i \in DOMAIN in : item.name \in {in[i].name, in[i].ammo}
  <2>1. PICK i \in DOMAIN in :
               item \in HeuristicMethod1(i, in[i]) \cup HeuristicMethod2(i, in[i])
    BY <1>2 DEF Heuristic, Parsed
  <2> QED
    BY <1>2, <2>1, SpecifiedNames
<1> QED
  BY <1>1, <1>2 DEF Named

\* Fits: some lines are taken without being read, the others are a listing.
LEMMA FittingOrderly ==
  ASSUME NEW in
  PROVE  LET parsed == ParseFitting(in) IN
         /\ Orderly(parsed, in) /\ Named(parsed, in) /\ ~parsed.panics
<1> DEFINE headers == {i \in DOMAIN in : in[i].form = "fitHeader"}
           others  == Without(in, headers)
           listing == ParseListing(others)
<1>1. Orderly(listing, others) /\ Named(listing, others) /\ ~listing.panics
  BY RegexOrderly DEF ParseListing, ListingStages
<1>2. DOMAIN others = DOMAIN in \ headers /\ \A i \in DOMAIN others : others[i] = in[i]
  BY DEF Without, Only
<1>3. CASE headers = {}
  BY <1>3, NothingOrderly DEF ParseFitting
<1>4. CASE headers # {}
  <2>1. ParseFitting(in) = [listing EXCEPT !.lines = listing.lines \cup headers]
    BY <1>4 DEF ParseFitting
  <2>2. listing = [lines |-> listing.lines, items |-> listing.items,
                   rest |-> listing.rest, panics |-> listing.panics]
    BY DEF ParseListing, RegexParse, Parsed
  <2>3. headers \subseteq DOMAIN in
    OBVIOUS
  <2> HIDE DEF listing, others, headers
  <2>4. LET parsed == ParseFitting(in) IN
        /\ parsed.lines = listing.lines \cup headers /\ parsed.items = listing.items
        /\ parsed.rest = listing.rest /\ parsed.panics = listing.panics
    BY <2>1, <2>2
  <2>5. Orderly(ParseFitting(in), in)
    BY <1>1, <1>2, <2>3, <2>4 DEF Orderly
  <2>6. Named(ParseFitting(in), in)
    BY <1>1, <1>2, <2>4 DEF Named
  <2> QED
    BY <1>1, <2>4, <2>5, <2>6
<1> QED
  BY <1>3, <1>4

\* The lines of a paste that no parser took from yet.
Numbered(in) == 0 \in DOMAIN in /\ DOMAIN in = 0 .. Cardinality(DOMAIN in) - 1

LEMMA StringsAre ==
  ASSUME NEW in, Numbered(in)
  PROVE  DOMAIN Strings(in) = DOMAIN in /\ \A i \in DOMAIN in : Strings(in)[i] = in[i]
BY DEF Numbered, Strings

LEMMA EFTOrderly ==
  ASSUME NEW in, Numbered(in)
  PROVE  LET parsed == ParseEFT(in) IN
         /\ Orderly(parsed, in) /\ Named(parsed, in) /\ ~parsed.panics
<1> DEFINE lines   == Strings(in)
           slots   == {i \in DOMAIN lines : lines[i].form = "emptySlot"}
           others  == Without(lines, slots \cup {0})
           listing == ParseListing(others)
<1>1. Orderly(listing, others) /\ Named(listing, others)
  BY RegexOrderly DEF ParseListing, ListingStages
<1>2. DOMAIN lines = DOMAIN in /\ \A i \in DOMAIN in : lines[i] = in[i]
  BY StringsAre
<1>3. /\ DOMAIN others = DOMAIN in \ (slots \cup {0})
      /\ \A i \in DOMAIN others : others[i] = in[i]
  BY <1>2 DEF Without, Only
<1>4. slots \cup {0} \subseteq DOMAIN in
  BY <1>2 DEF Numbered
<1>5. CASE ~(0 \notin DOMAIN lines \/ lines[0].form # "eftHeader")
  <2>1. ParseEFT(in) = Parsed({0} \cup slots \cup listing.lines,
                              {Item(0, 1, lines[0].name, 1, FALSE)} \cup listing.items,
                              listing.rest)
    BY <1>5 DEF ParseEFT
  <2> HIDE DEF listing, others, slots, lines
  <2>2. Orderly(ParseEFT(in), in) /\ ~ParseEFT(in).panics
    BY <1>1, <1>3, <1>4, <2>1 DEF Orderly, Parsed
  <2>3. Named(ParseEFT(in), in)
    <3> SUFFICES ASSUME NEW item \in ParseEFT(in).items, HasType(item.name)
                 PROVE  \E i \in DOMAIN in : item.name \in {in[i].name, in[i].ammo}
      BY DEF Named
    <3>1. CASE item = Item(0, 1, lines[0].name, 1, FALSE)
      <4>1. 0 \in DOMAIN in /\ lines[0] = in[0]
        BY <1>2, <1>4
      <4>2. item.name = in[0].name
        BY <3>1, <4>1 DEF Item
      <4> QED
        BY <4>1, <4>2
    <3>2. CASE item \in listing.items
      BY <1>1, <1>3, <3>2 DEF Named
    <3>3. ParseEFT(in).items = {Item(0, 1, lines[0].name, 1, FALSE)} \cup listing.items
      BY <2>1 DEF Parsed
    <3> QED
      BY <3>1, <3>2, <3>3
  <2> QED
    BY <2>2, <2>3
<1>6. CASE 0 \notin DOMAIN lines \/ lines[0].form # "eftHeader"
  BY <1>6, NothingOrderly DEF ParseEFT
<1> QED
  BY <1>5, <1>6

\* A killmail is taken as a whole or not at all.
LEMMA KillmailOrderly ==
  ASSUME NEW in, Numbered(in)
  PROVE  LET parsed == ParseKillmail(in) IN
         /\ Orderly(parsed, in)
         /\ parsed.rest \in {in, <<>>}
         /\ in[0].form # "date" => parsed = Nothing(in)
<1>1. /\ DOMAIN Strings(in) = DOMAIN in /\ Strings(in)[0] = in[0]
  BY StringsAre DEF Numbered
<1>2. \/ ParseKillmail(in) = Nothing(in)
      \/ ParseKillmail(in) = Panic
      \/ \E found : ParseKillmail(in) = Parsed(DOMAIN Strings(in), found, <<>>)
  <2> DEFINE victim == Body(Strings(in), 2, "victim")
             mail   == Sections(Strings(in))[<<After(Strings(in), 2, victim) + 1,
                                               [destroyed |-> {}, dropped |-> {}]>>]
             whole  == CASE mail.how = "whole" -> Parsed(DOMAIN Strings(in), mail.items, <<>>)
                         [] mail.how = "none"  -> Nothing(in)
                         [] OTHER              -> Panic
             fate   == IF ~Players(Strings(in), victim) THEN Nothing(in) ELSE whole
  <2>1. \/ whole = Nothing(in) \/ whole = Panic
        \/ \E found : whole = Parsed(DOMAIN Strings(in), found, <<>>)
    <3> HIDE DEF mail
    <3> QED
      OBVIOUS
  <2>2. fate \in {Nothing(in), whole}
    <3> HIDE DEF whole
    <3> QED
      OBVIOUS
  <2>3. ParseKillmail(in) \in {Nothing(in), Panic, fate}
    <3>1. ParseKillmail(in) =
            CASE 0 \notin DOMAIN in \/ Strings(in)[0].form # "date" -> Nothing(in)
              [] Cardinality(DOMAIN in) = 1 /\ in[0].form = "date" -> Panic
              [] OTHER -> fate
      BY DEF ParseKillmail
    <3> HIDE DEF fate
    <3> QED
      BY <3>1
  <2> HIDE DEF fate, whole
  <2> QED
    BY <2>1, <2>2, <2>3
<1>3. in[0].form # "date" => ParseKillmail(in) = Nothing(in)
  BY <1>1 DEF ParseKillmail
<1>4. Orderly(Nothing(in), in) /\ Nothing(in).rest = in
  BY NothingOrderly DEF Nothing, Parsed
<1>5. Orderly(Panic, in) /\ Panic.rest = <<>>
  BY DEF Orderly, Panic, Nothing, Parsed
<1>6. ASSUME NEW found
      PROVE  LET parsed == Parsed(DOMAIN Strings(in), found, <<>>) IN
             Orderly(parsed, in) /\ parsed.rest = <<>>
  BY <1>1 DEF Orderly, Parsed
<1> QED
  BY <1>2, <1>3, <1>4, <1>5, <1>6

-----------------------------------------------------------------------------
(* Every parser, by its place in the list.                                   *)

LEMMA ParsersAre ==
  /\ Len(Parsers) = 15
  /\ Parsers[1] = "killmail" /\ Parsers[2] = "eft" /\ Parsers[3] = "fitting"
  /\ Parsers[4] = "loot_history" /\ Parsers[5] = "pi" /\ Parsers[6] = "view_contents"
  /\ Parsers[7] = "wallet" /\ Parsers[8] = "survey" /\ Parsers[9] = "contract"
  /\ Parsers[10] = "listing" /\ Parsers[11] = "assets" /\ Parsers[12] = "industry"
  /\ Parsers[13] = "cargo_scan" /\ Parsers[14] = "dscan" /\ Parsers[15] = "heuristic"
BY DEF Parsers

LEMMA ParseIs ==
  ASSUME NEW in
  PROVE  /\ Parse(Parsers[1], in) = ParseKillmail(in)
         /\ Parse(Parsers[2], in) = ParseEFT(in)
         /\ Parse(Parsers[3], in) = ParseFitting(in)
         /\ Parse(Parsers[4], in) = RegexParse(<<"loot">>, in)
         /\ Parse(Parsers[5], in) = RegexParse(<<"pi1", "pi2", "pi3">>, in)
         /\ Parse(Parsers[6], in) = RegexParse(<<"view", "view2">>, in)
         /\ Parse(Parsers[7], in) = RegexParse(<<"wallet", "wallet2">>, in)
         /\ Parse(Parsers[8], in) = ParseSurveyScan(in)
         /\ Parse(Parsers[9], in) = RegexParse(<<"contract", "contractShort">>, in)
         /\ Parse(Parsers[10], in) = ContextListing(in)
         /\ Parse(Parsers[11], in) = RegexParse(<<"assets">>, in)
         /\ Parse(Parsers[12], in) = RegexParse(<<"industry">>, in)
         /\ Parse(Parsers[13], in) = RegexParse(<<"cargo">>, in)
         /\ Parse(Parsers[14], in) = RegexParse(<<"dscan">>, in)
         /\ Parse(Parsers[15], in) = Heuristic(in)
BY ParsersAre DEF Parse, ParseLootHistory, ParsePI, ParseViewContents, ParseWallet,
   ParseContract, ParseAssets, ParseIndustry, ParseCargoScan, ParseDScan

LEMMA Numbers ==
  ASSUME NEW n \in 1 .. 15
  PROVE  n \in {1, 2, 3, 4, 5, 6, 7, 8, 9, 10, 11, 12, 13, 14, 15}
OBVIOUS

LEMMA ParseOrderly ==
  ASSUME NEW n \in 1 .. 15, NEW in, n <= 2 => Numbered(in)
  PROVE  LET parsed == Parse(Parsers[n], in) IN
         /\ Orderly(parsed, in)
         /\ n # 1 \/ in[0].form # "date" => Named(parsed, in) /\ ~parsed.panics
<1>1. CASE n = 1
  BY <1>1, ParseIs, KillmailOrderly, NothingOrderly
<1>2. CASE n = 2
  BY <1>2, ParseIs, EFTOrderly
<1>3. CASE n = 3
  BY <1>3, ParseIs, FittingOrderly
<1>4. CASE n = 8
  BY <1>4, ParseIs, SurveyOrderly
<1>5. CASE n = 10
  BY <1>5, ParseIs, ListingOrderly
<1>6. CASE n = 15
  BY <1>6, ParseIs, HeuristicOrderly
<1>7. CASE n \in {4, 5, 6, 7, 9, 11, 12, 13, 14}
  <2>1. PICK res \in {<<"loot">>, <<"pi1", "pi2", "pi3">>, <<"view", "view2">>,
                      <<"wallet", "wallet2">>, <<"contract", "contractShort">>,
                      <<"assets">>, <<"industry">>, <<"cargo">>, <<"dscan">>} :
               Parse(Parsers[n], in) = RegexParse(res, in)
    BY <1>7, ParseIs
  <2>2. Len(res) \in Nat
    BY <2>1
  <2> QED
    BY <2>1, <2>2, RegexOrderly
<1> QED
  BY <1>1, <1>2, <1>3, <1>4, <1>5, <1>6, <1>7, Numbers

-----------------------------------------------------------------------------
(* Which parser takes a plain line, if none did before.                      *)

Stage(form) ==
  CASE form = "loot"                            -> 4
    [] form \in {"pi1", "pi2", "pi3"}           -> 5
    [] form \in {"view", "viewShort"}           -> 6
    [] form = "wallet2"                         -> 7
    [] form \in {"contract", "contractShort"}   -> 9
    [] form \in {"name", "qtyName", "nameQty"}  -> 10
    [] form \in {"assets", "stack"}             -> 11
    [] form = "industry"                        -> 12
    [] form = "dscan"                           -> 14
    [] form = "qtyTab"                          -> 15

LEMMA StageOfPlain ==
  ASSUME NEW form \in Plain
  PROVE  Stage(form) \in {4, 5, 6, 7, 9, 10, 11, 12, 14, 15}
BY DEF Plain, Stage

PlainLine(line) == line.form \in Plain /\ HasType(line.name)

\* A line is handed on to a parser before its own, or it is taken and a type is found.
KeptAt(n, parsed, in, i) ==
  \/ i \in parsed.lines /\ \E item \in parsed.items : HasType(item.name)
  \/ i \in DOMAIN parsed.rest /\ Stage(in[i].form) # n

\* The expressions of a parser match the forms of its stage, and of later ones none.
Reads(res, n) ==
  \A form \in Plain :
    Stage(form) >= n =>
      IF Stage(form) = n
      THEN \E k \in 1 .. Len(res) : /\ form \in Matched[res[k]] /\ form \in Captured[res[k]]
                                    /\ \A j \in 1 .. k - 1 : form \notin Matched[res[j]]
                                    /\ res[k] # "wallet"
      ELSE \A k \in 1 .. Len(res) : form \notin Matched[res[k]]

LEMMA RegexKeeps ==
  ASSUME NEW n \in 1 .. 15, NEW res, Len(res) \in Nat, Reads(res, n), NEW in,
         NEW i \in DOMAIN in, PlainLine(in[i]), Stage(in[i].form) >= n
  PROVE  KeptAt(n, RegexParse(res, in), in, i)
<1>1. CASE Stage(in[i].form) = n
  <2>1. PICK k \in 1 .. Len(res) :
               /\ Matches(res[k], in[i]) /\ in[i].form \in Captured[res[k]]
               /\ \A j \in 1 .. k - 1 : ~Matches(res[j], in[i])
               /\ res[k] # "wallet"
    BY <1>1 DEF Reads, PlainLine, Matches
  <2>2. i \in RegexParse(res, in).lines
    BY <2>1, RegexHandsOn
  <2>3. \E item \in RegexParse(res, in).items : HasType(item.name)
    BY <2>1, RegexFinds DEF PlainLine
  <2> QED
    BY <2>2, <2>3 DEF KeptAt
<1>2. CASE Stage(in[i].form) # n
  <2>1. \A k \in 1 .. Len(res) : ~Matches(res[k], in[i])
    BY <1>2 DEF Reads, PlainLine, Matches
  <2> QED
    BY <1>2, <2>1, RegexHandsOn DEF KeptAt
<1> QED
  BY <1>1, <1>2

LEMMA FormsAre ==
  /\ Matched.loot = {"loot"} /\ Captured.loot = {"loot"}
  /\ Matched.pi1 = {"pi1"} /\ Captured.pi1 = {"pi1"}
  /\ Matched.pi2 = {"pi2"} /\ Captured.pi2 = {"pi2"}
  /\ Matched.pi3 = {"pi3"} /\ Captured.pi3 = {"pi3"}
  /\ Matched.view = {"view"} /\ Captured.view = {"view"}
  /\ Matched.view2 = {"viewShort", "pi3"} /\ Captured.view2 = {"viewShort"}
  /\ Matched.wallet = {"wallet"}
  /\ Matched.wallet2 = {"wallet2"} /\ Captured.wallet2 = {"wallet2"}
  /\ Matched.contract = {"contract"} /\ Captured.contract = {"contract"}
  /\ Matched.contractShort = {"contractShort", "survey"}
  /\ Captured.contractShort = {"contractShort", "survey"}
  /\ Matched.assets = {"assets", "stack", "contractShort", "survey"}
  /\ Captured.assets = {"assets", "stack", "contractShort", "survey"}
  /\ Matched.industry = {"industry"} /\ Captured.industry = {"industry"}
  /\ Matched.cargo = {"qtyName", "copy", "date"}
  /\ Matched.dscan = {"dscan", "survey", "wallet"} /\ Captured.dscan = {"dscan"}
BY DEF Matched, Captured

LEMMA ListingForms ==
  /\ "qtyName" \in Matched.listing /\ "qtyName" \in Captured.listing
  /\ "nameQty" \in Matched.listing2 /\ "nameQty" \in Captured.listing2
  /\ "name" \in Matched.listing3 /\ "name" \in Captured.listing3
BY DEF Matched, Captured

LEMMA RegexTables ==
  /\ Reads(<<"loot">>, 4)
  /\ Reads(<<"pi1", "pi2", "pi3">>, 5)
  /\ Reads(<<"view", "view2">>, 6)
  /\ Reads(<<"wallet", "wallet2">>, 7)
  /\ Reads(<<"contract", "contractShort">>, 9)
  /\ Reads(<<"assets">>, 11)
  /\ Reads(<<"industry">>, 12)
  /\ Reads(<<"cargo">>, 13)
  /\ Reads(<<"dscan">>, 14)
<1>1. Reads(<<"loot">>, 4)
  BY FormsAre DEF Reads, Plain, Stage
<1>2. Reads(<<"pi1", "pi2", "pi3">>, 5)
  BY FormsAre DEF Reads, Plain, Stage
<1>3. Reads(<<"view", "view2">>, 6)
  BY FormsAre DEF Reads, Plain, Stage
<1>4. Reads(<<"wallet", "wallet2">>, 7)
  BY FormsAre DEF Reads, Plain, Stage
<1>5. Reads(<<"contract", "contractShort">>, 9)
  BY FormsAre DEF Reads, Plain, Stage
<1>6. Reads(<<"assets">>, 11)
  BY FormsAre DEF Reads, Plain, Stage
<1>7. Reads(<<"industry">>, 12)
  BY FormsAre DEF Reads, Plain, Stage
<1>8. Reads(<<"cargo">>, 13)
  BY FormsAre DEF Reads, Plain, Stage
<1>9. Reads(<<"dscan">>, 14)
  BY FormsAre DEF Reads, Plain, Stage
<1> QED
  BY <1>1, <1>2, <1>3, <1>4, <1>5, <1>6, <1>7, <1>8, <1>9

LEMMA ListingTakes ==
  ASSUME NEW in, NEW i \in DOMAIN in, PlainLine(in[i])
  PROVE  KeptAt(10, ContextListing(in), in, i)
<1>1. ASSUME Stage(in[i].form) = 10  PROVE \E k \in 1 .. 4 : Knows(ListingStages[k], in[i])
  <2>1. in[i].form \in {"name", "qtyName", "nameQty"}
    BY <1>1 DEF Stage, PlainLine, Plain
  <2>2. Knows("listing", in[i]) \/ Knows("listing2", in[i]) \/ Knows("listing3", in[i])
    BY <2>1, ListingForms DEF Knows, Matches, Name, PlainLine
  <2> QED
    BY <2>2 DEF ListingStages
<1> QED
  BY <1>1, ListingKeeps DEF KeptAt

LEMMA HeuristicTakes ==
  ASSUME NEW in, NEW i \in DOMAIN in, PlainLine(in[i])
  PROVE  KeptAt(15, Heuristic(in), in, i)
<1> DEFINE found == IF HeuristicMethod1(i, in[i]) # {} THEN HeuristicMethod1(i, in[i])
                    ELSE HeuristicMethod2(i, in[i])
<1>1. ASSUME NEW item \in found  PROVE HasType(item.name)
  BY DEF HeuristicMethod1, HeuristicMethod2, Item, PlainLine
<1>2. IF found = {} THEN i \in DOMAIN Heuristic(in).rest
      ELSE i \in Heuristic(in).lines /\ found \subseteq Heuristic(in).items
  BY DEF Heuristic, Parsed, Without, Only
<1>3. ASSUME Stage(in[i].form) = 15  PROVE found # {}
  <2>1. in[i].form = "qtyTab"
    BY <1>3 DEF Stage, PlainLine, Plain
  <2>2. Parts(in[i]) = <<"qty", "name">>
    BY <2>1 DEF Parts, PartsOf
  <2>3. HasType(PartName(in[i], Parts(in[i])[2])) /\ 2 \in DOMAIN Parts(in[i])
    BY <2>2 DEF PartName, PlainLine
  <2>4. HeuristicMethod1(i, in[i]) # {}
    BY <2>3 DEF HeuristicMethod1
  <2> QED
    BY <2>4
<1> HIDE DEF found
<1> QED
  BY <1>1, <1>2, <1>3 DEF KeptAt

LEMMA NothingKeeps ==
  ASSUME NEW in, NEW i \in DOMAIN in, NEW n, Stage(in[i].form) # n
  PROVE  KeptAt(n, Nothing(in), in, i)
BY DEF KeptAt, Nothing, Parsed

\* The pastes that a killmail, a scan or the header of a fit does not spoil.
Unspoiled(in) ==
  \A j \in DOMAIN in : in[j].form \notin {"survey", "fitHeader"}

LEMMA SurveyKeeps ==
  ASSUME NEW in, Unspoiled(in), NEW i \in DOMAIN in, Stage(in[i].form) # 8
  PROVE  KeptAt(8, ParseSurveyScan(in), in, i)
<1>1. Matched.survey = {"survey"}
  BY DEF Matched
<1>2. \A j \in DOMAIN in : j \notin RegexParse(<<"survey">>, in).lines
  <2> SUFFICES ASSUME NEW j \in DOMAIN in, j \in RegexParse(<<"survey">>, in).lines
               PROVE  FALSE
    OBVIOUS
  <2>1. Reader(<<"survey">>, in[j]) > 0
    BY DEF RegexParse, Parsed
  <2>2. Matches("survey", in[j])
    BY <2>1, ReaderIs
  <2> QED
    BY <1>1, <2>2 DEF Matches, Unspoiled
<1>3. RegexParse(<<"survey">>, in).lines = {}
  BY <1>2 DEF RegexParse, Parsed
<1> QED
  BY <1>3, NothingKeeps DEF ParseSurveyScan

LEMMA FittingKeeps ==
  ASSUME NEW in, Unspoiled(in), NEW i \in DOMAIN in, Stage(in[i].form) # 3
  PROVE  KeptAt(3, ParseFitting(in), in, i)
<1>1. ParseFitting(in) = Nothing(in)
  BY DEF ParseFitting, Unspoiled
<1> QED
  BY <1>1, NothingKeeps

LEMMA EFTKeeps ==
  ASSUME NEW in, Numbered(in), in[0].form = "eftHeader" => HasType(in[0].name),
         NEW i \in DOMAIN in, PlainLine(in[i])
  PROVE  KeptAt(2, ParseEFT(in), in, i)
<1> DEFINE lines   == Strings(in)
           slots   == {j \in DOMAIN lines : lines[j].form = "emptySlot"}
           others  == Without(lines, slots \cup {0})
           listing == ParseListing(others)
<1>1. Stage(in[i].form) # 2
  BY StageOfPlain DEF PlainLine
<1>2. DOMAIN lines = DOMAIN in /\ 0 \in DOMAIN in /\ lines[0] = in[0] /\ lines[i] = in[i]
  BY StringsAre DEF Numbered
<1>3. CASE 0 \notin DOMAIN lines \/ lines[0].form # "eftHeader"
  BY <1>1, <1>3, NothingKeeps DEF ParseEFT
<1>4. CASE ~(0 \notin DOMAIN lines \/ lines[0].form # "eftHeader")
  <2>1. ParseEFT(in) = Parsed({0} \cup slots \cup listing.lines,
                              {Item(0, 1, lines[0].name, 1, FALSE)} \cup listing.items,
                              listing.rest)
    BY <1>4 DEF ParseEFT
  <2>2. in[i].form \notin {"eftHeader", "emptySlot"}
    BY DEF PlainLine, Plain
  <2>3. i \in DOMAIN others
    BY <1>2, <1>4, <2>2 DEF Without, Only
  <2>4. i \in listing.lines \/ i \in DOMAIN listing.rest
    BY <2>3, RegexHandsOn DEF ParseListing, ListingStages
  <2> HIDE DEF listing, others, slots, lines
  <2>5. HasType(lines[0].name) /\ Item(0, 1, lines[0].name, 1, FALSE).name = lines[0].name
    BY <1>2, <1>4 DEF Item
  <2>6. /\ ParseEFT(in).lines = {0} \cup slots \cup listing.lines
        /\ ParseEFT(in).items = {Item(0, 1, lines[0].name, 1, FALSE)} \cup listing.items
        /\ ParseEFT(in).rest = listing.rest
    BY <2>1 DEF Parsed
  <2>7. \E item \in ParseEFT(in).items : HasType(item.name)
    BY <2>5, <2>6
  <2> QED
    BY <1>1, <2>4, <2>6, <2>7 DEF KeptAt
<1> QED
  BY <1>3, <1>4

LEMMA ParseKeeps ==
  ASSUME NEW n \in 1 .. 15, NEW in, n <= 2 => Numbered(in), Unspoiled(in),
         n = 1 => in[0].form # "date",
         n = 2 => (in[0].form = "eftHeader" => HasType(in[0].name)),
         NEW i \in DOMAIN in, PlainLine(in[i]), Stage(in[i].form) >= n
  PROVE  KeptAt(n, Parse(Parsers[n], in), in, i)
<1>1. Stage(in[i].form) \in {4, 5, 6, 7, 9, 10, 11, 12, 14, 15}
  BY StageOfPlain DEF PlainLine
<1>2. CASE n = 1
  BY <1>1, <1>2, ParseIs, KillmailOrderly, NothingKeeps
<1>3. CASE n = 2
  BY <1>3, ParseIs, EFTKeeps
<1>4. CASE n = 3
  BY <1>1, <1>4, ParseIs, FittingKeeps
<1>5. CASE n = 8
  BY <1>1, <1>5, ParseIs, SurveyKeeps
<1>6. CASE n = 10
  BY <1>6, ParseIs, ListingTakes
<1>7. CASE n = 15
  BY <1>7, ParseIs, HeuristicTakes
<1>8. CASE n \in {4, 5, 6, 7, 9, 11, 12, 13, 14}
  <2>1. PICK res \in {<<"loot">>, <<"pi1", "pi2", "pi3">>, <<"view", "view2">>,
                      <<"wallet", "wallet2">>, <<"contract", "contractShort">>,
                      <<"assets">>, <<"industry">>, <<"cargo">>, <<"dscan">>} :
               Parse(Parsers[n], in) = RegexParse(res, in) /\ Reads(res, n)
    BY <1>8, ParseIs, RegexTables
  <2>2. Len(res) \in Nat
    BY <2>1
  <2> QED
    BY <2>1, <2>2, RegexKeeps
<1> QED
  BY <1>2, <1>3, <1>4, <1>5, <1>6, <1>7, <1>8, Numbers

-----------------------------------------------------------------------------
(* The invariant.                                                            *)

TypeOK ==
  /\ paste \in Pastes
  /\ pc \in {"parsing", "parsed", "itemized", "priced", "done", "no_lines", "panic"}
  /\ next \in 1 .. 16
  /\ results \in Seq({results[k] : k \in DOMAIN results})

\* The two parsers that renumber lines come before any line was taken.
StartOK == pc = "parsing" /\ next <= 2 => left \in {paste, <<>>}

\* A result is kept for a type, which a line of the paste names.
FoundOK ==
  /\ pc \in {"parsed", "itemized", "priced"} => results # <<>>
  /\ \A k \in DOMAIN results :
       /\ \E item \in results[k].items : HasType(item.name)
       /\ paste[0].form # "date" => Named(results[k], paste)

Spoiled ==
  \/ paste[0].form = "date" \/ Has("survey") \/ Has("fitHeader")
  \/ paste[0].form = "eftHeader" /\ ~HasType(paste[0].name)

\* A plain line is taken, or waits for its own parser.
KeptOK ==
  ~Spoiled =>
    \A i \in DOMAIN paste : PlainLine(paste[i]) =>
      /\ pc = "parsing" => i \in Taken \/ (i \in DOMAIN left /\ Stage(paste[i].form) >= next)
      /\ pc \in {"parsed", "no_lines"} => i \in Taken

Inv == TypeOK /\ StartOK /\ LineCountedOnce /\ FoundOK /\ KeptOK /\ PanicNeedsKnownType

LEMMA InitInv == Init => Inv
<1> SUFFICES ASSUME Init  PROVE Inv
  OBVIOUS
<1>1. results = <<>> /\ left = paste /\ pc = "parsing" /\ next = 1
  BY DEF Init
<1>0. DOMAIN results = {}
  BY <1>1
<1>2. TypeOK
  <2>1. paste \in Pastes
    BY DEF Init
  <2>2. results \in Seq({results[k] : k \in DOMAIN results})
    BY <1>1, EmptySeq
  <2> QED
    BY <1>1, <2>1, <2>2 DEF TypeOK
<1>3. StartOK /\ FoundOK /\ PanicNeedsKnownType
  BY <1>1, <1>0 DEF StartOK, FoundOK, PanicNeedsKnownType
<1>4. LineCountedOnce
  BY <1>1, <1>0 DEF LineCountedOnce, Taken, TakenBy
<1>5. KeptOK
  <2>1. \A i \in DOMAIN paste : PlainLine(paste[i]) => Stage(paste[i].form) >= 1
    BY StageOfPlain DEF PlainLine
  <2> QED
    BY <1>1, <2>1 DEF KeptOK
<1> QED
  BY <1>2, <1>3, <1>4, <1>5 DEF Inv

\* What is known of the lines when a parser gets them.
LEMMA LeftIs ==
  ASSUME Inv, Parsing
  PROVE  /\ next \in 1 .. 15 /\ pc = "parsing"
         /\ DOMAIN left \subseteq DOMAIN paste
         /\ \A i \in DOMAIN left : left[i] = paste[i] /\ i \notin Taken
         /\ next <= 2 => left = paste /\ Numbered(left)
<1>1. next \in 1 .. 15 /\ pc = "parsing" /\ left # <<>>
  BY ParsersAre DEF Parsing, Inv, TypeOK
<1>2. /\ DOMAIN left \subseteq DOMAIN paste
      /\ \A i \in DOMAIN left : left[i] = paste[i] /\ i \notin Taken
  BY DEF Inv, LineCountedOnce
<1>3. Numbered(paste)
  BY PasteAssumption DEF Numbered, Inv, TypeOK
<1> QED
  BY <1>1, <1>2, <1>3 DEF Inv, StartOK

\* What a parser leaves, and what becomes of a plain line.
LEMMA ParseStep ==
  ASSUME Inv, Parsing
  PROVE  LET parsed == Parse(Parsers[next], left) IN
         /\ Orderly(parsed, left)
         /\ next # 1 \/ paste[0].form # "date" => Named(parsed, paste) /\ ~parsed.panics
         /\ ~Spoiled =>
              \A i \in DOMAIN left :
                PlainLine(paste[i]) /\ Stage(paste[i].form) >= next
                  => KeptAt(next, parsed, left, i)
<1> DEFINE parsed == Parse(Parsers[next], left)
<1>1. /\ Orderly(parsed, left)
      /\ next # 1 \/ left[0].form # "date" => Named(parsed, left) /\ ~parsed.panics
  BY LeftIs, ParseOrderly
<1>2. Named(parsed, left) => Named(parsed, paste)
  BY LeftIs DEF Named
<1>3. ASSUME ~Spoiled, NEW i \in DOMAIN left, PlainLine(paste[i]), Stage(paste[i].form) >= next
      PROVE  KeptAt(next, parsed, left, i)
  <2>1. Unspoiled(left)
    BY <1>3, LeftIs DEF Unspoiled, Spoiled, Has
  <2>2. next = 1 => left[0].form # "date"
    BY <1>3, LeftIs DEF Spoiled
  <2>3. next = 2 => (left[0].form = "eftHeader" => HasType(left[0].name))
    BY <1>3, LeftIs DEF Spoiled
  <2>4. PlainLine(left[i]) /\ Stage(left[i].form) >= next
    BY <1>3, LeftIs
  <2> QED
    BY <2>1, <2>2, <2>3, <2>4, LeftIs, ParseKeeps
<1>4. next = 1 => left = paste
  BY LeftIs
<1> QED
  BY <1>1, <1>2, <1>3, <1>4

-----------------------------------------------------------------------------
(* The steps.                                                                *)

LEMMA TakeInv == Inv /\ Take => Inv'
<1> SUFFICES ASSUME Inv, Take  PROVE Inv'
  OBVIOUS
<1> DEFINE parsed == Parse(Parsers[next], left)
           result == [parser |-> Parsers[next], lines |-> parsed.lines,
                      items |-> parsed.items]
           n      == Len(results)
<1>1. /\ Parsing /\ Liked(parsed) /\ results' = Append(results, result)
      /\ left' = parsed.rest /\ next' = next + 1
      /\ paste' = paste /\ pc' = pc
  BY DEF Take
<1>2. /\ next \in 1 .. 15 /\ pc = "parsing"
      /\ DOMAIN left \subseteq DOMAIN paste
      /\ \A i \in DOMAIN left : left[i] = paste[i] /\ i \notin Taken
      /\ next <= 2 => left = paste /\ Numbered(left)
  BY <1>1, LeftIs
<1>3. /\ Orderly(parsed, left)
      /\ next # 1 \/ paste[0].form # "date" => Named(parsed, paste) /\ ~parsed.panics
      /\ ~Spoiled =>
           \A i \in DOMAIN left :
             PlainLine(paste[i]) /\ Stage(paste[i].form) >= next
               => KeptAt(next, parsed, left, i)
  BY <1>1, ParseStep
<1>4. /\ n \in Nat /\ DOMAIN results = 1 .. n
      /\ DOMAIN results' = 1 .. n + 1
      /\ \A k \in 1 .. n : results'[k] = results[k]
      /\ results'[n + 1] = result
      /\ results' \in Seq({results'[k] : k \in DOMAIN results'})
  <2> DEFINE S == {results[k] : k \in DOMAIN results} \cup {result}
  <2>1. results \in Seq({results[k] : k \in DOMAIN results})
    BY DEF Inv, TypeOK
  <2> HIDE DEF result
  <2>2. results \in Seq(S) /\ n \in Nat /\ DOMAIN results = 1 .. n
    BY <2>1
  <2>3. /\ results' \in Seq(S) /\ Len(results') = n + 1
        /\ \A k \in 1 .. n : results'[k] = results[k]
        /\ results'[n + 1] = result
    BY <1>1, <2>2, AppendProperties
  <2>4. DOMAIN results' = 1 .. n + 1
    BY <2>2, <2>3
  <2>5. results' \in Seq({results'[k] : k \in DOMAIN results'})
    BY <2>3, <2>4
  <2> QED
    BY <2>2, <2>3, <2>4, <2>5
<1>5. result.lines = parsed.lines /\ result.items = parsed.items
  OBVIOUS
<1>6. Taken' = Taken \cup parsed.lines
  BY <1>4, <1>5 DEF Taken, TakenBy
<1> HIDE DEF parsed, result, n
<1>7. TypeOK'
  BY <1>1, <1>2, <1>4 DEF Inv, TypeOK
<1>8. StartOK'
  <2>1. ASSUME next = 1  PROVE left' \in {paste, <<>>}
    <3>1. parsed.rest \in {left, <<>>}
      BY <1>2, <2>1, ParseIs, KillmailOrderly DEF parsed
    <3> QED
      BY <1>1, <1>2, <2>1, <3>1
  <2> QED
    BY <1>1, <1>2, <2>1 DEF StartOK
<1>9. LineCountedOnce'
  <2>1. \A k \in 1 .. n : results[k].lines \subseteq Taken
    BY <1>4 DEF Taken, TakenBy
  <2>2. parsed.lines \subseteq DOMAIN left /\ parsed.lines \cap Taken = {}
    BY <1>2, <1>3 DEF Orderly
  <2>3. ASSUME NEW k \in DOMAIN results', NEW j \in DOMAIN results', k # j
        PROVE  results'[k].lines \cap results'[j].lines = {}
    <3>1. CASE k \in 1 .. n /\ j \in 1 .. n
      BY <1>4, <2>3, <3>1 DEF Inv, LineCountedOnce, TakenBy
    <3>2. CASE k = n + 1 /\ j \in 1 .. n
      BY <1>4, <1>5, <2>1, <2>2, <3>2
    <3>3. CASE j = n + 1 /\ k \in 1 .. n
      BY <1>4, <1>5, <2>1, <2>2, <3>3
    <3> QED
      BY <1>4, <2>3, <3>1, <3>2, <3>3
  <2>4. Taken' \subseteq DOMAIN paste
    BY <1>2, <1>6, <2>2 DEF Inv, LineCountedOnce
  <2>5. ASSUME NEW i \in DOMAIN left'
        PROVE  i \in DOMAIN paste /\ left'[i] = paste[i] /\ i \notin Taken'
    <3>1. i \in DOMAIN left \ parsed.lines /\ left'[i] = left[i]
      BY <1>1, <1>3, <2>5 DEF Orderly
    <3> QED
      BY <1>2, <1>6, <3>1
  <2> QED
    BY <1>1, <2>3, <2>4, <2>5 DEF LineCountedOnce, TakenBy
<1>10. FoundOK'
  <2>1. ASSUME NEW k \in DOMAIN results'
        PROVE  /\ \E item \in results'[k].items : HasType(item.name)
               /\ paste[0].form # "date" => Named(results'[k], paste)
    <3>1. CASE k \in 1 .. n
      BY <1>4, <3>1 DEF Inv, FoundOK
    <3>2. CASE k = n + 1
      BY <1>1, <1>3, <1>4, <1>5, <3>2 DEF Liked, Named
    <3> QED
      BY <1>4, <2>1, <3>1, <3>2
  <2> QED
    BY <1>1, <1>2, <2>1 DEF FoundOK, Named
<1>11. KeptOK'
  <2> SUFFICES ASSUME ~Spoiled, NEW i \in DOMAIN paste, PlainLine(paste[i])
               PROVE  i \in Taken' \/ (i \in DOMAIN left' /\ Stage(paste[i].form) >= next')
    BY <1>1, <1>2 DEF KeptOK, Spoiled, Has, PlainLine
  <2>1. CASE i \in Taken
    BY <1>6, <2>1
  <2>2. CASE i \in DOMAIN left /\ Stage(paste[i].form) >= next
    <3>1. \/ i \in parsed.lines
          \/ i \in DOMAIN parsed.rest /\ Stage(paste[i].form) # next
      BY <1>2, <1>3, <2>2 DEF KeptAt
    <3>2. Stage(paste[i].form) \in Nat
      BY StageOfPlain DEF PlainLine
    <3> QED
      BY <1>1, <1>2, <1>6, <2>2, <3>1, <3>2
  <2> QED
    BY <1>2, <2>1, <2>2 DEF Inv, KeptOK
<1>12. PanicNeedsKnownType'
  BY <1>1, <1>2 DEF PanicNeedsKnownType
<1> QED
  BY <1>7, <1>8, <1>9, <1>10, <1>11, <1>12 DEF Inv

\* A result that is not liked holds no plain line.
LEMMA MoveAheadInv == Inv /\ MoveAhead => Inv'
<1> SUFFICES ASSUME Inv, MoveAhead  PROVE Inv'
  OBVIOUS
<1> DEFINE parsed == Parse(Parsers[next], left)
<1>1. /\ Parsing /\ ~Liked(parsed) /\ left' = parsed.rest /\ next' = next + 1
      /\ paste' = paste /\ pc' = pc /\ results' = results /\ Taken' = Taken
  BY DEF MoveAhead, Taken, TakenBy
<1>2. /\ next \in 1 .. 15 /\ pc = "parsing"
      /\ DOMAIN left \subseteq DOMAIN paste
      /\ \A i \in DOMAIN left : left[i] = paste[i] /\ i \notin Taken
      /\ next <= 2 => left = paste /\ Numbered(left)
  BY <1>1, LeftIs
<1>3. /\ Orderly(parsed, left)
      /\ ~Spoiled =>
           \A i \in DOMAIN left :
             PlainLine(paste[i]) /\ Stage(paste[i].form) >= next
               => KeptAt(next, parsed, left, i)
  BY <1>1, ParseStep
<1> HIDE DEF parsed
<1>4. TypeOK'
  BY <1>1, <1>2 DEF Inv, TypeOK
<1>5. StartOK'
  <2>1. ASSUME next = 1  PROVE left' \in {paste, <<>>}
    <3>1. parsed.rest \in {left, <<>>}
      BY <1>2, <2>1, ParseIs, KillmailOrderly DEF parsed
    <3> QED
      BY <1>1, <1>2, <2>1, <3>1
  <2> QED
    BY <1>1, <1>2, <2>1 DEF StartOK
<1>6. LineCountedOnce'
  <2>1. ASSUME NEW i \in DOMAIN left'
        PROVE  i \in DOMAIN paste /\ left'[i] = paste[i] /\ i \notin Taken
    BY <1>1, <1>2, <1>3, <2>1 DEF Orderly
  <2> QED
    BY <1>1, <2>1 DEF Inv, LineCountedOnce, TakenBy
<1>7. FoundOK'
  BY <1>1 DEF Inv, FoundOK, Named
<1>8. KeptOK'
  <2> SUFFICES ASSUME ~Spoiled, NEW i \in DOMAIN paste, PlainLine(paste[i])
               PROVE  i \in Taken \/ (i \in DOMAIN left' /\ Stage(paste[i].form) >= next')
    BY <1>1, <1>2 DEF KeptOK, Spoiled, Has, PlainLine
  <2>1. CASE i \in DOMAIN left /\ Stage(paste[i].form) >= next
    <3>1. KeptAt(next, parsed, left, i)
      BY <1>3, <2>1
    <3>2. i \in DOMAIN parsed.rest /\ Stage(paste[i].form) # next
      BY <1>1, <1>2, <2>1, <3>1 DEF KeptAt, Liked
    <3>3. Stage(paste[i].form) \in Nat
      BY StageOfPlain DEF PlainLine
    <3> QED
      BY <1>1, <1>2, <2>1, <3>2, <3>3
  <2> QED
    BY <1>2, <2>1 DEF Inv, KeptOK
<1>9. PanicNeedsKnownType'
  BY <1>1, <1>2 DEF PanicNeedsKnownType
<1> QED
  BY <1>4, <1>5, <1>6, <1>7, <1>8, <1>9 DEF Inv

\* What an action leaves alone when parsing is over.
LEMMA Later ==
  ASSUME Inv, UNCHANGED <<paste, next, results>>, pc' # "parsing",
         pc' \in {"parsed", "itemized", "priced", "done", "no_lines", "panic"},
         DOMAIN left' \subseteq DOMAIN left, \A i \in DOMAIN left' : left'[i] = left[i],
         pc' \in {"parsed", "itemized", "priced"} => results # <<>>
  PROVE  TypeOK' /\ StartOK' /\ LineCountedOnce' /\ FoundOK'
<1>1. TypeOK' /\ StartOK'
  BY DEF Inv, TypeOK, StartOK
<1>2. LineCountedOnce'
  BY DEF Inv, LineCountedOnce, Taken, TakenBy
<1>3. FoundOK'
  BY DEF Inv, FoundOK, Named
<1> QED
  BY <1>1, <1>2, <1>3

LEMMA ParserPanicsInv == Inv /\ ParserPanics => Inv'
<1> SUFFICES ASSUME Inv, ParserPanics  PROVE Inv'
  OBVIOUS
<1>1. Parsing /\ pc' = "panic" /\ UNCHANGED <<paste, next, left, results>>
  BY DEF ParserPanics
<1>2. paste[0].form = "date"
  BY <1>1, ParseStep DEF ParserPanics
<1>3. TypeOK' /\ StartOK' /\ LineCountedOnce' /\ FoundOK'
  BY <1>1, Later
<1> QED
  BY <1>1, <1>2, <1>3 DEF Inv, KeptOK, PanicNeedsKnownType

\* When the parsers are through, no plain line waits any more.
LEMMA AllParsedInv == Inv /\ (NoValidLinesFound \/ FindKind) => Inv'
<1> SUFFICES ASSUME Inv, NoValidLinesFound \/ FindKind  PROVE Inv'
  OBVIOUS
<1>1. /\ AllParsed /\ pc' \in {"no_lines", "parsed"} /\ left' = filterUnparsed(left)
      /\ UNCHANGED <<paste, next, results>> /\ Taken' = Taken
      /\ pc' = "parsed" => results # <<>>
  BY DEF NoValidLinesFound, FindKind, Taken, TakenBy
<1>2. DOMAIN left' \subseteq DOMAIN left /\ \A i \in DOMAIN left' : left'[i] = left[i]
  BY <1>1 DEF filterUnparsed, Only
<1>3. TypeOK' /\ StartOK' /\ LineCountedOnce' /\ FoundOK'
  BY <1>1, <1>2, Later
<1>4. ASSUME ~Spoiled, NEW i \in DOMAIN paste, PlainLine(paste[i])  PROVE i \in Taken
  <2>1. i \in Taken \/ (i \in DOMAIN left /\ Stage(paste[i].form) >= next)
    BY <1>1, <1>4 DEF AllParsed, Inv, KeptOK
  <2>2. Stage(paste[i].form) \in 1 .. 15
    BY <1>4, StageOfPlain DEF PlainLine
  <2>3. next > 15 \/ DOMAIN left = {}
    BY <1>1, ParsersAre DEF AllParsed
  <2> QED
    BY <2>1, <2>2, <2>3 DEF Inv, TypeOK
<1>5. KeptOK'
  BY <1>1, <1>4 DEF KeptOK, Spoiled, Has, PlainLine
<1>6. PanicNeedsKnownType'
  BY <1>1 DEF PanicNeedsKnownType
<1> QED
  BY <1>3, <1>5, <1>6 DEF Inv

LEMMA RestInv ==
  Inv /\ (ItemsOfResult \/ PriceItems \/ CalculateBuyback \/ BuybackPanics) => Inv'
<1> SUFFICES ASSUME Inv, ItemsOfResult \/ PriceItems \/ CalculateBuyback \/ BuybackPanics
             PROVE  Inv'
  OBVIOUS
<1>1. /\ pc \in {"parsed", "itemized", "priced"}
      /\ pc' \in {"itemized", "priced", "done", "panic"}
      /\ UNCHANGED <<paste, next, left, results>>
  BY DEF ItemsOfResult, PriceItems, CalculateBuyback, BuybackPanics
<1>2. results # <<>>
  BY <1>1 DEF Inv, FoundOK
<1>3. TypeOK' /\ StartOK' /\ LineCountedOnce' /\ FoundOK'
  BY <1>1, <1>2, Later
<1>4. KeptOK'
  BY <1>1 DEF KeptOK
<1>5. paste[0].form # "date" =>
        \E i \in DOMAIN paste : HasType(paste[i].name) \/ HasType(paste[i].ammo)
  <2>1. 1 \in DOMAIN results
    BY <1>2 DEF Inv, TypeOK
  <2>2. PICK item \in results[1].items : HasType(item.name)
    BY <2>1 DEF Inv, FoundOK
  <2>3. paste[0].form # "date" =>
          \E i \in DOMAIN paste : item.name \in {paste[i].name, paste[i].ammo}
    BY <2>1, <2>2 DEF Inv, FoundOK, Named
  <2> QED
    BY <2>2, <2>3
<1>6. PanicNeedsKnownType'
  BY <1>1, <1>5 DEF PanicNeedsKnownType
<1> QED
  BY <1>3, <1>4, <1>6 DEF Inv

LEMMA InvNext == Inv /\ [Next]_vars => Inv'
<1> SUFFICES ASSUME Inv, [Next]_vars  PROVE Inv'
  OBVIOUS
<1>1. CASE UNCHANGED vars
  <2>1. Taken' = Taken
    BY <1>1 DEF vars, Taken, TakenBy
  <2> QED
    BY <1>1, <2>1 DEF vars, Inv, TypeOK, StartOK, LineCountedOnce, TakenBy, FoundOK, Named, KeptOK,
                      Spoiled, Has, PlainLine, PanicNeedsKnownType
<1> QED
  BY <1>1, TakeInv, MoveAheadInv, ParserPanicsInv, AllParsedInv, RestInv DEF Next

-----------------------------------------------------------------------------
(* Definitions by recursion.                                                 *)

WellFounded(pred, S) ==
  \A T \in SUBSET S : T # {} => \E s \in T : pred[s] \cap T = {}

\* F gives the value for an element, from those of its predecessors.
Recursive(F, pred, S, V) ==
  \A s \in S : pred[s] \subseteq S /\ \A h \in [pred[s] -> V] : F[s][h] \in V

Value(F, pred, g, s) == F[s][[u \in pred[s] |-> g[u]]]

Solves(F, pred, g, S) == \A s \in S : g[s] = Value(F, pred, g, s)

\* A solution on a part of S that has the predecessors of its elements.
Part(g, U, F, pred) == \A s \in U : pred[s] \subseteq U /\ g[s] = Value(F, pred, g, s)

\* Two partial solutions agree where both are defined.
LEMMA PartsAgree ==
  ASSUME NEW S, NEW pred, WellFounded(pred, S), NEW F,
         NEW U \in SUBSET S, NEW g, Part(g, U, F, pred),
         NEW W \in SUBSET S, NEW h, Part(h, W, F, pred)
  PROVE  \A s \in U \cap W : g[s] = h[s]
<1> DEFINE T == {s \in U \cap W : g[s] # h[s]}
<1> SUFFICES ASSUME T # {}  PROVE FALSE
  OBVIOUS
<1>1. PICK s \in T : pred[s] \cap T = {}
  BY DEF WellFounded
<1>2. \A u \in pred[s] : g[u] = h[u]
  BY <1>1 DEF Part
<1>3. [u \in pred[s] |-> g[u]] = [u \in pred[s] |-> h[u]]
  BY <1>2
<1> QED
  BY <1>1, <1>3 DEF Part, Value

\* Two functions are the same when a value depends on the values before it.
LEMMA SameValues ==
  ASSUME NEW S, NEW pred, WellFounded(pred, S), \A s \in S : pred[s] \subseteq S,
         NEW f, NEW g, \A s \in S : (\A u \in pred[s] : f[u] = g[u]) => f[s] = g[s]
  PROVE  \A s \in S : f[s] = g[s]
<1> DEFINE T == {s \in S : f[s] # g[s]}
<1> SUFFICES ASSUME T # {}  PROVE FALSE
  OBVIOUS
<1>1. PICK s \in T : pred[s] \cap T = {}
  BY DEF WellFounded
<1>2. \A u \in pred[s] : f[u] = g[u]
  BY <1>1
<1> QED
  BY <1>1, <1>2

\* There is a function for any such rule.  The library's theorem on recursive
\* functions takes the rule as an operator, this one as a function.
LEMMA Recursion ==
  ASSUME NEW S, NEW V, NEW pred, WellFounded(pred, S), NEW F, Recursive(F, pred, S, V)
  PROVE  \E g \in [S -> V] : Solves(F, pred, g, S)
<1> USE DEF Recursive
<1> DEFINE Solved(g, U) == U \in SUBSET S /\ g \in [U -> V] /\ Part(g, U, F, pred)
           M == {s \in S : \E U, g : Solved(g, U) /\ s \in U}
           G == [s \in M |-> CHOOSE v : \E U, g : Solved(g, U) /\ s \in U /\ v = g[s]]
<1>1. ASSUME NEW U, NEW g, Solved(g, U), NEW s \in U
      PROVE  s \in M /\ G[s] = g[s]
  <2>1. s \in M
    BY <1>1
  <2>2. \E v : \E W, h : Solved(h, W) /\ s \in W /\ v = h[s]
    BY <1>1
  <2>3. PICK W, h : Solved(h, W) /\ s \in W /\ G[s] = h[s]
    BY <2>1, <2>2
  <2>4. g[s] = h[s]
    BY <1>1, <2>3, PartsAgree
  <2> QED
    BY <2>1, <2>3, <2>4
<1>2. Solved(G, M)
  <2>1. ASSUME NEW s \in M
        PROVE  G[s] \in V /\ pred[s] \subseteq M /\ G[s] = Value(F, pred, G, s)
    <3>1. PICK U, g : Solved(g, U) /\ s \in U
      OBVIOUS
    <3>2. G[s] = g[s] /\ \A u \in pred[s] : u \in M /\ G[u] = g[u]
      <4> HIDE DEF M, G
      <4> QED
        BY <1>1, <3>1 DEF Part
    <3>3. [u \in pred[s] |-> G[u]] = [u \in pred[s] |-> g[u]]
      BY <3>2
    <3> HIDE DEF M, G
    <3>4. G[s] = Value(F, pred, G, s)
      BY <3>1, <3>2, <3>3 DEF Part, Value
    <3> QED
      BY <3>1, <3>2, <3>4
  <2>2. G \in [M -> V]
    <3>1. G = [s \in M |-> G[s]]
      OBVIOUS
    <3> HIDE DEF M, G
    <3> QED
      BY <2>1, <3>1
  <2> HIDE DEF M, G
  <2>3. M \in SUBSET S
    BY DEF M
  <2> QED
    BY <2>1, <2>2, <2>3 DEF Part
<1>3. M = S
  <2> SUFFICES ASSUME S \ M # {}  PROVE FALSE
    OBVIOUS
  <2>1. PICK t \in S \ M : pred[t] \cap (S \ M) = {}
    <3> HIDE DEF M
    <3> QED
      BY DEF WellFounded
  <2> DEFINE H == [s \in M \cup {t} |-> IF s = t THEN Value(F, pred, G, t) ELSE G[s]]
  <2> HIDE DEF M, G
  <2>2. pred[t] \subseteq M /\ t \notin M
    BY <2>1
  <2>3. /\ H[t] = Value(F, pred, G, t)
        /\ \A s \in M : H[s] = G[s]
    BY <2>2
  <2>4. [u \in pred[t] |-> G[u]] \in [pred[t] -> V]
    BY <1>2, <2>2
  <2>5. Value(F, pred, G, t) \in V
    BY <2>4 DEF Value
  <2>6. H \in [M \cup {t} -> V]
    BY <1>2, <2>5
  <2> HIDE DEF H
  <2>7. ASSUME NEW s \in M \cup {t}
        PROVE  pred[s] \subseteq M /\ H[s] = Value(F, pred, H, s)
    <3>1. pred[s] \subseteq M
      BY <1>2, <2>2 DEF Part
    <3>2. [u \in pred[s] |-> H[u]] = [u \in pred[s] |-> G[u]]
      BY <2>3, <3>1
    <3>3. H[s] = Value(F, pred, G, s)
      BY <1>2, <2>3 DEF Part
    <3> QED
      BY <3>1, <3>2, <3>3 DEF Value
  <2>8. Solved(H, M \cup {t})
    <3>1. M \cup {t} \in SUBSET S
      BY <1>2
    <3> QED
      BY <2>6, <2>7, <3>1 DEF Part
  <2> QED
    BY <1>1, <2>2, <2>8
<1> QED
  <2> HIDE DEF M, G
  <2> QED
    BY <1>2, <1>3 DEF Part, Solves

-----------------------------------------------------------------------------
(* The subsets of a finite set, by what they are with one element less.      *)

OneLess(S) == [T \in SUBSET S |-> {T \ {x} : x \in T}]

\* No set of subsets of a finite set lacks a smallest one.
LEMMA SubsetsWellFounded ==
  ASSUME NEW S, IsFiniteSet(S)
  PROVE  WellFounded(OneLess(S), SUBSET S)
<1> SUFFICES ASSUME NEW Z \in SUBSET SUBSET S, Z # {}
             PROVE  \E T \in Z : \A x \in T : T \ {x} \notin Z
  <2>1. ASSUME NEW Z \in SUBSET SUBSET S, NEW T \in Z, \A x \in T : T \ {x} \notin Z
        PROVE  OneLess(S)[T] \cap Z = {}
    <3>1. OneLess(S)[T] = {T \ {x} : x \in T}
      BY DEF OneLess
    <3> QED
      BY <2>1, <3>1
  <2> QED
    BY <2>1 DEF WellFounded
<1> DEFINE sizes == {Cardinality(T) : T \in Z}
<1>1. \A T \in Z : IsFiniteSet(T) /\ Cardinality(T) \in Nat
  BY FS_Subset, FS_CardinalityType
<1>2. sizes \in SUBSET Nat /\ sizes # {}
  BY <1>1
<1>3. PICK m \in sizes : \A k \in sizes : m <= k
  <2> HIDE DEF sizes
  <2> QED
    BY <1>2, MinIs
<1>4. PICK T \in Z : Cardinality(T) = m
  OBVIOUS
<1>5. ASSUME NEW x \in T, T \ {x} \in Z  PROVE FALSE
  <2>1. Cardinality(T \ {x}) = Cardinality(T) - 1
    BY <1>1, FS_RemoveElement
  <2>2. m <= Cardinality(T \ {x})
    BY <1>3, <1>5
  <2>3. m \in Nat
    BY <1>2
  <2> QED
    BY <1>4, <2>1, <2>2, <2>3
<1> QED
  BY <1>5

\* What holds of a set when it holds of the set without any one element.
LEMMA SubsetInduct ==
  ASSUME NEW S, IsFiniteSet(S), NEW A,
         \A T \in SUBSET S : (\A x \in T : T \ {x} \in A) => T \in A
  PROVE  SUBSET S \subseteq A
<1> SUFFICES ASSUME (SUBSET S) \ A # {}  PROVE FALSE
  OBVIOUS
<1>1. PICK T \in (SUBSET S) \ A : OneLess(S)[T] \cap ((SUBSET S) \ A) = {}
  <2> DEFINE P == SUBSET S
             Z == P \ A
             pred == OneLess(S)
  <2>1. WellFounded(pred, P) /\ Z \in SUBSET P /\ Z # {}
    BY SubsetsWellFounded
  <2> HIDE DEF P, pred
  <2>2. \E T \in Z : pred[T] \cap Z = {}
    BY <2>1 DEF WellFounded
  <2> QED
    BY <2>2 DEF P, pred
<1>2. OneLess(S)[T] = {T \ {x} : x \in T}
  BY <1>1 DEF OneLess
<1>3. \A x \in T : T \ {x} \in A
  BY <1>1, <1>2
<1> QED
  BY <1>1, <1>3

LEMMA UnionIsFinite ==
  ASSUME NEW S, IsFiniteSet(S), NEW f, \A x \in S : IsFiniteSet(f[x])
  PROVE  IsFiniteSet(UNION {f[x] : x \in S})
<1> DEFINE A == {T \in SUBSET S : IsFiniteSet(UNION {f[x] : x \in T})}
<1>1. ASSUME NEW T \in SUBSET S, \A x \in T : T \ {x} \in A  PROVE T \in A
  <2>1. CASE T = {}
    <3>1. UNION {f[x] : x \in T} = {}
      BY <2>1
    <3> QED
      BY <3>1, FS_EmptySet
  <2>2. CASE T # {}
    <3>1. PICK x \in T : TRUE
      BY <2>2
    <3>2. UNION {f[y] : y \in T} = (UNION {f[y] : y \in T \ {x}}) \cup f[x]
      OBVIOUS
    <3>3. IsFiniteSet(UNION {f[y] : y \in T \ {x}})
      BY <1>1
    <3>4. IsFiniteSet((UNION {f[y] : y \in T \ {x}}) \cup f[x])
      BY <3>3, FS_Union
    <3> QED
      BY <3>2, <3>4
  <2> QED
    BY <2>1, <2>2
<1>2. SUBSET S \subseteq A
  <2> HIDE DEF A
  <2> QED
    BY <1>1, SubsetInduct
<1> QED
  BY <1>2

-----------------------------------------------------------------------------
(* Sums.                                                                     *)

\* The function that SumFunctionOnSet(f, S) is the value of.
Sums(f, S, g) ==
  g = [T \in SUBSET S |-> IF T = {} THEN 0
                         ELSE LET x == CHOOSE x \in T : TRUE IN f[x] + g[T \ {x}]]

\* The recursion behind a sum has a solution: the fold of the library is a CHOOSE.
LEMMA SumsExist ==
  ASSUME NEW S, IsFiniteSet(S), NEW f, NEW V, 0 \in V, \A a, b \in V : a + b \in V,
         \A x \in S : f[x] \in V
  PROVE  \E g \in [SUBSET S -> V] : Sums(f, S, g)
<1> DEFINE F == [T \in SUBSET S |-> [h \in [OneLess(S)[T] -> V] |->
                   IF T = {} THEN 0
                   ELSE LET x == CHOOSE x \in T : TRUE IN f[x] + h[T \ {x}]]]
<1>1. \A T \in SUBSET S : OneLess(S)[T] = {T \ {x} : x \in T}
  BY DEF OneLess
<1>2. ASSUME NEW T \in SUBSET S, NEW h \in [OneLess(S)[T] -> V]
      PROVE  F[T][h] \in V
  <2>1. CASE T = {}
    BY <2>1
  <2>2. CASE T # {}
    <3> DEFINE x == CHOOSE x \in T : TRUE
    <3>1. x \in T
      BY <2>2
    <3>2. T \ {x} \in OneLess(S)[T]
      BY <1>1, <3>1
    <3>3. F[T][h] = f[x] + h[T \ {x}]
      BY <2>2
    <3> HIDE DEF x
    <3> QED
      BY <3>1, <3>2, <3>3
  <2> QED
    BY <2>1, <2>2
<1>3. PICK g \in [SUBSET S -> V] : Solves(F, OneLess(S), g, SUBSET S)
  <2>1. Recursive(F, OneLess(S), SUBSET S, V)
    <3> HIDE DEF F
    <3> QED
      BY <1>1, <1>2 DEF Recursive
  <2> HIDE DEF F
  <2> QED
    BY <2>1, SubsetsWellFounded, Recursion
<1>4. ASSUME NEW T \in SUBSET S
      PROVE  g[T] = IF T = {} THEN 0
                    ELSE LET x == CHOOSE x \in T : TRUE IN f[x] + g[T \ {x}]
  <2> DEFINE h == [u \in OneLess(S)[T] |-> g[u]]
  <2>1. h \in [OneLess(S)[T] -> V]
    BY <1>1
  <2>2. g[T] = F[T][h]
    BY <1>3 DEF Value, Solves
  <2>3. CASE T = {}
    BY <2>1, <2>2, <2>3
  <2>4. CASE T # {}
    <3> DEFINE x == CHOOSE x \in T : TRUE
    <3>1. x \in T
      BY <2>4
    <3>2. T \ {x} \in OneLess(S)[T]
      BY <1>1, <3>1
    <3>3. h[T \ {x}] = g[T \ {x}]
      BY <3>2
    <3>4. F[T][h] = f[x] + h[T \ {x}]
      BY <2>1, <2>4
    <3> QED
      BY <2>2, <2>4, <3>3, <3>4
  <2> QED
    BY <2>3, <2>4
<1> QED
  BY <1>4 DEF Sums

\* The sum over a part is the same, whichever set the recursion began with.
LEMMA SumsAgree ==
  ASSUME NEW S, IsFiniteSet(S), NEW f, NEW g, Sums(f, S, g),
         NEW R \in SUBSET S, NEW h, Sums(f, R, h)
  PROVE  g[R] = h[R]
<1> DEFINE A == {T \in SUBSET R : g[T] = h[T]}
<1>1. ASSUME NEW T \in SUBSET R, \A x \in T : T \ {x} \in A  PROVE T \in A
  <2>1. T \in SUBSET S
    OBVIOUS
  <2>2. CASE T = {}
    BY <2>1, <2>2 DEF Sums
  <2>3. CASE T # {}
    <3> DEFINE x == CHOOSE x \in T : TRUE
    <3>1. x \in T
      BY <2>3
    <3>2. g[T] = f[x] + g[T \ {x}] /\ h[T] = f[x] + h[T \ {x}]
      BY <2>1, <2>3 DEF Sums
    <3>3. g[T \ {x}] = h[T \ {x}]
      BY <1>1, <3>1
    <3> QED
      BY <3>2, <3>3
  <2> QED
    BY <2>2, <2>3
<1>2. IsFiniteSet(R)
  BY FS_Subset
<1>3. SUBSET R \subseteq A
  <2> HIDE DEF A
  <2> QED
    BY <1>1, <1>2, SubsetInduct
<1> QED
  BY <1>3

\* Numbers that are added.
Additive(V) == V \in {Nat, Int}

\* A sum is a number, 0 over nothing, and else its first number and the rest.
LEMMA SumStep ==
  ASSUME NEW S, IsFiniteSet(S), NEW f, NEW V, Additive(V), \A x \in S : f[x] \in V
  PROVE  /\ SumFunctionOnSet(f, S) \in V
         /\ S = {} => SumFunctionOnSet(f, S) = 0
         /\ S # {} => LET x == CHOOSE x \in S : TRUE IN
              SumFunctionOnSet(f, S) = f[x] + SumFunctionOnSet(f, S \ {x})
<1>1. 0 \in V /\ \A a, b \in V : a + b \in V
  BY DEF Additive
<1>2. ASSUME NEW R \in SUBSET S
      PROVE  \E g \in [SUBSET R -> V] : Sums(f, R, g) /\ SumFunctionOnSet(f, R) = g[R]
  <2>1. IsFiniteSet(R)
    BY FS_Subset
  <2>2. \E g \in [SUBSET R -> V] : Sums(f, R, g)
    BY <1>1, <2>1, SumsExist
  <2> DEFINE g == CHOOSE g : Sums(f, R, g)
  <2>3. Sums(f, R, g)
    BY <2>2
  <2>4. SumFunctionOnSet(f, R) = g[R]
    BY DEF SumFunctionOnSet, FoldFunctionOnSet, MapThenFoldSet, Sums
  <2> HIDE DEF g
  <2>5. PICK h \in [SUBSET R -> V] : Sums(f, R, h)
    BY <2>2
  <2>6. g[R] = h[R]
    BY <2>1, <2>3, <2>5, SumsAgree
  <2> QED
    BY <2>4, <2>5, <2>6
<1>3. PICK g \in [SUBSET S -> V] : Sums(f, S, g) /\ SumFunctionOnSet(f, S) = g[S]
  BY <1>2
<1>4. S = {} => SumFunctionOnSet(f, S) = 0
  BY <1>3 DEF Sums
<1>5. ASSUME S # {}
      PROVE  LET x == CHOOSE x \in S : TRUE IN
             SumFunctionOnSet(f, S) = f[x] + SumFunctionOnSet(f, S \ {x})
  <2> DEFINE x == CHOOSE x \in S : TRUE
             R == S \ {x}
  <2>1. g[S] = f[x] + g[R]
    BY <1>3, <1>5 DEF Sums
  <2>2. R \in SUBSET S
    OBVIOUS
  <2> HIDE DEF x, R
  <2>3. PICK h \in [SUBSET R -> V] : Sums(f, R, h) /\ SumFunctionOnSet(f, R) = h[R]
    BY <1>2, <2>2
  <2>4. g[R] = h[R]
    BY <1>3, <2>2, <2>3, SumsAgree
  <2>5. SumFunctionOnSet(f, S) = f[x] + SumFunctionOnSet(f, R)
    BY <1>3, <2>1, <2>3, <2>4
  <2> QED
    BY <2>5 DEF x, R
<1> QED
  BY <1>3, <1>4, <1>5

Ints(f, S) == \A x \in S : f[x] \in Int

LEMMA SumIsInt ==
  ASSUME NEW S, IsFiniteSet(S), NEW f, Ints(f, S)
  PROVE  SumFunctionOnSet(f, S) \in Int
BY SumStep DEF Additive, Ints

LEMMA SumIsNat ==
  ASSUME NEW S, IsFiniteSet(S), NEW f, \A x \in S : f[x] \in Nat
  PROVE  SumFunctionOnSet(f, S) \in Nat
BY SumStep DEF Additive

LEMMA SumOfNone ==
  ASSUME NEW f
  PROVE  SumFunctionOnSet(f, {}) = 0
<1>1. IsFiniteSet({}) /\ \A x \in {} : f[x] \in Int
  BY FS_EmptySet
<1> QED
  BY <1>1, SumStep DEF Additive

\* Any one of the numbers is the first.
LEMMA SumWithout ==
  ASSUME NEW S, IsFiniteSet(S), NEW f, Ints(f, S), NEW x \in S
  PROVE  SumFunctionOnSet(f, S) = f[x] + SumFunctionOnSet(f, S \ {x})
<1> DEFINE Sum(T) == SumFunctionOnSet(f, T)
           A == {T \in SUBSET S : \A y \in T : Sum(T) = f[y] + Sum(T \ {y})}
<1>1. \A T \in SUBSET S : IsFiniteSet(T) /\ Ints(f, T) /\ Sum(T) \in Int
  BY FS_Subset, SumIsInt DEF Ints
<1>2. ASSUME NEW T \in SUBSET S, \A y \in T : T \ {y} \in A  PROVE T \in A
  <2> SUFFICES ASSUME NEW y \in T  PROVE Sum(T) = f[y] + Sum(T \ {y})
    OBVIOUS
  <2> DEFINE c == CHOOSE z \in T : TRUE
  <2>1. c \in T /\ Sum(T) = f[c] + Sum(T \ {c})
    <3>1. T # {}
      OBVIOUS
    <3> QED
      BY <1>1, <3>1, SumStep DEF Additive, Ints
  <2> HIDE DEF c
  <2>2. CASE y = c
    BY <2>1, <2>2
  <2>3. CASE y # c
    <3>1. Sum(T \ {c}) = f[y] + Sum((T \ {c}) \ {y})
      BY <1>2, <2>1, <2>3
    <3>2. Sum(T \ {y}) = f[c] + Sum((T \ {y}) \ {c})
      BY <1>2, <2>1, <2>3
    <3>3. (T \ {c}) \ {y} = (T \ {y}) \ {c}
      OBVIOUS
    <3>4. Sum((T \ {y}) \ {c}) \in Int /\ f[y] \in Int /\ f[c] \in Int
      BY <1>1, <2>1 DEF Ints
    <3>5. Sum(T) = f[c] + (f[y] + Sum((T \ {y}) \ {c}))
      BY <2>1, <3>1, <3>3
    <3> HIDE DEF Sum
    <3> QED
      BY <3>2, <3>4, <3>5
  <2> QED
    BY <2>2, <2>3
<1>3. SUBSET S \subseteq A
  <2> HIDE DEF A
  <2> QED
    BY <1>2, SubsetInduct
<1>4. S \in SUBSET S
  OBVIOUS
<1> QED
  BY <1>3, <1>4

\* Equal numbers, equal sums.
LEMMA SumOfSame ==
  ASSUME NEW S, IsFiniteSet(S), NEW f, NEW g, Ints(f, S), \A x \in S : f[x] = g[x]
  PROVE  SumFunctionOnSet(f, S) = SumFunctionOnSet(g, S)
<1> DEFINE A == {T \in SUBSET S : SumFunctionOnSet(f, T) = SumFunctionOnSet(g, T)}
<1>1. ASSUME NEW T \in SUBSET S, \A y \in T : T \ {y} \in A  PROVE T \in A
  <2>1. CASE T = {}
    BY <2>1, SumOfNone
  <2>2. CASE T # {}
    <3>1. PICK y \in T : TRUE
      BY <2>2
    <3>2. IsFiniteSet(T) /\ Ints(f, T) /\ Ints(g, T)
      BY FS_Subset DEF Ints
    <3>3. /\ SumFunctionOnSet(f, T) = f[y] + SumFunctionOnSet(f, T \ {y})
          /\ SumFunctionOnSet(g, T) = g[y] + SumFunctionOnSet(g, T \ {y})
      BY <3>2, SumWithout
    <3>4. SumFunctionOnSet(f, T \ {y}) = SumFunctionOnSet(g, T \ {y}) /\ f[y] = g[y]
      BY <1>1
    <3> QED
      BY <3>3, <3>4
  <2> QED
    BY <2>1, <2>2
<1>2. SUBSET S \subseteq A
  <2> HIDE DEF A
  <2> QED
    BY <1>1, SubsetInduct
<1>3. S \in SUBSET S
  OBVIOUS
<1> QED
  BY <1>2, <1>3

LEMMA SumOfZeros ==
  ASSUME NEW S, IsFiniteSet(S), NEW f, \A x \in S : f[x] = 0
  PROVE  SumFunctionOnSet(f, S) = 0
<1> DEFINE A == {T \in SUBSET S : SumFunctionOnSet(f, T) = 0}
<1>1. ASSUME NEW T \in SUBSET S, \A y \in T : T \ {y} \in A  PROVE T \in A
  <2>1. CASE T = {}
    BY <2>1, SumOfNone
  <2>2. CASE T # {}
    <3>1. PICK y \in T : TRUE
      BY <2>2
    <3>2. IsFiniteSet(T) /\ Ints(f, T)
      BY FS_Subset DEF Ints
    <3>3. SumFunctionOnSet(f, T) = f[y] + SumFunctionOnSet(f, T \ {y})
      BY <3>2, SumWithout
    <3>4. SumFunctionOnSet(f, T \ {y}) = 0 /\ f[y] = 0
      BY <1>1
    <3> QED
      BY <3>3, <3>4
  <2> QED
    BY <2>1, <2>2
<1>2. SUBSET S \subseteq A
  <2> HIDE DEF A
  <2> QED
    BY <1>1, SubsetInduct
<1>3. S \in SUBSET S
  OBVIOUS
<1> QED
  BY <1>2, <1>3

\* Two sums that differ in one of the numbers.
LEMMA SumChanged ==
  ASSUME NEW S, IsFiniteSet(S), NEW f, NEW g, Ints(f, S), Ints(g, S),
         NEW x \in S, \A y \in S \ {x} : f[y] = g[y]
  PROVE  SumFunctionOnSet(f, S) - SumFunctionOnSet(g, S) = f[x] - g[x]
<1>1. /\ SumFunctionOnSet(f, S) = f[x] + SumFunctionOnSet(f, S \ {x})
      /\ SumFunctionOnSet(g, S) = g[x] + SumFunctionOnSet(g, S \ {x})
  BY SumWithout
<1>2. IsFiniteSet(S \ {x}) /\ Ints(f, S \ {x})
  BY FS_Subset DEF Ints
<1>3. SumFunctionOnSet(f, S \ {x}) = SumFunctionOnSet(g, S \ {x})
  BY <1>2, SumOfSame
<1>4. SumFunctionOnSet(f, S \ {x}) \in Int /\ f[x] \in Int /\ g[x] \in Int
  BY <1>2, SumIsInt DEF Ints
<1> QED
  BY <1>1, <1>3, <1>4

\* A sum over parts that come from some of the places, nothing from the others.
LEMMA SumByPlace ==
  ASSUME NEW D, IsFiniteSet(D), NEW c, Ints(c, D),
         NEW R, IsFiniteSet(R), NEW q, NEW from,
         \A r \in R : from[r] \in D /\ q[r] = c[from[r]],
         \A r, s \in R : from[r] = from[s] => r = s,
         \A k \in D : (\A r \in R : from[r] # k) => c[k] = 0
  PROVE  SumFunctionOnSet(q, R) = SumFunctionOnSet(c, D)
<1> DEFINE h(T) == [k \in D |-> IF \E r \in T : from[r] = k THEN c[k] ELSE 0]
           A == {T \in SUBSET R : SumFunctionOnSet(q, T) = SumFunctionOnSet(h(T), D)}
<1>1. \A T \in SUBSET R : Ints(h(T), D) /\ IsFiniteSet(T) /\ Ints(q, T)
  BY FS_Subset DEF Ints
<1>2. ASSUME NEW T \in SUBSET R, \A r \in T : T \ {r} \in A  PROVE T \in A
  <2>1. CASE T = {}
    <3>1. \A k \in D : h(T)[k] = 0
      BY <2>1
    <3>2. SumFunctionOnSet(h(T), D) = 0
      <4> HIDE DEF h
      <4> QED
        BY <3>1, SumOfZeros
    <3> QED
      BY <2>1, <3>2, SumOfNone
  <2>2. CASE T # {}
    <3>1. PICK r \in T : TRUE
      BY <2>2
    <3> DEFINE U == T \ {r}
    <3>2. SumFunctionOnSet(q, T) = q[r] + SumFunctionOnSet(q, U)
      BY <1>1, SumWithout
    <3>3. SumFunctionOnSet(q, U) = SumFunctionOnSet(h(U), D)
      BY <1>2
    <3>4. from[r] \in D /\ h(T)[from[r]] = q[r] /\ h(U)[from[r]] = 0
      OBVIOUS
    <3>5. \A k \in D \ {from[r]} : h(T)[k] = h(U)[k]
      OBVIOUS
    <3>6. /\ Ints(h(T), D) /\ Ints(h(U), D) /\ q[r] \in Int
      BY <1>1 DEF Ints
    <3> HIDE DEF h, U
    <3>7. SumFunctionOnSet(h(T), D) - SumFunctionOnSet(h(U), D) = q[r] - 0
      BY <3>4, <3>5, <3>6, SumChanged
    <3>8. SumFunctionOnSet(h(T), D) \in Int /\ SumFunctionOnSet(h(U), D) \in Int
      BY <3>6, SumIsInt
    <3>9. SumFunctionOnSet(q, T) = SumFunctionOnSet(h(T), D)
      BY <3>2, <3>3, <3>6, <3>7, <3>8
    <3> QED
      BY <3>9
  <2> QED
    BY <2>1, <2>2
<1>3. SUBSET R \subseteq A
  <2> HIDE DEF A
  <2> QED
    BY <1>2, SubsetInduct
<1>4. SumFunctionOnSet(q, R) = SumFunctionOnSet(h(R), D)
  <2>1. R \in SUBSET R
    OBVIOUS
  <2> QED
    BY <1>3, <2>1
<1>5. \A k \in D : h(R)[k] = c[k]
  OBVIOUS
<1>6. Ints(h(R), D)
  BY <1>1
<1> HIDE DEF h
<1>7. SumFunctionOnSet(h(R), D) = SumFunctionOnSet(c, D)
  BY <1>5, <1>6, SumOfSame
<1> QED
  BY <1>4, <1>7

-----------------------------------------------------------------------------
(* The items.                                                                *)

Counted(found) == IsFiniteSet(found) /\ \A item \in found : item.qty \in Nat

\* What results say of a name.
QuantityIn(found, name) == SumFunction([item \in {i \in found : i.name = name} |-> item.qty])

LEMMA QuantityIsNat ==
  ASSUME NEW found, Counted(found), NEW name
  PROVE  QuantityIn(found, name) \in Nat
<1> DEFINE S == {i \in found : i.name = name}
           f == [item \in S |-> item.qty]
<1>1. IsFiniteSet(S) /\ \A x \in S : f[x] \in Nat
  BY FS_Subset DEF Counted
<1>2. QuantityIn(found, name) = SumFunctionOnSet(f, S)
  BY DEF QuantityIn, SumFunction
<1> HIDE DEF f, S
<1> QED
  BY <1>1, <1>2, SumIsNat

LEMMA NoQuantity ==
  ASSUME NEW found, NEW name, \A i \in found : i.name # name
  PROVE  QuantityIn(found, name) = 0
<1>1. {i \in found : i.name = name} = {}
  OBVIOUS
<1>2. QuantityIn(found, name)
        = SumFunctionOnSet([item \in {i \in found : i.name = name} |-> item.qty], {})
  BY <1>1 DEF QuantityIn, SumFunction
<1> QED
  BY <1>2, SumOfNone

\* What the results say of a name, together.
QuantityOf(name) == SumFunction([k \in DOMAIN results |-> QuantityIn(results[k].items, name)])

LEMMA QuantityOfIsNat ==
  ASSUME IsFiniteSet(DOMAIN results), \A k \in DOMAIN results : Counted(results[k].items), NEW name
  PROVE  QuantityOf(name) \in Nat
<1> DEFINE f == [k \in DOMAIN results |-> QuantityIn(results[k].items, name)]
<1>1. \A k \in DOMAIN results : f[k] \in Nat
  BY QuantityIsNat
<1>2. QuantityOf(name) = SumFunctionOnSet(f, DOMAIN results)
  BY DEF QuantityOf, SumFunction
<1> HIDE DEF f
<1> QED
  BY <1>1, <1>2, SumIsNat

\* Merging twice is merging once.
LEMMA MergedTwice ==
  ASSUME IsFiniteSet(DOMAIN results), \A k \in DOMAIN results : Counted(results[k].items), NEW bpc
  PROVE  /\ DOMAIN AllMerged(bpc) = {item.name : item \in Found}
         /\ \A name \in DOMAIN AllMerged(bpc) : AllMerged(bpc)[name].qty = QuantityOf(name)
<1> DEFINE Of(k) == Merged(results[k].items, bpc)
           found == UNION {{[from |-> k, name |-> name, qty |-> Of(k)[name].qty] :
                              name \in DOMAIN Of(k)} : k \in DOMAIN results}
<1>1. AllMerged(bpc) = Merged(found, bpc)
  BY DEF AllMerged
<1>2. \A k \in DOMAIN results :
        /\ DOMAIN Of(k) = {item.name : item \in results[k].items}
        /\ \A name \in DOMAIN Of(k) : Of(k)[name].qty = QuantityIn(results[k].items, name)
  BY DEF Merged, QuantityIn
<1>3. ASSUME NEW r \in found
      PROVE  /\ r.from \in DOMAIN results
             /\ \E item \in results[r.from].items : item.name = r.name
             /\ r = [from |-> r.from, name |-> r.name,
                     qty |-> QuantityIn(results[r.from].items, r.name)]
             /\ r.qty = QuantityIn(results[r.from].items, r.name)
  <2>1. PICK k \in DOMAIN results : \E name \in DOMAIN Of(k) :
          r = [from |-> k, name |-> name, qty |-> Of(k)[name].qty]
    OBVIOUS
  <2>2. PICK name \in DOMAIN Of(k) : r = [from |-> k, name |-> name, qty |-> Of(k)[name].qty]
    BY <2>1
  <2> HIDE DEF Of, found
  <2>3. r = [from |-> k, name |-> name, qty |-> QuantityIn(results[k].items, name)]
    BY <1>2, <2>2
  <2>4. r.from = k /\ r.name = name /\ r.qty = QuantityIn(results[k].items, name)
    BY <2>3
  <2>5. \E item \in results[k].items : item.name = name
    BY <1>2
  <2> QED
    BY <2>3, <2>4, <2>5
<1>4. ASSUME NEW k \in DOMAIN results, NEW item \in results[k].items
      PROVE  \E r \in found : r.from = k /\ r.name = item.name
  <2>1. item.name \in DOMAIN Of(k)
    BY <1>2
  <2>2. [from |-> k, name |-> item.name, qty |-> Of(k)[item.name].qty] \in found
    BY <2>1
  <2> HIDE DEF Of, found
  <2> QED
    BY <2>2
<1> HIDE DEF Of, found
<1>5. {item.name : item \in found} = {item.name : item \in Found}
  BY <1>3, <1>4 DEF Found
<1>6. DOMAIN AllMerged(bpc) = {item.name : item \in found}
  BY <1>1 DEF Merged
<1>7. ASSUME NEW name \in DOMAIN AllMerged(bpc)
      PROVE  AllMerged(bpc)[name].qty = QuantityOf(name)
  <2> DEFINE D == DOMAIN results
             c == [k \in D |-> QuantityIn(results[k].items, name)]
             R == {i \in found : i.name = name}
             q == [item \in R |-> item.qty]
             from == [r \in R |-> r.from]
  <2>1. AllMerged(bpc)[name].qty = SumFunctionOnSet(q, R)
    <3>1. AllMerged(bpc)[name] = [qty |-> SumFunction(q), bpc |-> bpc[name]]
      BY <1>1, <1>6 DEF Merged
    <3> QED
      BY <3>1 DEF SumFunction
  <2>2. QuantityOf(name) = SumFunctionOnSet(c, D)
    BY DEF QuantityOf, SumFunction
  <2>3. \A r \in R : from[r] \in D /\ q[r] = c[from[r]]
    BY <1>3
  <2>4. \A r, s \in R : from[r] = from[s] => r = s
    BY <1>3
  <2>5. ASSUME NEW k \in D, \A r \in R : from[r] # k  PROVE c[k] = 0
    <3>1. ASSUME NEW i \in results[k].items, i.name = name  PROVE FALSE
      <4>1. PICK r \in found : r.from = k /\ r.name = name
        BY <1>4, <3>1
      <4>2. r \in R /\ from[r] = k
        BY <4>1
      <4> QED
        BY <2>5, <4>2
    <3> QED
      BY <3>1, NoQuantity
  <2>6. IsFiniteSet(D) /\ Ints(c, D)
    BY QuantityIsNat DEF Ints
  <2>7. from \in [R -> D] /\ DOMAIN from = R
    BY <2>3
  <2> HIDE DEF D, c, R, q, from
  <2>8. IsFiniteSet(R)
    <3>1. from \in Injection(R, D)
      BY <2>4, <2>7 DEF Injection, IsInjective
    <3> QED
      BY <2>6, <3>1, FS_Injection
  <2>9. SumFunctionOnSet(q, R) = SumFunctionOnSet(c, D)
    BY <2>3, <2>4, <2>5, <2>6, <2>8, SumByPlace
  <2> QED
    BY <2>1, <2>2, <2>9
<1> QED
  BY <1>5, <1>6, <1>7

\* Lines of a text: there is an end to them, and their quantities are read.
Text(in) == IsFiniteSet(DOMAIN in) /\ \A i \in DOMAIN in : in[i].qty \in Nat

LEMMA ItemsCounted ==
  ASSUME NEW re, NEW i, NEW line, line.qty \in Nat
  PROVE  Counted(Items(re, i, line))
<1>1. Quantity(re, line) \in Nat
  BY DEF Quantity
<1>2. CASE re = "ammo"
  <2> DEFINE a == Item(i, 1, Name(re, line), 1, FALSE)
             b == Item(i, 2, line.ammo, 1, FALSE)
  <2>1. Items(re, i, line) = {a, b} /\ a.qty = 1 /\ b.qty = 1
    BY <1>2 DEF Items, Item
  <2> HIDE DEF a, b
  <2>2. IsFiniteSet({a} \cup {b}) /\ {a, b} = {a} \cup {b}
    BY FS_Singleton, FS_Union
  <2> QED
    BY <2>1, <2>2 DEF Counted
<1>3. CASE re = "wallet"
  BY <1>3, FS_EmptySet DEF Items, Counted
<1>4. CASE re # "ammo" /\ re # "wallet"
  <2> DEFINE a == Item(i, 1, Name(re, line), Quantity(re, line), re = "cargo" /\ line.form = "copy")
  <2>1. Items(re, i, line) = {a} /\ a.qty \in Nat
    BY <1>1, <1>4 DEF Items, Item
  <2> HIDE DEF a
  <2> QED
    BY <2>1, FS_Singleton DEF Counted
<1> QED
  BY <1>2, <1>3, <1>4

LEMMA OneCounted ==
  ASSUME NEW i, NEW part, NEW name, NEW qty \in Nat, NEW bpc
  PROVE  Counted({Item(i, part, name, qty, bpc)})
<1> DEFINE a == Item(i, part, name, qty, bpc)
<1>1. a.qty \in Nat
  BY DEF Item
<1> HIDE DEF a
<1>2. Counted({a})
  BY <1>1, FS_Singleton DEF Counted
<1> QED
  BY <1>2 DEF a

LEMMA CountedUnion ==
  ASSUME NEW S, IsFiniteSet(S), NEW f, \A x \in S : Counted(f[x])
  PROVE  Counted(UNION {f[x] : x \in S})
BY UnionIsFinite DEF Counted

LEMMA CountedSubset ==
  ASSUME NEW S, Counted(S), NEW R \in SUBSET S
  PROVE  Counted(R)
BY FS_Subset DEF Counted

LEMMA CountedBoth ==
  ASSUME NEW S, NEW R, Counted(S), Counted(R)
  PROVE  Counted(S \cup R)
BY FS_Union DEF Counted

LEMMA NothingCounted ==
  ASSUME NEW in
  PROVE  Counted(Nothing(in).items) /\ Counted({}) /\ Counted(Panic.items)
<1>1. Counted({})
  BY FS_EmptySet DEF Counted
<1>2. Nothing(in).items = {}
  BY DEF Nothing, Parsed
<1>3. Panic.items = {}
  BY DEF Panic, Nothing, Parsed
<1> QED
  BY <1>1, <1>2, <1>3

\* The parsers that read line by line find finitely many items, with quantities.
LEMMA RegexCounted ==
  ASSUME NEW res, NEW in, Text(in)
  PROVE  Counted(RegexParse(res, in).items)
<1> DEFINE S == {i \in DOMAIN in : Reader(res, in[i]) > 0}
           f == [i \in S |-> Items(res[Reader(res, in[i])], i, in[i])]
<1>1. IsFiniteSet(S)
  BY FS_Subset DEF Text
<1>2. \A i \in S : Counted(f[i])
  BY ItemsCounted DEF Text
<1>3. RegexParse(res, in).items = UNION {f[i] : i \in S}
  BY DEF RegexParse, Parsed
<1> HIDE DEF S, f
<1> QED
  BY <1>1, <1>2, <1>3, CountedUnion

LEMMA ListingCounted ==
  ASSUME NEW in, Text(in)
  PROVE  Counted(ContextListing(in).items)
<1> DEFINE S == {i \in DOMAIN in : ListingStage(in[i]) > 0}
           f == [i \in S |-> Items(ListingStages[ListingStage(in[i])], i, in[i])]
<1>1. IsFiniteSet(S)
  BY FS_Subset DEF Text
<1>2. \A i \in S : Counted(f[i])
  BY ItemsCounted DEF Text
<1>3. ContextListing(in).items = UNION {f[i] : i \in S}
  BY DEF ContextListing, Parsed
<1> HIDE DEF S, f
<1> QED
  BY <1>1, <1>2, <1>3, CountedUnion

LEMMA SurveyCounted ==
  ASSUME NEW in, Text(in)
  PROVE  Counted(ParseSurveyScan(in).items)
<1> DEFINE scan == RegexParse(<<"survey">>, in)
<1>1. Counted(scan.items)
  BY RegexCounted
<1>2. scan = [lines |-> scan.lines, items |-> scan.items, rest |-> scan.rest,
              panics |-> scan.panics]
  BY DEF RegexParse, Parsed
<1>3. ParseSurveyScan(in) = IF scan.lines = {} THEN Nothing(in) ELSE [scan EXCEPT !.rest = <<>>]
  BY DEF ParseSurveyScan
<1> HIDE DEF scan
<1>4. ParseSurveyScan(in).items \in {Nothing(in).items, scan.items}
  BY <1>2, <1>3
<1> QED
  BY <1>1, <1>4, NothingCounted

LEMMA TextWithout ==
  ASSUME NEW in, Text(in), NEW lines
  PROVE  Text(Without(in, lines))
<1>1. IsFiniteSet(DOMAIN in \ lines)
  BY FS_Subset DEF Text
<1> QED
  BY <1>1 DEF Text, Without, Only

LEMMA FittingCounted ==
  ASSUME NEW in, Text(in)
  PROVE  Counted(ParseFitting(in).items)
<1> DEFINE headers == {i \in DOMAIN in : in[i].form = "fitHeader"}
           listing == ParseListing(Without(in, headers))
<1>1. Counted(listing.items)
  BY RegexCounted, TextWithout DEF ParseListing
<1>2. listing = [lines |-> listing.lines, items |-> listing.items,
                 rest |-> listing.rest, panics |-> listing.panics]
  BY DEF ParseListing, RegexParse, Parsed
<1>3. ParseFitting(in) = IF headers = {} THEN Nothing(in)
                         ELSE [listing EXCEPT !.lines = listing.lines \cup headers]
  BY DEF ParseFitting
<1> HIDE DEF listing, headers
<1>4. ParseFitting(in).items \in {Nothing(in).items, listing.items}
  BY <1>2, <1>3
<1> QED
  BY <1>1, <1>4, NothingCounted

LEMMA StringsText ==
  ASSUME NEW in, Numbered(in), Text(in)
  PROVE  Text(Strings(in)) /\ DOMAIN Strings(in) = 0 .. Cardinality(DOMAIN Strings(in)) - 1
BY StringsAre DEF Text, Numbered

LEMMA EFTCounted ==
  ASSUME NEW in, Numbered(in), Text(in)
  PROVE  Counted(ParseEFT(in).items)
<1> DEFINE lines   == Strings(in)
           slots   == {i \in DOMAIN lines : lines[i].form = "emptySlot"}
           listing == ParseListing(Without(lines, slots \cup {0}))
           ship    == Item(0, 1, lines[0].name, 1, FALSE)
<1>1. Counted(listing.items)
  BY StringsText, RegexCounted, TextWithout DEF ParseListing
<1>2. Counted({ship})
  BY OneCounted
<1>3. \/ ParseEFT(in) = Nothing(in)
      \/ ParseEFT(in) = Parsed({0} \cup slots \cup listing.lines, {ship} \cup listing.items,
                               listing.rest)
  BY DEF ParseEFT
<1> HIDE DEF lines, slots, listing, ship
<1>4. \/ ParseEFT(in) = Nothing(in)
      \/ ParseEFT(in).items = {ship} \cup listing.items
  BY <1>3 DEF Parsed
<1> QED
  BY <1>1, <1>2, <1>4, NothingCounted, CountedBoth

LEMMA PartsFinite ==
  ASSUME NEW line
  PROVE  IsFiniteSet(DOMAIN Parts(line))
<1>1. Parts(line) \in
        {<<>>, <<"name", "qty">>, <<"name", "ammo">>, <<"name", "junk">>,
         <<"name", "junk", "junk">>, <<"junk", "name", "junk", "qty">>, <<"qty", "name">>,
         <<"junk", "name">>, <<"name", "junk", "qty">>}
  BY DEF Parts, PartsOf
<1>2. DOMAIN Parts(line) \in {1 .. 0, 1 .. 2, 1 .. 3, 1 .. 4}
  BY <1>1
<1>3. \A n \in {0, 2, 3, 4} : IsFiniteSet(1 .. n)
  BY FS_Interval
<1> QED
  BY <1>2, <1>3

LEMMA HeuristicCounted ==
  ASSUME NEW in, Text(in)
  PROVE  Counted(Heuristic(in).items)
<1> DEFINE Of(i) == IF HeuristicMethod1(i, in[i]) # {} THEN HeuristicMethod1(i, in[i])
                    ELSE HeuristicMethod2(i, in[i])
           S == {i \in DOMAIN in : Of(i) # {}}
           f == [i \in S |-> Of(i)]
<1>1. IsFiniteSet(S)
  BY FS_Subset DEF Text
<1>2. ASSUME NEW i \in DOMAIN in  PROVE Counted(HeuristicMethod1(i, in[i]))
  <2> DEFINE line  == in[i]
             parts == Parts(line)
             known == {k \in DOMAIN parts : HasType(PartName(line, parts[k]))}
             g == [k \in known |-> {Item(i, k, PartName(line, parts[k]), 1, FALSE)}]
             one == Item(i, 1, line.name, line.qty, FALSE)
  <2>1. IsFiniteSet(known)
    BY PartsFinite, FS_Subset
  <2>2. \A k \in known : Counted(g[k])
    BY OneCounted
  <2>3. Counted(UNION {g[k] : k \in known})
    <3> HIDE DEF known, g
    <3> QED
      BY <2>1, <2>2, CountedUnion
  <2>4. Counted({one})
    BY OneCounted DEF Text
  <2>5. UNION {g[k] : k \in known}
          = {Item(i, k, PartName(line, parts[k]), 1, FALSE) : k \in known}
    OBVIOUS
  <2>6. HeuristicMethod1(i, line) \in
          {{one}, {Item(i, k, PartName(line, parts[k]), 1, FALSE) : k \in known}}
    BY DEF HeuristicMethod1
  <2> QED
    BY <2>3, <2>4, <2>5, <2>6
<1>3. ASSUME NEW i \in DOMAIN in  PROVE Counted(HeuristicMethod2(i, in[i]))
  BY OneCounted, NothingCounted DEF HeuristicMethod2
<1>4. \A i \in S : Counted(f[i])
  BY <1>2, <1>3
<1>5. Heuristic(in).items = UNION {f[i] : i \in S}
  BY DEF Heuristic, Parsed
<1> HIDE DEF S, f
<1> QED
  BY <1>1, <1>4, <1>5, CountedUnion

-----------------------------------------------------------------------------
(* The sections of a killmail.                                               *)

\* Lines with the numbers of a text, and quantities.
Whole(lines) == Text(lines) /\ DOMAIN lines = 0 .. Cardinality(DOMAIN lines) - 1

\* A section is within the lines, and the next one begins after it.
LEMMA BodyInside ==
  ASSUME NEW lines, Whole(lines), NEW from \in Nat, NEW header
  PROVE  LET body == Body(lines, from, header) IN
         /\ body \subseteq DOMAIN lines
         /\ After(lines, from, body) \in Nat /\ After(lines, from, body) >= from
<1> DEFINE n == Cardinality(DOMAIN lines)
           Ends(i) == /\ lines[i].form = "blank"
                      /\ header = "parties" /\ i + 1 < n
                           => lines[i + 1].form # "player"
           ends == {i \in from .. n - 1 : Ends(i)}
           body == Body(lines, from, header)
<1>1. n \in Nat /\ DOMAIN lines = 0 .. n - 1
  BY FS_CardinalityType DEF Whole, Text
<1>2. body = IF ends # {} THEN from .. Min(ends) - 1 ELSE from .. n - 1
  BY DEF Body, Min
<1>3. ends # {} => Min(ends) \in from .. n - 1
  <2>1. ends \in SUBSET Nat /\ ends \subseteq from .. n - 1
    BY <1>1
  <2> HIDE DEF ends
  <2> QED
    BY <2>1, MinIs
<1> HIDE DEF ends, body, n
<1>4. body \subseteq from .. n - 1
  BY <1>1, <1>2, <1>3
<1>5. Cardinality(body) \in Nat
  <2>1. IsFiniteSet(from .. n - 1)
    BY <1>1, FS_Interval
  <2> QED
    BY <1>4, <2>1, FS_Subset, FS_CardinalityType
<1>6. After(lines, from, body) = IF from + Cardinality(body) < n THEN from + Cardinality(body)
                                 ELSE IF body = {} THEN from ELSE n - 1
  BY DEF After, n
<1>7. ASSUME body # {}  PROVE n - 1 >= from
  <2>1. PICK i \in body : TRUE
    BY <1>7
  <2>2. i \in from .. n - 1
    BY <1>4, <2>1
  <2> QED
    BY <1>1, <2>2
<1>8. After(lines, from, body) \in Nat /\ After(lines, from, body) >= from
  BY <1>1, <1>5, <1>6, <1>7
<1> QED
  BY <1>1, <1>4, <1>8 DEF body

Places(lines) == Nat \X [destroyed : SUBSET DOMAIN lines, dropped : SUBSET DOMAIN lines]

AllItems(lines) == UNION {Items("killItem", i, lines[i]) : i \in DOMAIN lines}

Mails(lines) == [how : {"whole", "none", "cut"}, items : SUBSET AllItems(lines)]

\* Where the section after s begins, and what its lists are then.
NextPlace(lines, s) ==
  LET header == lines[s[1]].form
      body   == Body(lines, s[1] + 2, header)
  IN  <<After(lines, s[1] + 2, body) + 1,
        IF header = "parties" THEN s[2] ELSE [s[2] EXCEPT ![header] = body]>>

\* The definition of Sections, for one place.
SectionAt(lines, g, s) ==
  LET n       == Cardinality(DOMAIN lines)
      End(how, found) == [how |-> how, items |-> found]
      at      == s[1]
      header  == lines[at].form
      from    == at + 2
      body    == Body(lines, from, header)
      after   == After(lines, from, body) + 1
      parties == header = "parties"
      found   == UNION {Items("killItem", i, lines[i]) : i \in s[2].destroyed
                                                         \cup s[2].dropped}
  IN  IF at >= n THEN End("whole", found)
      ELSE IF header \notin {"parties", "destroyed", "dropped"} THEN End("none", {})
      ELSE IF at = n - 1 THEN End("cut", {})
      ELSE IF (parties /\ ~Players(lines, body)) \/ (~parties /\ ~KillItems(lines, body))
           THEN End("none", {})
      ELSE g[<<after, IF parties THEN s[2] ELSE [s[2] EXCEPT ![header] = body]>>]

SectionsFor(lines, g) == g = [s \in Places(lines) |-> SectionAt(lines, g, s)]

LEMMA SectionsAre ==
  ASSUME NEW lines
  PROVE  Sections(lines) = CHOOSE g : SectionsFor(lines, g)
BY DEF Sections, SectionsFor, SectionAt, Places

\* A section ends the mail, or it hands on to a later place.
LEMMA SectionIs ==
  ASSUME NEW lines, Whole(lines), NEW s \in Places(lines)
  PROVE  \/ \E v \in Mails(lines) : \A g : SectionAt(lines, g, s) = v
         \/ /\ \A g : SectionAt(lines, g, s) = g[NextPlace(lines, s)]
            /\ NextPlace(lines, s) \in Places(lines)
            /\ NextPlace(lines, s)[1] > s[1]
            /\ s[1] < Cardinality(DOMAIN lines)
<1> DEFINE n == Cardinality(DOMAIN lines)
           at == s[1]
           header == lines[at].form
           body == Body(lines, at + 2, header)
           after == After(lines, at + 2, body) + 1
           found == UNION {Items("killItem", i, lines[i]) : i \in s[2].destroyed
                                                            \cup s[2].dropped}
           End(how, list) == [how |-> how, items |-> list]
<1>1. /\ n \in Nat /\ at \in Nat /\ s[2].destroyed \subseteq DOMAIN lines
      /\ s[2].dropped \subseteq DOMAIN lines
      /\ s[2] \in [destroyed : SUBSET DOMAIN lines, dropped : SUBSET DOMAIN lines]
  BY FS_CardinalityType DEF Whole, Text, Places
<1>2. found \subseteq AllItems(lines)
  BY <1>1 DEF AllItems
<1>3. body \subseteq DOMAIN lines /\ after \in Nat /\ after > at
  <2>1. at + 2 \in Nat
    BY <1>1
  <2>2. body \subseteq DOMAIN lines /\ After(lines, at + 2, body) \in Nat
        /\ After(lines, at + 2, body) >= at + 2
    BY <2>1, BodyInside
  <2> HIDE DEF body
  <2> QED
    BY <1>1, <2>2
<1>4. End("whole", found) \in Mails(lines) /\ End("none", {}) \in Mails(lines)
      /\ End("cut", {}) \in Mails(lines)
  BY <1>2 DEF Mails
<1>5. \/ \A g : SectionAt(lines, g, s) = End("whole", found)
      \/ \A g : SectionAt(lines, g, s) = End("none", {})
      \/ \A g : SectionAt(lines, g, s) = End("cut", {})
      \/ /\ \A g : SectionAt(lines, g, s) = g[NextPlace(lines, s)]
         /\ at < n - 1 /\ header \in {"parties", "destroyed", "dropped"}
  BY <1>1 DEF SectionAt, NextPlace
<1>6. ASSUME at < n - 1, header \in {"parties", "destroyed", "dropped"}
      PROVE  NextPlace(lines, s) \in Places(lines) /\ NextPlace(lines, s)[1] > s[1] /\ s[1] < n
  <2> DEFINE lists == IF header = "parties" THEN s[2] ELSE [s[2] EXCEPT ![header] = body]
  <2>1. NextPlace(lines, s) = <<after, lists>>
    BY DEF NextPlace
  <2>2. lists \in [destroyed : SUBSET DOMAIN lines, dropped : SUBSET DOMAIN lines]
    <3> HIDE DEF body
    <3> QED
      BY <1>1, <1>3, <1>6
  <2> HIDE DEF lists, after, body
  <2> QED
    BY <1>1, <1>3, <1>6, <2>1, <2>2 DEF Places
<1> HIDE DEF found
<1> QED
  BY <1>4, <1>5, <1>6

\* A killmail has an end: each section begins after the one before it.
LEMMA SectionsTyped ==
  ASSUME NEW lines, Whole(lines)
  PROVE  \A s \in Places(lines) : Sections(lines)[s] \in Mails(lines)
<1> DEFINE n == Cardinality(DOMAIN lines)
           S == Places(lines)
           V == Mails(lines)
           pred == [s \in S |-> {u \in S : u = NextPlace(lines, s) /\ u[1] > s[1] /\ s[1] < n}]
           F == [s \in S |-> [h \in [pred[s] -> V] |-> SectionAt(lines, h, s)]]
<1>1. n \in Nat /\ \A s \in S : s[1] \in Nat
  BY FS_CardinalityType DEF Whole, Text, Places
<1>2. \A s \in S : pred[s] = {u \in S : u = NextPlace(lines, s) /\ u[1] > s[1] /\ s[1] < n}
  OBVIOUS
<1>3. ASSUME NEW s \in S
      PROVE  \/ \E v \in V : \A g : SectionAt(lines, g, s) = v
             \/ /\ \A g : SectionAt(lines, g, s) = g[NextPlace(lines, s)]
                /\ NextPlace(lines, s) \in pred[s]
  BY SectionIs
<1>4. ASSUME NEW s \in S, NEW h \in [pred[s] -> V]
      PROVE  F[s][h] = SectionAt(lines, h, s)
  OBVIOUS
<1> HIDE DEF S, V, pred, F, n
<1>5. WellFounded(pred, S)
  <2> SUFFICES ASSUME NEW T \in SUBSET S, T # {}
               PROVE  \E s \in T : pred[s] \cap T = {}
    BY DEF WellFounded
  <2>1. CASE \E s \in T : s[1] >= n
    <3>1. PICK s \in T : s[1] >= n
      BY <2>1
    <3>2. pred[s] = {}
      BY <1>1, <1>2, <3>1
    <3> QED
      BY <3>2
  <2>2. CASE \A s \in T : ~(s[1] >= n)
    <3> DEFINE rest == {n - s[1] : s \in T}
    <3>1. rest \in SUBSET Nat /\ rest # {}
      BY <1>1, <2>2
    <3>2. Min(rest) \in rest /\ \A k \in rest : Min(rest) <= k
      <4> HIDE DEF rest
      <4> QED
        BY <3>1, MinIs
    <3>3. PICK s \in T : Min(rest) = n - s[1]
      BY <3>2
    <3>4. ASSUME NEW u \in pred[s] \cap T  PROVE FALSE
      <4>1. u \in S /\ u[1] > s[1]
        BY <1>2, <3>4
      <4>2. n - s[1] <= n - u[1]
        BY <3>2, <3>3
      <4> QED
        BY <1>1, <4>1, <4>2
    <3> QED
      BY <3>4
  <2> QED
    BY <2>1, <2>2
<1>6. Recursive(F, pred, S, V)
  <2> SUFFICES ASSUME NEW s \in S
               PROVE  pred[s] \subseteq S /\ \A h \in [pred[s] -> V] : F[s][h] \in V
    BY DEF Recursive
  <2>1. pred[s] \subseteq S
    BY <1>2
  <2>2. ASSUME NEW h \in [pred[s] -> V]  PROVE F[s][h] \in V
    BY <1>3, <1>4
  <2> QED
    BY <2>1, <2>2
<1>7. ASSUME NEW g, NEW s \in S,
             [u \in pred[s] |-> g[u]] \in [pred[s] -> V]
      PROVE  Value(F, pred, g, s) = SectionAt(lines, g, s)
  <2> DEFINE h == [u \in pred[s] |-> g[u]]
  <2>1. Value(F, pred, g, s) = SectionAt(lines, h, s)
    BY <1>4, <1>7 DEF Value
  <2>2. \A u \in pred[s] : h[u] = g[u]
    OBVIOUS
  <2> HIDE DEF h
  <2>3. SectionAt(lines, h, s) = SectionAt(lines, g, s)
    BY <1>3, <2>2
  <2> QED
    BY <2>1, <2>3
<1>8. PICK g \in [S -> V] : Solves(F, pred, g, S)
  BY <1>5, <1>6, Recursion
<1>9. SectionsFor(lines, g)
  <2>1. ASSUME NEW s \in S  PROVE g[s] = SectionAt(lines, g, s)
    <3>1. pred[s] \subseteq S
      BY <1>2
    <3>2. g[s] = Value(F, pred, g, s)
      BY <1>8 DEF Solves
    <3>3. [u \in pred[s] |-> g[u]] \in [pred[s] -> V]
      BY <3>1
    <3> QED
      BY <1>7, <3>2, <3>3
  <2>2. g = [s \in S |-> SectionAt(lines, g, s)]
    BY <2>1
  <2> QED
    BY <2>2 DEF SectionsFor, S
<1>10. SectionsFor(lines, Sections(lines))
  <2>1. \E f : SectionsFor(lines, f)
    BY <1>9
  <2> QED
    BY <2>1, SectionsAre
\* Another solution has the same values.
<1>11. \A s \in S : Sections(lines)[s] = g[s]
  <2> DEFINE f == Sections(lines)
  <2>1. \A s \in S : f[s] = SectionAt(lines, f, s) /\ g[s] = SectionAt(lines, g, s)
    BY <1>9, <1>10 DEF SectionsFor, S
  <2> HIDE DEF f
  <2>2. ASSUME NEW s \in S, \A u \in pred[s] : f[u] = g[u]  PROVE f[s] = g[s]
    BY <1>3, <2>1, <2>2
  <2>3. \A s \in S : pred[s] \subseteq S
    BY <1>2
  <2>4. \A s \in S : f[s] = g[s]
    BY <1>5, <2>2, <2>3, SameValues
  <2> QED
    BY <2>4 DEF f
<1> QED
  BY <1>11 DEF S, V

\* The items of a killmail are finitely many, with quantities.
LEMMA KillmailCounted ==
  ASSUME NEW in, Numbered(in), Text(in)
  PROVE  Counted(ParseKillmail(in).items)
<1> DEFINE lines  == Strings(in)
           victim == Body(lines, 2, "victim")
           start  == <<After(lines, 2, victim) + 1, [destroyed |-> {}, dropped |-> {}]>>
           mail   == Sections(lines)[start]
           whole  == CASE mail.how = "whole" -> Parsed(DOMAIN lines, mail.items, <<>>)
                       [] mail.how = "none"  -> Nothing(in)
                       [] OTHER              -> Panic
           fate   == IF ~Players(lines, victim) THEN Nothing(in) ELSE whole
<1>1. Whole(lines)
  BY StringsText DEF Whole
<1>2. mail \in Mails(lines)
  <2>1. start \in Places(lines)
    <3>1. After(lines, 2, victim) \in Nat
      BY <1>1, BodyInside
    <3> HIDE DEF victim
    <3> QED
      BY <3>1 DEF Places
  <2> HIDE DEF start
  <2> QED
    BY <1>1, <2>1, SectionsTyped
<1>3. Counted(AllItems(lines))
  <2> DEFINE f == [i \in DOMAIN lines |-> Items("killItem", i, lines[i])]
  <2>1. IsFiniteSet(DOMAIN lines) /\ \A i \in DOMAIN lines : Counted(f[i])
    BY <1>1, ItemsCounted DEF Whole, Text
  <2>2. AllItems(lines) = UNION {f[i] : i \in DOMAIN lines}
    BY DEF AllItems
  <2> HIDE DEF f, lines
  <2> QED
    BY <2>1, <2>2, CountedUnion
<1>4. Counted(mail.items)
  <2> HIDE DEF mail
  <2>1. mail.items \in SUBSET AllItems(lines)
    BY <1>2 DEF Mails
  <2> QED
    BY <1>3, <2>1, CountedSubset
<1>5. Counted(whole.items)
  <2>1. \/ whole = Nothing(in) \/ whole = Panic
        \/ whole = Parsed(DOMAIN lines, mail.items, <<>>)
    <3> HIDE DEF mail
    <3> QED
      OBVIOUS
  <2> HIDE DEF mail, whole
  <2> QED
    BY <1>4, <2>1, NothingCounted DEF Parsed
<1>6. ParseKillmail(in) \in {Nothing(in), Panic, fate}
  BY DEF ParseKillmail
<1> HIDE DEF whole
<1> QED
  BY <1>5, <1>6, NothingCounted

-----------------------------------------------------------------------------
(* Bags of materials.                                                        *)

\* What the corporation buys.
Bought == {t \in Types : TypeInfo[t].kind = "buyback"}

Bags == UNION {[D -> Nat] : D \in SUBSET Bought}

LEMMA BagIs ==
  ASSUME NEW bag
  PROVE  bag \in Bags <=> /\ DOMAIN bag \subseteq Bought
                          /\ bag = [m \in DOMAIN bag |-> bag[m]]
                          /\ \A m \in DOMAIN bag : bag[m] \in Nat
<1>1. ASSUME bag \in Bags
      PROVE  /\ DOMAIN bag \subseteq Bought
             /\ bag = [m \in DOMAIN bag |-> bag[m]]
             /\ \A m \in DOMAIN bag : bag[m] \in Nat
  <2>1. PICK D \in SUBSET Bought : bag \in [D -> Nat]
    BY <1>1 DEF Bags
  <2> QED
    BY <2>1
<1>2. ASSUME DOMAIN bag \subseteq Bought, bag = [m \in DOMAIN bag |-> bag[m]],
             \A m \in DOMAIN bag : bag[m] \in Nat
      PROVE  bag \in Bags
  <2>1. bag \in [DOMAIN bag -> Nat]
    BY <1>2
  <2> QED
    BY <1>2, <2>1 DEF Bags
<1> QED
  BY <1>1, <1>2

LEMMA AmountIsNat ==
  ASSUME NEW bag \in Bags, NEW m
  PROVE  Amount(bag, m) \in Nat
BY BagIs DEF Amount

LEMMA NoneIs == None \in Bags /\ \A m : Amount(None, m) = 0
<1>1. DOMAIN None = {} /\ None = [m \in DOMAIN None |-> None[m]]
  BY DEF None
<1> QED
  BY <1>1, BagIs DEF Amount

\* More of one material changes that one alone.
LEMMA UpdatedIs ==
  ASSUME NEW bag \in Bags, NEW efficiency \in Nat, NEW m \in Bought, NEW qty \in Nat
  PROVE  LET updated == updateBuybackItems(bag, efficiency, m, qty)
             more    == (qty * efficiency) \div 100 IN
         /\ updated \in Bags
         /\ more \in Nat
         /\ \A t : Amount(updated, t) = Amount(bag, t) + (IF t = m THEN more ELSE 0)
<1> DEFINE more == (qty * efficiency) \div 100
           updated == updateBuybackItems(bag, efficiency, m, qty)
           one == [t \in {m} |-> more]
<1>1. more \in Nat
  <2>1. qty * efficiency \in Nat
    OBVIOUS
  <2> QED
    BY <2>1
<1>2. DOMAIN one = {m} /\ one[m] = more
  OBVIOUS
<1> HIDE DEF more
<1>3. updated = [t \in DOMAIN bag \cup {m} |-> Amount(bag, t) + Amount(one, t)]
  BY <1>2 DEF updateBuybackItems, Added, more
<1> HIDE DEF one
<1>4. \A t : Amount(one, t) = IF t = m THEN more ELSE 0
  BY <1>2 DEF Amount
<1>5. \A t : Amount(bag, t) \in Nat
  BY AmountIsNat
<1> HIDE DEF updated
<1>6. \A t : Amount(updated, t) = Amount(bag, t) + (IF t = m THEN more ELSE 0)
  <2> SUFFICES ASSUME NEW t
               PROVE  Amount(updated, t) = Amount(bag, t) + (IF t = m THEN more ELSE 0)
    OBVIOUS
  <2>1. CASE t \in DOMAIN bag \cup {m}
    BY <1>3, <1>4, <2>1 DEF Amount
  <2>2. CASE t \notin DOMAIN bag \cup {m}
    <3>1. Amount(updated, t) = 0 /\ Amount(bag, t) = 0 /\ t # m
      BY <1>3, <2>2 DEF Amount
    <3> QED
      BY <3>1
  <2> QED
    BY <2>1, <2>2
<1>7. updated \in Bags
  <2>1. DOMAIN bag \subseteq Bought
    BY BagIs
  <2>2. DOMAIN updated \subseteq Bought /\ \A t \in DOMAIN updated : updated[t] \in Nat
    BY <1>1, <1>3, <1>4, <1>5, <2>1
  <2>3. updated = [t \in DOMAIN updated |-> updated[t]]
    BY <1>3
  <2> QED
    BY <2>2, <2>3, BagIs
<1> QED
  BY <1>1, <1>6, <1>7 DEF more, updated

LEMMA TogetherIs ==
  ASSUME NEW bags, IsFiniteSet(DOMAIN bags), \A k \in DOMAIN bags : bags[k] \in Bags
  PROVE  Together(bags) \in Bags
<1>1. ASSUME NEW m  PROVE SumFunction([k \in DOMAIN bags |-> Amount(bags[k], m)]) \in Nat
  <2> DEFINE f == [k \in DOMAIN bags |-> Amount(bags[k], m)]
  <2>1. \A k \in DOMAIN bags : f[k] \in Nat
    BY AmountIsNat
  <2>2. SumFunction(f) = SumFunctionOnSet(f, DOMAIN bags)
    BY DEF SumFunction
  <2> HIDE DEF f
  <2>3. SumFunction(f) \in Nat
    BY <2>1, <2>2, SumIsNat
  <2> QED
    BY <2>3 DEF f
<1> DEFINE D == UNION {DOMAIN bags[k] : k \in DOMAIN bags}
           Sum(m) == SumFunction([k \in DOMAIN bags |-> Amount(bags[k], m)])
<1>2. D \subseteq Bought
  BY BagIs
<1>3. Together(bags) = [m \in D |-> Sum(m)]
  BY DEF Together
<1>4. \A m \in D : Sum(m) \in Nat
  BY <1>1
<1> HIDE DEF D, Sum
<1>5. /\ DOMAIN Together(bags) = D
      /\ \A m \in D : Together(bags)[m] \in Nat
      /\ Together(bags) = [m \in D |-> Together(bags)[m]]
  BY <1>3, <1>4
<1> QED
  BY <1>2, <1>5, BagIs

-----------------------------------------------------------------------------
(* Taking a type apart.                                                      *)

\* The least set that holds what can be taken apart into its own elements.
LEMMA DivisibleIs ==
  /\ Divisible \subseteq Types
  /\ Divisible \subseteq TakenApart(Divisible)
  /\ \A known \in SUBSET Types : TakenApart(known) \subseteq known => Divisible \subseteq known
<1>1. Divisible \subseteq Types
  BY DEF Divisible
<1>2. \A known \in SUBSET Types : TakenApart(known) \subseteq known => Divisible \subseteq known
  BY DEF Divisible
<1>3. \A A, B \in SUBSET Types : A \subseteq B => TakenApart(A) \subseteq TakenApart(B)
  BY DEF TakenApart
<1>4. \A A \in SUBSET Types : TakenApart(A) \in SUBSET Types
  BY DEF TakenApart
<1>5. TakenApart(Divisible) \subseteq Divisible
  <2> SUFFICES ASSUME NEW t \in TakenApart(Divisible), NEW known \in SUBSET Types,
                      TakenApart(known) \subseteq known
               PROVE  t \in known
    BY <1>1, <1>4 DEF Divisible
  <2>1. TakenApart(Divisible) \subseteq TakenApart(known)
    BY <1>1, <1>2, <1>3
  <2> QED
    BY <2>1
<1>6. TakenApart(TakenApart(Divisible)) \subseteq TakenApart(Divisible)
  BY <1>1, <1>3, <1>4, <1>5
<1> QED
  BY <1>1, <1>2, <1>4, <1>6

Calls == Divisible \X Nat \X Nat

MaterialOf(s, k) ==
  LET type == TypeInfo[s[1]]
  IN  <<type.materials[k].name, (s[2] \div type.portion) * type.materials[k].qty,
        IF type.kind = "asteroid" THEN Rate["REFINE"] ELSE Rate["REPROCESS"]>>

\* The definition of Collect, for one type.
CollectAt(g, s) ==
  LET type    == TypeInfo[s[1]]
      portion == s[2] \div type.portion
      rate    == IF type.kind = "asteroid" THEN Rate["REFINE"] ELSE Rate["REPROCESS"]
  IN  IF type.kind = "buyback"
      THEN updateBuybackItems(None, s[3], s[1], portion)
      ELSE Together([k \in DOMAIN type.materials |->
                       g[<<type.materials[k].name, portion * type.materials[k].qty, rate>>]])

LEMMA CollectIs ==
  Collect = CHOOSE g : g = [s \in Divisible \X Nat \X Nat |-> CollectAt(g, s)]
BY DEF Collect, CollectAt

\* Every divisible type is taken apart into a bag: each call is about a type that was
\* known to be divisible before, so no chain of calls is without end.
LEMMA CollectIsBag ==
  Collect \in [Calls -> Bags]
<1> DEFINE S == Calls
           parts(s) == IF TypeInfo[s[1]].kind = "buyback" THEN {}
                       ELSE {MaterialOf(s, k) : k \in DOMAIN TypeInfo[s[1]].materials}
           pred == [s \in S |-> parts(s)]
           F == [s \in S |-> [h \in [pred[s] -> Bags] |-> CollectAt(h, s)]]
<1>1. ASSUME NEW s \in S
      PROVE  /\ s[1] \in Divisible /\ s[1] \in Types /\ s[2] \in Nat /\ s[3] \in Nat
             /\ TypeInfo[s[1]].portion \in Nat \ {0}
             /\ s[2] \div TypeInfo[s[1]].portion \in Nat
             /\ \/ TypeInfo[s[1]].kind = "buyback"
                \/ \A k \in DOMAIN TypeInfo[s[1]].materials :
                     TypeInfo[s[1]].materials[k].name \in Divisible
  <2>1. s[1] \in Divisible /\ s[1] \in Types /\ s[2] \in Nat /\ s[3] \in Nat
    BY DivisibleIs DEF Calls
  <2>2. s[1] \in TakenApart(Divisible)
    BY <2>1, DivisibleIs
  <2>3. TypeInfo[s[1]].portion \in Nat \ {0}
    BY <2>1, <2>2, TypeAssumption DEF TakenApart
  <2>4. s[2] \div TypeInfo[s[1]].portion \in Nat
    BY <2>1, <2>3
  <2> QED
    BY <2>1, <2>2, <2>3, <2>4 DEF TakenApart
<1>2. ASSUME NEW s \in S, TypeInfo[s[1]].kind # "buyback",
             NEW k \in DOMAIN TypeInfo[s[1]].materials
      PROVE  MaterialOf(s, k) \in S /\ MaterialOf(s, k)[1] = TypeInfo[s[1]].materials[k].name
  <2>1. TypeInfo[s[1]].materials[k].qty \in Nat /\ TypeInfo[s[1]].materials[k].name \in Divisible
    BY <1>1, <1>2, TypeAssumption
  <2>2. (s[2] \div TypeInfo[s[1]].portion) * TypeInfo[s[1]].materials[k].qty \in Nat
    BY <1>1, <2>1
  <2>3. (IF TypeInfo[s[1]].kind = "asteroid" THEN Rate["REFINE"] ELSE Rate["REPROCESS"]) \in Nat
    BY RateAssumption
  <2> QED
    BY <2>1, <2>2, <2>3 DEF MaterialOf, Calls
<1>3. \A s \in S : pred[s] = parts(s)
  OBVIOUS
<1>4. \A s \in S : parts(s) \subseteq S
  BY <1>2
<1>5. WellFounded(pred, S)
  <2> SUFFICES ASSUME NEW T \in SUBSET S, \A s \in T : pred[s] \cap T # {}
               PROVE  T = {}
    BY DEF WellFounded
  <2> DEFINE names == {s[1] : s \in T}
             known == Types \ names
  <2>1. TakenApart(known) \subseteq known
    <3> SUFFICES ASSUME NEW s \in T, s[1] \in TakenApart(known)  PROVE FALSE
      BY DEF TakenApart
    <3>1. PICK u \in pred[s] : u \in T
      OBVIOUS
    <3>2. s \in S /\ u \in parts(s)
      BY <1>3
    <3>3. TypeInfo[s[1]].kind # "buyback"
      BY <3>2
    <3>4. PICK k \in DOMAIN TypeInfo[s[1]].materials : u = MaterialOf(s, k)
      BY <3>2, <3>3
    <3>5. u[1] = TypeInfo[s[1]].materials[k].name
      BY <1>2, <3>2, <3>3, <3>4
    <3>6. TypeInfo[s[1]].materials[k].name \in known
      BY <3>3, <3>4 DEF TakenApart
    <3> QED
      BY <3>1, <3>5, <3>6
  <2>2. Divisible \subseteq known
    BY <2>1, DivisibleIs
  <2> QED
    BY <1>1, <2>2
<1>6. ASSUME NEW s \in S, NEW g, TypeInfo[s[1]].kind # "buyback"
      PROVE  CollectAt(g, s)
               = Together([k \in DOMAIN TypeInfo[s[1]].materials |-> g[MaterialOf(s, k)]])
  BY <1>6 DEF CollectAt, MaterialOf
<1>7. ASSUME NEW s \in S, TypeInfo[s[1]].kind = "buyback"
      PROVE  \E v \in Bags : \A g : CollectAt(g, s) = v
  <2> DEFINE portion == s[2] \div TypeInfo[s[1]].portion
  <2>1. \A g : CollectAt(g, s) = updateBuybackItems(None, s[3], s[1], portion)
    BY <1>7 DEF CollectAt
  <2>2. portion \in Nat /\ s[3] \in Nat /\ s[1] \in Bought
    BY <1>1, <1>7 DEF Bought
  <2> HIDE DEF portion
  <2>3. updateBuybackItems(None, s[3], s[1], portion) \in Bags
    BY <2>2, NoneIs, UpdatedIs
  <2> QED
    BY <2>1, <2>3
<1>8. ASSUME NEW s \in S, NEW h \in [pred[s] -> Bags]
      PROVE  F[s][h] = CollectAt(h, s)
  OBVIOUS
<1>9. ASSUME NEW s \in S, NEW k \in DOMAIN TypeInfo[s[1]].materials,
             TypeInfo[s[1]].kind # "buyback"
      PROVE  MaterialOf(s, k) \in pred[s]
  BY <1>3, <1>9
<1> HIDE DEF pred, F
<1>10. ASSUME NEW s \in S, NEW h, \A u \in pred[s] : h[u] \in Bags
       PROVE  CollectAt(h, s) \in Bags
  <2>1. CASE TypeInfo[s[1]].kind = "buyback"
    BY <1>7, <2>1
  <2>2. CASE TypeInfo[s[1]].kind # "buyback"
    <3> DEFINE D == DOMAIN TypeInfo[s[1]].materials
               bags == [k \in D |-> h[MaterialOf(s, k)]]
    <3>1. IsFiniteSet(D)
      BY <1>1, TypeAssumption
    <3>2. \A k \in D : bags[k] \in Bags
      BY <1>9, <1>10, <2>2
    <3>3. CollectAt(h, s) = Together(bags)
      BY <1>6, <2>2
    <3>4. DOMAIN bags = D
      OBVIOUS
    <3> HIDE DEF bags
    <3> QED
      BY <3>1, <3>2, <3>3, <3>4, TogetherIs
  <2> QED
    BY <2>1, <2>2
<1>11. ASSUME NEW s \in S, NEW h, NEW g, \A u \in pred[s] : h[u] = g[u]
       PROVE  CollectAt(h, s) = CollectAt(g, s)
  <2>1. CASE TypeInfo[s[1]].kind = "buyback"
    BY <1>7, <2>1
  <2>2. CASE TypeInfo[s[1]].kind # "buyback"
    <3> DEFINE D == DOMAIN TypeInfo[s[1]].materials
    <3>1. \A k \in D : h[MaterialOf(s, k)] = g[MaterialOf(s, k)]
      BY <1>9, <1>11, <2>2
    <3>2. [k \in D |-> h[MaterialOf(s, k)]] = [k \in D |-> g[MaterialOf(s, k)]]
      BY <3>1
    <3> QED
      BY <1>6, <2>2, <3>2
  <2> QED
    BY <2>1, <2>2
<1>12. \A s \in S : pred[s] \subseteq S
  BY <1>3, <1>4
<1>13. Recursive(F, pred, S, Bags)
  <2> SUFFICES ASSUME NEW s \in S, NEW h \in [pred[s] -> Bags]
               PROVE  F[s][h] \in Bags
    BY <1>12 DEF Recursive
  <2> QED
    BY <1>8, <1>10
<1>14. PICK g \in [S -> Bags] : Solves(F, pred, g, S)
  BY <1>5, <1>13, Recursion
<1>15. ASSUME NEW s \in S  PROVE g[s] = CollectAt(g, s)
  <2> DEFINE h == [u \in pred[s] |-> g[u]]
  <2>1. h \in [pred[s] -> Bags]
    BY <1>12
  <2>2. g[s] = F[s][h]
    BY <1>14 DEF Value, Solves
  <2>3. \A u \in pred[s] : h[u] = g[u]
    OBVIOUS
  <2> HIDE DEF h
  <2>4. F[s][h] = CollectAt(h, s)
    BY <1>8, <2>1
  <2>5. CollectAt(h, s) = CollectAt(g, s)
    BY <1>11, <2>3
  <2> QED
    BY <2>2, <2>4, <2>5
<1>16. Collect = [s \in S |-> CollectAt(Collect, s)]
  <2>1. g = [s \in S |-> CollectAt(g, s)]
    BY <1>15
  <2>2. \E f : f = [s \in Divisible \X Nat \X Nat |-> CollectAt(f, s)]
    BY <2>1 DEF Calls
  <2>3. Collect = [s \in Divisible \X Nat \X Nat |-> CollectAt(Collect, s)]
    BY <2>2, CollectIs
  <2> QED
    BY <2>3 DEF Calls
<1> HIDE DEF S
<1>17. \A s \in S : Collect[s] = CollectAt(Collect, s)
  BY <1>16
\* Another solution has the same values.
<1>18. \A s \in S : Collect[s] = g[s]
  <2>1. ASSUME NEW s \in S, \A u \in pred[s] : Collect[u] = g[u]  PROVE Collect[s] = g[s]
    BY <1>11, <1>15, <1>17, <2>1
  <2> QED
    BY <1>5, <1>12, <2>1, SameValues
<1>19. DOMAIN Collect = S
  BY <1>16
<1> QED
  BY <1>16, <1>18, <1>19 DEF S

-----------------------------------------------------------------------------
(* Prices.                                                                   *)

Worth(m, qty) == BuyTotal("jita", m, qty, FALSE, EffectiveAdjustment(m))

LEMMA Distributes ==
  ASSUME NEW a \in Int, NEW b \in Int, NEW c \in Int, NEW d \in Int
  PROVE  (a + b) * c * d = a * c * d + b * c * d
OBVIOUS

\* What a material is worth is linear in its quantity.
LEMMA WorthIs ==
  ASSUME NEW m \in Types, NEW a \in Nat, NEW b \in Nat
  PROVE  /\ Worth(m, a) \in Int
         /\ Worth(m, a + b) = Worth(m, a) + Worth(m, b)
         /\ Worth(m, 0) = 0
<1> DEFINE c == EffectiveAdjustment(m)
           d == PricesForItem("jita", m, FALSE)
<1>1. c \in Int
  BY RateAssumption DEF EffectiveAdjustment
<1>2. d \in Int
  <2>1. Price["jita"][TypeInfo[m].base] \in Int /\ 100 + TypeInfo[m].yield \in Int
    BY PriceAssumption, TypeAssumption
  <2> QED
    BY <2>1 DEF PricesForItem, GetAdjustedPriceForItem
<1>3. \A q : Worth(m, q) = q * c * d
  BY DEF Worth, BuyTotal
<1> HIDE DEF c, d
<1>4. a * c * d \in Int /\ 0 * c * d = 0
  BY <1>1, <1>2
<1>5. (a + b) * c * d = a * c * d + b * c * d
  BY <1>1, <1>2, Distributes
<1> QED
  BY <1>3, <1>4, <1>5

\* A bag is priced by material, over all types that there are.
LEMMA PricedOverTypes ==
  ASSUME NEW bag \in Bags
  PROVE  /\ PricedMaterials(bag)
              = SumFunctionOnSet([t \in Types |-> Worth(t, Amount(bag, t))], Types)
         /\ PricedMaterials(bag)
              = SumFunctionOnSet([m \in DOMAIN bag |-> Worth(m, bag[m])], DOMAIN bag)
         /\ PricedMaterials(bag) \in Int
<1> DEFINE D == Types
           c == [t \in D |-> Worth(t, Amount(bag, t))]
           R == DOMAIN bag
           q == [m \in R |-> Worth(m, bag[m])]
           from == [m \in R |-> m]
<1>1. R \in SUBSET D /\ \A m \in R : bag[m] \in Nat /\ Amount(bag, m) = bag[m]
  BY BagIs DEF Amount, Bought
<1>2. \A t \in D : Amount(bag, t) \in Nat
  BY AmountIsNat
<1>3. Ints(c, D)
  <2>1. \A t \in D : Worth(t, Amount(bag, t)) \in Int
    BY <1>2, WorthIs
  <2> QED
    BY <2>1 DEF Ints
<1>4. \A r \in R : from[r] \in D /\ q[r] = c[from[r]]
  BY <1>1
<1>5. \A r, s \in R : from[r] = from[s] => r = s
  OBVIOUS
<1>6. ASSUME NEW k \in D, \A r \in R : from[r] # k  PROVE c[k] = 0
  <2>1. Amount(bag, k) = 0
    BY <1>6 DEF Amount
  <2>2. Worth(k, 0) = 0
    BY WorthIs
  <2> QED
    BY <2>1, <2>2
<1>7. IsFiniteSet(D) /\ IsFiniteSet(R)
  BY <1>1, TypesAssumption, FS_Subset
<1>8. PricedMaterials(bag) = SumFunctionOnSet(q, R)
  BY DEF PricedMaterials, SumFunction, Worth
<1> HIDE DEF D, c, R, q, from
<1>9. SumFunctionOnSet(q, R) = SumFunctionOnSet(c, D)
  BY <1>3, <1>4, <1>5, <1>6, <1>7, SumByPlace
<1>10. SumFunctionOnSet(c, D) \in Int
  BY <1>3, <1>7, SumIsInt
<1>11. PricedMaterials(bag) = SumFunctionOnSet(c, D) /\ PricedMaterials(bag) \in Int
  BY <1>8, <1>9, <1>10
<1> QED
  BY <1>8, <1>11 DEF c, D, q, R

LEMMA NoneIsFree == PricedMaterials(None) = 0
<1> DEFINE f == [m \in DOMAIN None |-> Worth(m, None[m])]
<1>1. PricedMaterials(None) = SumFunctionOnSet(f, DOMAIN None)
  BY NoneIs, PricedOverTypes
<1>2. DOMAIN None = {}
  BY DEF None
<1> HIDE DEF f
<1> QED
  BY <1>1, <1>2, SumOfNone

\* More of a material adds what it is worth.
LEMMA PriceUpdated ==
  ASSUME NEW bag \in Bags, NEW m \in Bought, NEW qty \in Nat
  PROVE  LET updated == updateBuybackItems(bag, 100, m, qty) IN
         /\ updated \in Bags
         /\ \A t : Amount(updated, t) = Amount(bag, t) + (IF t = m THEN qty ELSE 0)
         /\ PricedMaterials(updated) = PricedMaterials(bag) + Worth(m, qty)
<1> DEFINE updated == updateBuybackItems(bag, 100, m, qty)
           f == [t \in Types |-> Worth(t, Amount(updated, t))]
           g == [t \in Types |-> Worth(t, Amount(bag, t))]
<1>1. (qty * 100) \div 100 = qty /\ m \in Types
  BY DEF Bought
<1>2. /\ updated \in Bags
      /\ \A t : Amount(updated, t) = Amount(bag, t) + (IF t = m THEN qty ELSE 0)
  BY <1>1, UpdatedIs
<1> HIDE DEF updated
<1>3. /\ PricedMaterials(updated) = SumFunctionOnSet(f, Types)
      /\ PricedMaterials(bag) = SumFunctionOnSet(g, Types)
      /\ PricedMaterials(updated) \in Int /\ PricedMaterials(bag) \in Int
  BY <1>2, PricedOverTypes
<1>4. \A t \in Types : Amount(bag, t) \in Nat /\ Amount(updated, t) \in Nat
  BY <1>2, AmountIsNat
<1>5. Ints(f, Types) /\ Ints(g, Types)
  <2>1. \A t \in Types : Worth(t, Amount(bag, t)) \in Int /\ Worth(t, Amount(updated, t)) \in Int
    BY <1>4, WorthIs
  <2> QED
    BY <2>1 DEF Ints
<1>6. f[m] = g[m] + Worth(m, qty)
  <2>1. Amount(updated, m) = Amount(bag, m) + qty
    BY <1>2
  <2>2. Worth(m, Amount(bag, m) + qty) = Worth(m, Amount(bag, m)) + Worth(m, qty)
    BY <1>1, <1>4, WorthIs
  <2> QED
    BY <1>1, <2>1, <2>2
<1>7. \A t \in Types \ {m} : f[t] = g[t]
  <2> SUFFICES ASSUME NEW t \in Types \ {m}  PROVE Amount(updated, t) = Amount(bag, t)
    OBVIOUS
  <2> QED
    BY <1>2, <1>4
<1>8. Worth(m, qty) \in Int /\ g[m] \in Int
  BY <1>1, <1>5, WorthIs DEF Ints
<1> HIDE DEF f, g
<1>9. SumFunctionOnSet(f, Types) - SumFunctionOnSet(g, Types) = f[m] - g[m]
  BY <1>1, <1>5, <1>7, TypesAssumption, SumChanged
<1>10. PricedMaterials(updated) = PricedMaterials(bag) + Worth(m, qty)
  BY <1>3, <1>6, <1>8, <1>9
<1> QED
  BY <1>2, <1>10 DEF updated

-----------------------------------------------------------------------------
(* The bag of the whole appraisal.                                           *)

BagsByName(bags) == IsFiniteSet(DOMAIN bags) /\ \A name \in DOMAIN bags : bags[name] \in Bags

\* The bags of the entries in T, one after the other.
Emptied(bags, T, g) ==
  IF T = {} THEN None
  ELSE LET c == CHOOSE c \in T : TRUE
       IN  updateBuybackItems(g[T \ {c}], 100, c[2], bags[c[1]][c[2]])

Folded(bags, g) == g = [T \in SUBSET Contents(bags) |-> Emptied(bags, T, g)]

LEMMA BuybackMapIs ==
  ASSUME NEW bags
  PROVE  BuybackMap(bags) = (CHOOSE g : Folded(bags, g))[Contents(bags)]
BY DEF BuybackMap, FoldSet, MapThenFoldSet, Folded, Emptied

\* The entries of the bags are finitely many.
LEMMA ContentsAre ==
  ASSUME NEW bags, BagsByName(bags)
  PROVE  /\ IsFiniteSet(Contents(bags))
         /\ \A c \in Contents(bags) :
              /\ c = <<c[1], c[2]>>
              /\ c[1] \in DOMAIN bags /\ c[2] \in DOMAIN bags[c[1]] /\ c[2] \in Bought
              /\ bags[c[1]][c[2]] \in Nat
         /\ \A name \in DOMAIN bags : \A m \in DOMAIN bags[name] : <<name, m>> \in Contents(bags)
<1> DEFINE f == [name \in DOMAIN bags |-> {<<name, m>> : m \in DOMAIN bags[name]}]
<1>1. Contents(bags) = UNION {f[name] : name \in DOMAIN bags}
  BY DEF Contents
<1>2. ASSUME NEW name \in DOMAIN bags  PROVE IsFiniteSet(f[name])
  <2>1. DOMAIN bags[name] \subseteq Types
    BY BagIs DEF BagsByName, Bought
  <2>2. IsFiniteSet(DOMAIN bags[name])
    BY <2>1, TypesAssumption, FS_Subset
  <2> DEFINE one == [m \in DOMAIN bags[name] |-> {<<name, m>>}]
  <2>3. \A m \in DOMAIN bags[name] : IsFiniteSet(one[m])
    BY FS_Singleton
  <2>4. f[name] = UNION {one[m] : m \in DOMAIN bags[name]}
    OBVIOUS
  <2> HIDE DEF f, one
  <2> QED
    BY <2>2, <2>3, <2>4, UnionIsFinite
<1>3. IsFiniteSet(Contents(bags))
  <2> HIDE DEF f
  <2> QED
    BY <1>1, <1>2, UnionIsFinite DEF BagsByName
<1>4. ASSUME NEW c \in Contents(bags)
      PROVE  /\ c = <<c[1], c[2]>>
             /\ c[1] \in DOMAIN bags /\ c[2] \in DOMAIN bags[c[1]] /\ c[2] \in Bought
             /\ bags[c[1]][c[2]] \in Nat
  <2>1. PICK name \in DOMAIN bags : \E m \in DOMAIN bags[name] : c = <<name, m>>
    BY DEF Contents
  <2>2. PICK m \in DOMAIN bags[name] : c = <<name, m>>
    BY <2>1
  <2>3. m \in Bought /\ bags[name][m] \in Nat
    BY BagIs DEF BagsByName
  <2> QED
    BY <2>2, <2>3
<1>5. \A name \in DOMAIN bags : \A m \in DOMAIN bags[name] : <<name, m>> \in Contents(bags)
  BY DEF Contents
<1> QED
  BY <1>3, <1>4, <1>5

\* The bag of the whole is made entry by entry.
LEMMA BuybackMapFolds ==
  ASSUME NEW bags, BagsByName(bags)
  PROVE  \E g \in [SUBSET Contents(bags) -> Bags] :
           /\ \A T \in SUBSET Contents(bags) : g[T] = Emptied(bags, T, g)
           /\ BuybackMap(bags) = g[Contents(bags)]
<1> DEFINE P == Contents(bags)
           pred == OneLess(P)
           F == [T \in SUBSET P |-> [h \in [pred[T] -> Bags] |-> Emptied(bags, T, h)]]
<1>1. \A T \in SUBSET P : pred[T] = {T \ {x} : x \in T}
  BY DEF OneLess
<1>2. ASSUME NEW T \in SUBSET P, NEW h \in [pred[T] -> Bags]
      PROVE  F[T][h] = Emptied(bags, T, h)
  OBVIOUS
<1> HIDE DEF F, pred
<1>3. ASSUME NEW T \in SUBSET P, NEW h, \A u \in pred[T] : h[u] \in Bags
      PROVE  Emptied(bags, T, h) \in Bags
  <2>1. CASE T = {}
    BY <2>1, NoneIs DEF Emptied
  <2>2. CASE T # {}
    <3> DEFINE c == CHOOSE c \in T : TRUE
    <3>1. c \in T
      BY <2>2
    <3>2. Emptied(bags, T, h) = updateBuybackItems(h[T \ {c}], 100, c[2], bags[c[1]][c[2]])
      BY <2>2 DEF Emptied
    <3> HIDE DEF c
    <3>3. h[T \ {c}] \in Bags
      BY <1>1, <1>3, <3>1
    <3>4. c[2] \in Bought /\ bags[c[1]][c[2]] \in Nat
      BY <3>1, ContentsAre
    <3> QED
      BY <3>2, <3>3, <3>4, UpdatedIs
  <2> QED
    BY <2>1, <2>2
<1>4. ASSUME NEW T \in SUBSET P, NEW h, NEW g, \A u \in pred[T] : h[u] = g[u]
      PROVE  Emptied(bags, T, h) = Emptied(bags, T, g)
  <2>1. CASE T = {}
    BY <2>1 DEF Emptied
  <2>2. CASE T # {}
    <3> DEFINE c == CHOOSE c \in T : TRUE
    <3>1. T \ {c} \in pred[T]
      BY <1>1, <2>2
    <3>2. h[T \ {c}] = g[T \ {c}]
      BY <1>4, <3>1
    <3> QED
      BY <2>2, <3>2 DEF Emptied
  <2> QED
    BY <2>1, <2>2
<1> DEFINE S == SUBSET P
<1>5. WellFounded(pred, S)
  BY ContentsAre, SubsetsWellFounded DEF pred
<1>6. \A T \in S : pred[T] \subseteq S
  BY <1>1
<1>7. Recursive(F, pred, S, Bags)
  <2> SUFFICES ASSUME NEW T \in S, NEW h \in [pred[T] -> Bags]  PROVE F[T][h] \in Bags
    BY <1>6 DEF Recursive
  <2>1. \A u \in pred[T] : h[u] \in Bags
    OBVIOUS
  <2> QED
    BY <1>2, <1>3, <2>1
<1>8. PICK g \in [S -> Bags] : Solves(F, pred, g, S)
  <2> HIDE DEF S
  <2> QED
    BY <1>5, <1>7, Recursion
<1>9. ASSUME NEW T \in S  PROVE g[T] = Emptied(bags, T, g)
  <2> DEFINE h == [u \in pred[T] |-> g[u]]
  <2>1. h \in [pred[T] -> Bags]
    BY <1>6
  <2>2. g[T] = F[T][h]
    BY <1>8 DEF Value, Solves
  <2>3. \A u \in pred[T] : h[u] = g[u]
    OBVIOUS
  <2> HIDE DEF h
  <2> QED
    BY <1>2, <1>4, <2>1, <2>2, <2>3
<1> DEFINE f == CHOOSE f : Folded(bags, f)
<1>10. Folded(bags, f)
  <2>1. g = [T \in SUBSET Contents(bags) |-> Emptied(bags, T, g)]
    BY <1>9
  <2>2. \E h : Folded(bags, h)
    BY <2>1 DEF Folded
  <2> QED
    BY <2>2
<1>11. BuybackMap(bags) = f[P]
  BY BuybackMapIs
<1> HIDE DEF f
<1>12. \A T \in S : f[T] = Emptied(bags, T, f)
  BY <1>10 DEF Folded
\* Another solution has the same values.
<1>13. \A T \in S : f[T] = g[T]
  <2>1. ASSUME NEW T \in S, \A u \in pred[T] : f[u] = g[u]  PROVE f[T] = g[T]
    BY <1>4, <1>9, <1>12, <2>1
  <2> HIDE DEF S
  <2> QED
    BY <1>5, <1>6, <2>1, SameValues
<1> QED
  BY <1>9, <1>11, <1>13

\* What the entries in T say of a material, and what they are worth, by name.
MoreOf(bags, T, m) ==
  [name \in DOMAIN bags |-> IF <<name, m>> \in T THEN bags[name][m] ELSE 0]

WorthOf(bags, T, name) ==
  [m \in DOMAIN bags[name] |-> IF <<name, m>> \in T THEN Worth(m, bags[name][m]) ELSE 0]

WorthByName(bags, T) ==
  [name \in DOMAIN bags |-> SumFunctionOnSet(WorthOf(bags, T, name), DOMAIN bags[name])]

\* The sums over the entries are of numbers.
LEMMA EntriesAreNumbers ==
  ASSUME NEW bags, BagsByName(bags), NEW T \in SUBSET Contents(bags)
  PROVE  /\ \A m : Ints(MoreOf(bags, T, m), DOMAIN bags)
         /\ \A name \in DOMAIN bags : /\ IsFiniteSet(DOMAIN bags[name])
                                      /\ Ints(WorthOf(bags, T, name), DOMAIN bags[name])
         /\ Ints(WorthByName(bags, T), DOMAIN bags)
<1>1. ASSUME NEW m  PROVE Ints(MoreOf(bags, T, m), DOMAIN bags)
  <2> SUFFICES ASSUME NEW name \in DOMAIN bags  PROVE MoreOf(bags, T, m)[name] \in Int
    BY DEF Ints
  <2>1. <<name, m>> \in T => bags[name][m] \in Nat
    BY ContentsAre
  <2> QED
    BY <2>1 DEF MoreOf
<1>2. ASSUME NEW name \in DOMAIN bags
      PROVE  /\ IsFiniteSet(DOMAIN bags[name])
             /\ Ints(WorthOf(bags, T, name), DOMAIN bags[name])
  <2>1. DOMAIN bags[name] \subseteq Types /\ \A m \in DOMAIN bags[name] : bags[name][m] \in Nat
    BY BagIs DEF BagsByName, Bought
  <2>2. \A m \in DOMAIN bags[name] : Worth(m, bags[name][m]) \in Int
    BY <2>1, WorthIs
  <2> QED
    BY <2>1, <2>2, TypesAssumption, FS_Subset DEF Ints, WorthOf
<1>3. Ints(WorthByName(bags, T), DOMAIN bags)
  <2> SUFFICES ASSUME NEW name \in DOMAIN bags  PROVE WorthByName(bags, T)[name] \in Int
    BY DEF Ints
  <2>1. SumFunctionOnSet(WorthOf(bags, T, name), DOMAIN bags[name]) \in Int
    BY <1>2, SumIsInt
  <2> QED
    BY <2>1 DEF WorthByName
<1> QED
  BY <1>1, <1>2, <1>3

\* The bags of the entries in T, as one.
SumsUp(bags, T, bag) ==
  /\ \A m : Amount(bag, m) = SumFunctionOnSet(MoreOf(bags, T, m), DOMAIN bags)
  /\ PricedMaterials(bag) = SumFunctionOnSet(WorthByName(bags, T), DOMAIN bags)

LEMMA NothingSumsUp ==
  ASSUME NEW bags, BagsByName(bags)
  PROVE  SumsUp(bags, {}, None)
<1>1. ASSUME NEW m  PROVE SumFunctionOnSet(MoreOf(bags, {}, m), DOMAIN bags) = 0
  <2>1. \A name \in DOMAIN bags : MoreOf(bags, {}, m)[name] = 0
    BY DEF MoreOf
  <2> QED
    BY <2>1, SumOfZeros DEF BagsByName
<1>2. ASSUME NEW name \in DOMAIN bags
      PROVE  WorthByName(bags, {})[name] = 0
  <2>1. \A m \in DOMAIN bags[name] : WorthOf(bags, {}, name)[m] = 0
    BY DEF WorthOf
  <2>2. IsFiniteSet(DOMAIN bags[name])
    BY EntriesAreNumbers
  <2>3. SumFunctionOnSet(WorthOf(bags, {}, name), DOMAIN bags[name]) = 0
    BY <2>1, <2>2, SumOfZeros
  <2> QED
    BY <2>3 DEF WorthByName
<1>3. SumFunctionOnSet(WorthByName(bags, {}), DOMAIN bags) = 0
  BY <1>2, SumOfZeros DEF BagsByName
<1> QED
  BY <1>1, <1>3, NoneIs, NoneIsFree DEF SumsUp

\* One more entry adds its quantity and what that is worth, and rounds nothing.
LEMMA OneMoreSumsUp ==
  ASSUME NEW bags, BagsByName(bags), NEW T \in SUBSET Contents(bags), NEW c \in T,
         NEW bag \in Bags, SumsUp(bags, T \ {c}, bag)
  PROVE  SumsUp(bags, T, updateBuybackItems(bag, 100, c[2], bags[c[1]][c[2]]))
<1> DEFINE name == c[1]
           m    == c[2]
           qty  == bags[name][m]
           U    == T \ {c}
           more == updateBuybackItems(bag, 100, m, qty)
           N    == DOMAIN bags
<1>1. c = <<name, m>> /\ name \in N /\ m \in DOMAIN bags[name] /\ m \in Bought /\ qty \in Nat
  BY ContentsAre
<1>2. /\ \A t : Amount(more, t) = Amount(bag, t) + (IF t = m THEN qty ELSE 0)
      /\ PricedMaterials(more) = PricedMaterials(bag) + Worth(m, qty)
  <2> HIDE DEF m, qty
  <2> QED
    BY <1>1, PriceUpdated
<1>3. U \in SUBSET Contents(bags) /\ IsFiniteSet(N)
  BY DEF BagsByName
<1>4. /\ \A t : Ints(MoreOf(bags, T, t), N) /\ Ints(MoreOf(bags, U, t), N)
      /\ \A n \in N : /\ IsFiniteSet(DOMAIN bags[n])
                      /\ Ints(WorthOf(bags, T, n), DOMAIN bags[n])
                      /\ Ints(WorthOf(bags, U, n), DOMAIN bags[n])
      /\ Ints(WorthByName(bags, T), N) /\ Ints(WorthByName(bags, U), N)
  <2> HIDE DEF U
  <2> QED
    BY <1>3, EntriesAreNumbers
<1>5. \A n, t : n # name \/ t # m => (<<n, t>> \in T <=> <<n, t>> \in U)
  BY <1>1
<1>6. <<name, m>> \in T /\ <<name, m>> \notin U
  BY <1>1
<1>7. Worth(m, qty) \in Int
  BY <1>1, WorthIs DEF Bought
<1> HIDE DEF name, m, U, more
<1>8. ASSUME NEW t
      PROVE  Amount(more, t) = SumFunctionOnSet(MoreOf(bags, T, t), N)
  <2> DEFINE f == MoreOf(bags, T, t)
             g == MoreOf(bags, U, t)
  <2>1. Amount(bag, t) = SumFunctionOnSet(g, N)
    BY DEF SumsUp, U
  <2>2. Amount(bag, t) \in Nat
    BY AmountIsNat
  <2>3. SumFunctionOnSet(f, N) \in Int
    BY <1>3, <1>4, SumIsInt
  <2>4. CASE t # m
    <3>1. f = g
      BY <1>5, <2>4 DEF MoreOf
    <3> QED
      BY <1>2, <2>1, <2>2, <2>4, <3>1
  <2>5. CASE t = m
    <3>1. f[name] = qty /\ g[name] = 0
      BY <1>1, <1>6, <2>5 DEF MoreOf
    <3>2. \A n \in N \ {name} : f[n] = g[n]
      BY <1>5 DEF MoreOf
    <3>3. SumFunctionOnSet(f, N) - SumFunctionOnSet(g, N) = f[name] - g[name]
      <4>1. Ints(f, N) /\ Ints(g, N)
        BY <1>4
      <4> HIDE DEF f, g
      <4> QED
        BY <1>1, <1>3, <3>2, <4>1, SumChanged
    <3>4. Amount(more, t) = Amount(bag, t) + qty
      BY <1>2, <2>5
    <3>5. qty \in Nat
      BY <1>1
    <3> HIDE DEF f, g, qty
    <3>6. SumFunctionOnSet(f, N) = Amount(bag, t) + qty
      BY <2>1, <2>2, <2>3, <3>1, <3>3, <3>5
    <3> QED
      BY <3>4, <3>6 DEF f
  <2> QED
    BY <2>4, <2>5
<1>9. PricedMaterials(more) = SumFunctionOnSet(WorthByName(bags, T), N)
  <2> DEFINE f == WorthByName(bags, T)
             g == WorthByName(bags, U)
             D == DOMAIN bags[name]
             v == WorthOf(bags, T, name)
             w == WorthOf(bags, U, name)
  <2>1. PricedMaterials(bag) = SumFunctionOnSet(g, N)
    BY DEF SumsUp, U
  <2>2. \A n \in N \ {name} : f[n] = g[n]
    <3> SUFFICES ASSUME NEW n \in N \ {name}  PROVE f[n] = g[n]
      OBVIOUS
    <3>1. WorthOf(bags, T, n) = WorthOf(bags, U, n)
      BY <1>5 DEF WorthOf
    <3> QED
      BY <3>1 DEF WorthByName
  <2>3. f[name] - g[name] = Worth(m, qty)
    <3>1. f[name] = SumFunctionOnSet(v, D) /\ g[name] = SumFunctionOnSet(w, D)
      BY <1>1 DEF WorthByName
    <3>2. v[m] = Worth(m, qty) /\ w[m] = 0
      BY <1>1, <1>6 DEF WorthOf
    <3>3. \A t \in D \ {m} : v[t] = w[t]
      BY <1>5 DEF WorthOf
    <3>4. Ints(v, D) /\ Ints(w, D) /\ IsFiniteSet(D) /\ m \in D
      BY <1>1, <1>4
    <3> HIDE DEF D, f, g, v, w, qty
    <3>5. SumFunctionOnSet(v, D) - SumFunctionOnSet(w, D) = v[m] - w[m]
      BY <3>3, <3>4, SumChanged
    <3> QED
      BY <1>7, <3>1, <3>2, <3>5
  <2>4. Ints(f, N) /\ Ints(g, N)
    BY <1>4
  <2> HIDE DEF f, g
  <2>5. SumFunctionOnSet(f, N) - SumFunctionOnSet(g, N) = f[name] - g[name]
    BY <1>1, <1>3, <2>2, <2>4, SumChanged
  <2>6. SumFunctionOnSet(f, N) \in Int /\ SumFunctionOnSet(g, N) \in Int
    BY <1>3, <2>4, SumIsInt
  <2> HIDE DEF qty
  <2>7. SumFunctionOnSet(f, N) = PricedMaterials(bag) + Worth(m, qty)
    BY <1>7, <2>1, <2>3, <2>5, <2>6
  <2> QED
    BY <1>2, <2>7 DEF f
<1>10. SumsUp(bags, T, more)
  BY <1>8, <1>9 DEF SumsUp
<1> QED
  BY <1>10 DEF more, name, m

\* The bag of the whole is the sum of the bags, and so is its price.
LEMMA MapSumsUp ==
  ASSUME NEW bags, BagsByName(bags)
  PROVE  /\ BuybackMap(bags) \in Bags
         /\ \A m : Amount(BuybackMap(bags), m)
                     = SumFunctionOnSet([name \in DOMAIN bags |-> Amount(bags[name], m)],
                                        DOMAIN bags)
         /\ PricedMaterials(BuybackMap(bags))
              = SumFunctionOnSet([name \in DOMAIN bags |-> PricedMaterials(bags[name])],
                                 DOMAIN bags)
<1> DEFINE P == Contents(bags)
           N == DOMAIN bags
<1>1. PICK g :
        /\ g \in [SUBSET P -> Bags]
        /\ \A T \in SUBSET P : g[T] = Emptied(bags, T, g)
        /\ BuybackMap(bags) = g[P]
  BY BuybackMapFolds
<1> DEFINE A == {T \in SUBSET P : SumsUp(bags, T, g[T])}
<1>2. ASSUME NEW T \in SUBSET P, \A x \in T : T \ {x} \in A  PROVE T \in A
  <2>1. CASE T = {}
    <3>1. g[T] = None
      BY <1>1, <2>1 DEF Emptied
    <3> QED
      BY <2>1, <3>1, NothingSumsUp
  <2>2. CASE T # {}
    <3> DEFINE c == CHOOSE c \in T : TRUE
    <3>1. c \in T
      BY <2>2
    <3>2. g[T] = updateBuybackItems(g[T \ {c}], 100, c[2], bags[c[1]][c[2]])
      BY <1>1, <2>2 DEF Emptied
    <3> HIDE DEF c
    <3>3. SumsUp(bags, T \ {c}, g[T \ {c}]) /\ g[T \ {c}] \in Bags
      BY <1>1, <1>2, <3>1
    <3>4. SumsUp(bags, T, g[T])
      BY <3>1, <3>2, <3>3, OneMoreSumsUp
    <3> QED
      BY <3>4
  <2> QED
    BY <2>1, <2>2
<1>3. SumsUp(bags, P, BuybackMap(bags))
  <2>1. SUBSET P \subseteq A
    <3>1. IsFiniteSet(P)
      BY ContentsAre
    <3>2. \A T \in SUBSET P : (\A x \in T : T \ {x} \in A) => T \in A
      BY <1>2
    <3> HIDE DEF A, P, N
    <3> QED
      BY <3>1, <3>2, SubsetInduct
  <2>2. P \in A
    BY <2>1
  <2> QED
    BY <1>1, <2>2
<1>4. ASSUME NEW m
      PROVE  MoreOf(bags, P, m) = [name \in N |-> Amount(bags[name], m)]
  <2> SUFFICES ASSUME NEW name \in N
               PROVE  (IF <<name, m>> \in P THEN bags[name][m] ELSE 0) = Amount(bags[name], m)
    BY DEF MoreOf
  <2>1. <<name, m>> \in P <=> m \in DOMAIN bags[name]
    <3>1. ASSUME <<name, m>> \in P  PROVE m \in DOMAIN bags[name]
      <4> DEFINE c == <<name, m>>
      <4>1. c[2] \in DOMAIN bags[c[1]]
        BY <3>1, ContentsAre
      <4> QED
        BY <4>1
    <3> QED
      BY <3>1, ContentsAre
  <2> QED
    BY <2>1 DEF Amount
<1>5. WorthByName(bags, P) = [name \in N |-> PricedMaterials(bags[name])]
  <2> SUFFICES ASSUME NEW name \in N
               PROVE  SumFunctionOnSet(WorthOf(bags, P, name), DOMAIN bags[name])
                        = PricedMaterials(bags[name])
    BY DEF WorthByName
  <2>1. WorthOf(bags, P, name) = [m \in DOMAIN bags[name] |-> Worth(m, bags[name][m])]
    BY ContentsAre DEF WorthOf
  <2>2. bags[name] \in Bags
    BY DEF BagsByName
  <2> QED
    BY <2>1, <2>2, PricedOverTypes
<1> QED
  BY <1>1, <1>3, <1>4, <1>5 DEF SumsUp

\* Whatever parser is next, what it finds has quantities.
LEMMA ParseCounted ==
  ASSUME NEW n \in 1 .. 15, NEW in, Text(in), n <= 2 => Numbered(in)
  PROVE  Counted(Parse(Parsers[n], in).items)
<1>1. CASE n = 1
  BY <1>1, ParseIs, KillmailCounted
<1>2. CASE n = 2
  BY <1>2, ParseIs, EFTCounted
<1>3. CASE n = 3
  BY <1>3, ParseIs, FittingCounted
<1>4. CASE n = 8
  BY <1>4, ParseIs, SurveyCounted
<1>5. CASE n = 10
  BY <1>5, ParseIs, ListingCounted
<1>6. CASE n = 15
  BY <1>6, ParseIs, HeuristicCounted
<1>7. CASE n \in {4, 5, 6, 7, 9, 11, 12, 13, 14}
  <2>1. \E res : Parse(Parsers[n], in) = RegexParse(res, in)
    BY <1>7, ParseIs
  <2> QED
    BY <2>1, RegexCounted
<1> QED
  BY <1>1, <1>2, <1>3, <1>4, <1>5, <1>6, <1>7, Numbers

-----------------------------------------------------------------------------
(* Quantities and the offer.                                                 *)

CountedOK == \A k \in DOMAIN results : Counted(results[k].items)

\* The materials of the offer are those that the corporation buys, in whole quantities.
HoldsBought(bag) == DOMAIN bag \subseteq Bought /\ \A m \in DOMAIN bag : bag[m] \in Nat

OnlyBought ==
  pc = "done" => /\ HoldsBought(offer.bag)
                 /\ \A name \in DOMAIN items : HoldsBought(bought[name].bag)

OfferInv == CountedOK /\ QuantitiesKept /\ OnlyBought /\ BuybackSumsUp

LEMMA ResultsFinite ==
  ASSUME TypeOK
  PROVE  IsFiniteSet(DOMAIN results)
<1>1. results \in Seq({results[k] : k \in DOMAIN results})
  BY DEF TypeOK
<1>2. DOMAIN results = 1 .. Len(results) /\ Len(results) \in Nat
  BY <1>1
<1> QED
  BY <1>2, FS_Interval

LEMMA InitOffer == Init => OfferInv
<1> SUFFICES ASSUME Init  PROVE OfferInv
  OBVIOUS
<1>1. pc = "parsing" /\ results = <<>>
  BY DEF Init
<1>2. DOMAIN results = {}
  BY <1>1
<1> QED
  BY <1>1, <1>2 DEF OfferInv, CountedOK, QuantitiesKept, OnlyBought, BuybackSumsUp

\* A result that is kept has quantities.
LEMMA TakeOffer == Inv /\ OfferInv /\ Take => OfferInv'
<1> SUFFICES ASSUME Inv, OfferInv, Take  PROVE OfferInv'
  OBVIOUS
<1> DEFINE parsed == Parse(Parsers[next], left)
           result == [parser |-> Parsers[next], lines |-> parsed.lines,
                      items |-> parsed.items]
           n      == Len(results)
<1>1. Parsing /\ results' = Append(results, result) /\ pc' = pc /\ pc = "parsing"
  BY DEF Take, Parsing
<1>2. Text(left) /\ (next <= 2 => Numbered(left)) /\ next \in 1 .. 15
  <2>1. paste \in Pastes
    BY DEF Inv, TypeOK
  <2>2. IsFiniteSet(DOMAIN left) /\ \A i \in DOMAIN left : left[i].qty \in Nat
    BY <1>1, <2>1, LeftIs, PasteAssumption, QuantityAssumption, FS_Subset
  <2> QED
    BY <1>1, <2>2, LeftIs DEF Text
<1>3. Counted(result.items)
  <2>1. Counted(parsed.items)
    BY <1>2, ParseCounted
  <2> HIDE DEF parsed
  <2> QED
    BY <2>1
<1>4. /\ DOMAIN results = 1 .. n /\ DOMAIN results' = 1 .. n + 1 /\ n \in Nat
      /\ \A k \in 1 .. n : results'[k] = results[k]
      /\ results'[n + 1] = result
  <2> DEFINE S == {results[k] : k \in DOMAIN results} \cup {result}
  <2>1. results \in Seq({results[k] : k \in DOMAIN results})
    BY DEF Inv, TypeOK
  <2> HIDE DEF result
  <2>2. results \in Seq(S) /\ n \in Nat /\ DOMAIN results = 1 .. n
    BY <2>1
  <2>3. /\ results' \in Seq(S) /\ Len(results') = n + 1
        /\ \A k \in 1 .. n : results'[k] = results[k]
        /\ results'[n + 1] = result
    BY <1>1, <2>2, AppendProperties
  <2> QED
    BY <2>2, <2>3
<1> HIDE DEF result, n
<1>5. CountedOK'
  BY <1>3, <1>4 DEF OfferInv, CountedOK
<1> QED
  BY <1>1, <1>5 DEF OfferInv, QuantitiesKept, OnlyBought, BuybackSumsUp

\* Two mergings keep the quantities.
LEMMA ItemsOffer == Inv /\ OfferInv /\ ItemsOfResult => OfferInv'
<1> SUFFICES ASSUME Inv, OfferInv, ItemsOfResult  PROVE OfferInv'
  OBVIOUS
<1>1. /\ pc' = "itemized" /\ results' = results
      /\ \E bpc : items' = AllMerged(bpc)
  BY DEF ItemsOfResult
<1>2. PICK bpc : items' = AllMerged(bpc)
  BY <1>1
<1>3. /\ DOMAIN items' = {item.name : item \in Found}
      /\ \A name \in DOMAIN items' : items'[name].qty = QuantityOf(name)
  BY <1>2, MergedTwice, ResultsFinite DEF OfferInv, CountedOK, Inv
<1>4. Found' = Found
  BY <1>1 DEF Found
<1>5. QuantitiesKept'
  BY <1>1, <1>3, <1>4 DEF QuantitiesKept, QuantityOf, QuantityIn
<1>6. CountedOK' /\ OnlyBought' /\ BuybackSumsUp'
  BY <1>1 DEF OfferInv, CountedOK, OnlyBought, BuybackSumsUp
<1> QED
  BY <1>5, <1>6 DEF OfferInv

LEMMA PricesOffer == Inv /\ OfferInv /\ PriceItems => OfferInv'
<1> SUFFICES ASSUME Inv, OfferInv, PriceItems  PROVE OfferInv'
  OBVIOUS
<1>1. /\ pc = "itemized" /\ pc' = "priced" /\ results' = results /\ Found' = Found
      /\ DOMAIN items' = DOMAIN items
      /\ \A name \in DOMAIN items : items'[name].qty = items[name].qty
  BY DEF PriceItems, Found
<1>2. QuantitiesKept'
  BY <1>1 DEF OfferInv, QuantitiesKept
<1>3. CountedOK' /\ OnlyBought' /\ BuybackSumsUp'
  BY <1>1 DEF OfferInv, CountedOK, OnlyBought, BuybackSumsUp
<1> QED
  BY <1>2, <1>3 DEF OfferInv

\* The quantities that are taken apart are those of QuantitiesKept.
LEMMA BagsOfItems ==
  ASSUME Inv, OfferInv, pc = "priced", DOMAIN items \subseteq Divisible
  PROVE  BagsByName([name \in DOMAIN items |-> collectBuybackItems(name, items[name].qty)])
<1>1. \A name \in DOMAIN items : items[name].qty = QuantityOf(name)
  BY DEF OfferInv, QuantitiesKept, QuantityOf, QuantityIn
<1>2. \A name \in DOMAIN items : items[name].qty \in Nat
  BY <1>1, QuantityOfIsNat, ResultsFinite DEF OfferInv, CountedOK, Inv
<1>3. \A name \in DOMAIN items : collectBuybackItems(name, items[name].qty) \in Bags
  <2> SUFFICES ASSUME NEW name \in DOMAIN items
               PROVE  Collect[<<name, items[name].qty, 100>>] \in Bags
    BY DEF collectBuybackItems
  <2>1. <<name, items[name].qty, 100>> \in Calls
    BY <1>2 DEF Calls
  <2> QED
    BY <2>1, CollectIsBag
<1>4. IsFiniteSet(DOMAIN items)
  BY DivisibleIs, TypesAssumption, FS_Subset
<1> QED
  BY <1>3, <1>4 DEF BagsByName

\* The offer sums up the items, whose quantities are whole.
LEMMA BuybackOffer == Inv /\ OfferInv /\ CalculateBuyback => OfferInv'
<1> SUFFICES ASSUME Inv, OfferInv, CalculateBuyback  PROVE OfferInv'
  OBVIOUS
<1> DEFINE bags == [name \in DOMAIN items |-> collectBuybackItems(name, items[name].qty)]
<1>1. /\ pc = "priced" /\ pc' = "done" /\ results' = results /\ items' = items
      /\ DOMAIN items \subseteq Divisible /\ Found' = Found
      /\ bought' = [name \in DOMAIN items |->
                      [bag |-> bags[name], buy |-> PricedMaterials(bags[name])]]
      /\ offer' = [bag |-> BuybackMap(bags), buy |-> PricedMaterials(BuybackMap(bags))]
  BY DEF CalculateBuyback, Found
<1>2. BagsByName(bags) /\ DOMAIN bags = DOMAIN items
  BY <1>1, BagsOfItems
<1> HIDE DEF bags
<1>3. /\ BuybackMap(bags) \in Bags
      /\ \A m : Amount(BuybackMap(bags), m)
                  = SumFunctionOnSet([name \in DOMAIN bags |-> Amount(bags[name], m)], DOMAIN bags)
      /\ PricedMaterials(BuybackMap(bags))
           = SumFunctionOnSet([name \in DOMAIN bags |-> PricedMaterials(bags[name])], DOMAIN bags)
  BY <1>2, MapSumsUp
<1>4. /\ \A name \in DOMAIN items : /\ bought'[name].bag = bags[name]
                                    /\ bought'[name].buy = PricedMaterials(bags[name])
      /\ offer'.bag = BuybackMap(bags) /\ offer'.buy = PricedMaterials(BuybackMap(bags))
  BY <1>1
<1>5. BuybackSumsUp'
  <2>1. ASSUME NEW m
        PROVE  Amount(offer'.bag, m)
                 = SumFunction([name \in DOMAIN items' |-> Amount(bought'[name].bag, m)])
    <3>1. [name \in DOMAIN items' |-> Amount(bought'[name].bag, m)]
            = [name \in DOMAIN bags |-> Amount(bags[name], m)]
      BY <1>1, <1>2, <1>4
    <3> QED
      BY <1>3, <1>4, <3>1 DEF SumFunction
  <2>2. offer'.buy = SumFunction([name \in DOMAIN items' |-> bought'[name].buy])
    <3>1. [name \in DOMAIN items' |-> bought'[name].buy]
            = [name \in DOMAIN bags |-> PricedMaterials(bags[name])]
      BY <1>1, <1>2, <1>4
    <3> QED
      BY <1>3, <1>4, <3>1 DEF SumFunction
  <2> QED
    BY <2>1, <2>2 DEF BuybackSumsUp
<1>6. CountedOK' /\ QuantitiesKept'
  BY <1>1 DEF OfferInv, CountedOK, QuantitiesKept
<1>7. OnlyBought'
  <2>1. \A bag \in Bags : HoldsBought(bag)
    BY BagIs DEF HoldsBought
  <2>2. HoldsBought(offer'.bag) /\ \A name \in DOMAIN items : HoldsBought(bought'[name].bag)
    BY <1>2, <1>3, <1>4, <2>1 DEF BagsByName
  <2> QED
    BY <1>1, <2>2 DEF OnlyBought, HoldsBought
<1> QED
  BY <1>5, <1>6, <1>7 DEF OfferInv

LEMMA OfferNext == Inv /\ OfferInv /\ [Next]_vars => OfferInv'
<1> SUFFICES ASSUME Inv, OfferInv, [Next]_vars  PROVE OfferInv'
  OBVIOUS
<1>1. CASE UNCHANGED vars
  <2>1. Found' = Found
    BY <1>1 DEF vars, Found
  <2> QED
    BY <1>1, <2>1 DEF vars, OfferInv, CountedOK, QuantitiesKept, OnlyBought, BuybackSumsUp
<1>2. CASE MoveAhead \/ ParserPanics \/ NoValidLinesFound \/ FindKind \/ BuybackPanics
  <2>1. results' = results /\ pc' \notin {"itemized", "priced", "done"}
    BY <1>2 DEF MoveAhead, ParserPanics, NoValidLinesFound, FindKind, BuybackPanics, Parsing
  <2> QED
    BY <2>1 DEF OfferInv, CountedOK, QuantitiesKept, OnlyBought, BuybackSumsUp
<1> QED
  BY <1>1, <1>2, TakeOffer, ItemsOffer, PricesOffer, BuybackOffer DEF Next

-----------------------------------------------------------------------------
(* Theorems.                                                                 *)

\* In the appraisal of any paste, a line counts for one parser at most, with its own
\* number and text, however the parsers before it renumbered what they left.
THEOREM CountedOnce == Spec => []LineCountedOnce
<1>1. Inv => LineCountedOnce
  BY DEF Inv
<1> QED
  BY <1>1, InitInv, InvNext, PTL DEF Spec

\* A plain line about a type is taken by one of the parsers, in whatever company it
\* is pasted, except that of a killmail, a scan or the header of a fit.
THEOREM PlainLinesKept == Spec => []KnownLineKept
<1>1. Inv => KnownLineKept
  BY DEF Inv, KeptOK, KnownLineKept, Spoiled, PlainLine
<1> QED
  BY <1>1, InitInv, InvNext, PTL DEF Spec

\* A request ends in a panic only when its paste is a killmail or names a type.
THEOREM PanicsExplained == Spec => []PanicNeedsKnownType
<1>1. Inv => PanicNeedsKnownType
  BY DEF Inv
<1> QED
  BY <1>1, InitInv, InvNext, PTL DEF Spec

\* What the results say of a name is its quantity in the appraisal, to the last
\* one, although the items are merged twice, whatever the parsers found.
THEOREM QuantitiesSurvive == Spec => []QuantitiesKept
<1>1. OfferInv => QuantitiesKept
  BY DEF OfferInv
<1> QED
  BY <1>1, InitInv, InvNext, InitOffer, OfferNext, PTL DEF Spec

\* The bag of the whole and its price are the sums of those of the items, for any
\* types and however deep they are taken apart: nothing is rounded a second time.
THEOREM OfferAddsUp == Spec => []BuybackSumsUp
<1>1. OfferInv => BuybackSumsUp
  BY DEF OfferInv
<1> QED
  BY <1>1, InitInv, InvNext, InitOffer, OfferNext, PTL DEF Spec

\* However deep the types of a paste are made of others, the calls end with materials
\* that the corporation buys: the offer holds nothing else, in whole quantities.
THEOREM OfferIsBought == Spec => []OnlyBought
<1>1. OfferInv => OnlyBought
  BY DEF OfferInv
<1> QED
  BY <1>1, InitInv, InvNext, InitOffer, OfferNext, PTL DEF Spec
=============================================================================
