----------------------------- MODULE LineParsers -----------------------------
(***************************************************************************)
(* The parsers of the package parsers: what each of them takes from a      *)
(* paste and what it leaves.                                               *)
(*                                                                         *)
(* A paste is a function from line numbers, that start at 0, to lines.  A  *)
(* line has a form, the name of the type that it is about, a quantity and, *)
(* for the form "ammo", a second name.  The form says which regular        *)
(* expressions match the line; Matched and Captured were computed by       *)
(* running the expressions of the source over an example of each form:     *)
(*                                                                         *)
(*   name "T"  qtyName "10 T"  nameQty "T 10"  ammo "T, A"  dash "T - 10"  *)
(*   sentence "T please"  words "T, very much"  assets "T<tab>10"          *)
(*   stack "T<tab>" (no quantity)  view "T<tab>G<tab>Cargo Hold<tab>10"    *)
(*   viewShort "T<tab>G<tab>10"  contract "T<tab>10<tab>G<tab>C<tab>D"     *)
(*   contractShort "T<tab>10<tab>G"  survey "T<tab>10<tab>1,000 m"         *)
(*   loot "12:00:00 Bob has looted 10 x T"  pi1 "10<tab>T<tab>Routed"      *)
(*   pi2 "<tab>T<tab>10<tab>5.5"  pi3 "<tab>T<tab>10"                      *)
(*   wallet, wallet2: a transaction, one of an item                        *)
(*   industry "T (10 Units)"  copy "10 T (Copy)"  dscan "Bob<tab>T<tab>10  *)
(*   km"  tabs4 "x<tab>T<tab>y<tab>10"  qtyTab "10<tab>T"                  *)
(*   tabWords "Bob<tab>T"  leading "T please<tab>Bob"                      *)
(*   eftHeader "[T, my fit]"  emptySlot "[Empty High slot]"                *)
(*   fitHeader "High power"  date "2016.01.01 12:00:00"                    *)
(*   player "Name: Bob"  parties, destroyed, dropped: headers of a         *)
(*   killmail  killItem "T, Qty: 10"  blank ""                             *)
(*                                                                         *)
(* What a parser finds is a set of items, each with its line; several of   *)
(* them are grouped by the parsers already, and all are merged by name     *)
(* when the items of the appraisal are made.                               *)
(***************************************************************************)
EXTENDS Naturals, Sequences, FiniteSets, SequencesExt

CONSTANTS
  Known, \* the names that the type database has
  Junk   \* any text that is not the name of a type

ASSUME JunkAssumption == Junk \notin Known

HasType(name) == name \in Known

Blank == [form |-> "blank", name |-> Junk, qty |-> 0, ammo |-> Junk]

\* The forms that a regular expression matches.
Matched ==
  [loot |-> {"loot"}, pi1 |-> {"pi1"}, pi2 |-> {"pi2"}, pi3 |-> {"pi3"},
   view |-> {"view"}, view2 |-> {"viewShort", "pi3"},
   wallet |-> {"wallet"}, wallet2 |-> {"wallet2"}, survey |-> {"survey"},
   contract |-> {"contract"}, contractShort |-> {"contractShort", "survey"},
   ammo |-> {"ammo", "words", "killItem", "eftHeader"},
   listing |-> {"qtyName", "copy", "date"},
   listing2 |-> {"nameQty", "dash", "killItem"},
   listing3 |-> {"name", "qtyName", "nameQty", "ammo", "dash", "sentence",
                 "words", "loot", "industry", "copy", "eftHeader", "emptySlot",
                 "fitHeader", "date", "player", "parties", "destroyed",
                 "dropped", "killItem"},
   assets |-> {"assets", "stack", "contractShort", "survey"},
   industry |-> {"industry"}, cargo |-> {"qtyName", "copy", "date"},
   dscan |-> {"dscan", "survey", "wallet"},
   killItem |-> {"name", "qtyName", "nameQty", "dash", "sentence", "industry",
                 "copy", "fitHeader", "killItem"}]

\* The forms of which its group for the name holds T and nothing else; in the
\* other ones it holds a text that is no type.
Captured ==
  [Matched EXCEPT !.view2 = {"viewShort"}, !.dscan = {"dscan"},
                  !.ammo = {"ammo", "words", "killItem"},
                  !.listing = {"qtyName"}, !.listing2 = {"nameQty"},
                  !.listing3 = {"name"},
                  !.killItem = {"name", "industry", "killItem"}]

Matches(re, line) == line.form \in Matched[re]
Name(re, line)    == IF line.form \in Captured[re] THEN line.name ELSE Junk

\* The quantity that the parser of a regular expression reads: some count 1
\* per line, and assets replace 0 by 1.
Quantity(re, line) ==
  CASE re \in {"listing3", "dscan", "ammo"}              -> 1
    [] re = "killItem" /\ line.form # "killItem"         -> 1
    [] re = "assets" /\ line.qty = 0                     -> 1
    [] OTHER                                             -> line.qty

Item(i, part, name, qty, bpc) ==
  [line |-> i, part |-> part, name |-> name, qty |-> qty, bpc |-> bpc]

\* The items that the match of a line gives: two for a weapon with its ammo,
\* none for a transaction that is not about an item.
Items(re, i, line) ==
  CASE re = "ammo"   -> {Item(i, 1, Name(re, line), 1, FALSE),
                         Item(i, 2, line.ammo, 1, FALSE)}
    [] re = "wallet" -> {}
    [] OTHER         -> {Item(i, 1, Name(re, line), Quantity(re, line),
                              re = "cargo" /\ line.form = "copy")}

Only(in, lines)    == [i \in lines |-> in[i]]
Without(in, lines) == Only(in, DOMAIN in \ lines)

\* What a parser returns.  A parser without a match may return no result at
\* all: its caller does not tell that from a result without lines.
Parsed(lines, items, rest) ==
  [lines |-> lines, items |-> items, rest |-> rest, panics |-> FALSE]
Nothing(in) == Parsed({}, {}, in)
Panic       == [Nothing(<<>>) EXCEPT !.panics = TRUE]

\* The first of the expressions that matches the line, 0 if none does.
Reader(res, line) == SelectInSeq(res, LAMBDA re : Matches(re, line))

\* Parsers that try regular expressions one after the other, each on the
\* lines that the ones before it left.
RegexParse(res, in) ==
  LET lines == {i \in DOMAIN in : Reader(res, in[i]) > 0}
  IN  Parsed(lines,
             UNION {Items(res[Reader(res, in[i])], i, in[i]) : i \in lines},
             Without(in, lines))

ParseLootHistory(in)  == RegexParse(<<"loot">>, in)
ParsePI(in)           == RegexParse(<<"pi1", "pi2", "pi3">>, in)
ParseViewContents(in) == RegexParse(<<"view", "view2">>, in)
ParseWallet(in)       == RegexParse(<<"wallet", "wallet2">>, in)
ParseContract(in)     == RegexParse(<<"contract", "contractShort">>, in)
ParseAssets(in)       == RegexParse(<<"assets">>, in)
ParseIndustry(in)     == RegexParse(<<"industry">>, in)
ParseCargoScan(in)    == RegexParse(<<"cargo">>, in)
ParseDScan(in)        == RegexParse(<<"dscan">>, in)

ListingStages    == <<"ammo", "listing", "listing2", "listing3">>
ParseListing(in) == RegexParse(ListingStages, in)

\* A variant that drops the other lines of every paste, for a check of the
\* properties.
ParseSurveyScanDropping(in) == [RegexParse(<<"survey">>, in) EXCEPT !.rest = <<>>]

\* A survey scan takes its lines and drops every other line of the paste.
ParseSurveyScan(in) ==
  LET scan == RegexParse(<<"survey">>, in)
  IN  IF scan.lines = {} THEN Nothing(in) ELSE [scan EXCEPT !.rest = <<>>]

\* The listing of the program: a line counts only when it names known types,
\* otherwise it is put back for the next stage.
Knows(re, line) ==
  /\ Matches(re, line)
  /\ HasType(Name(re, line))
  /\ re = "ammo" => HasType(line.ammo)

ListingStage(line) == SelectInSeq(ListingStages, LAMBDA re : Knows(re, line))

ContextListing(in) ==
  LET lines == {i \in DOMAIN in : ListingStage(in[i]) > 0}
  IN  Parsed(lines,
             UNION {Items(ListingStages[ListingStage(in[i])], i, in[i]) : i \in lines},
             Without(in, lines))

\* Input.Strings: as many lines as the input has, from number 0 on; a number
\* that the input does not have gives an empty line.
Strings(in) ==
  [i \in 0 .. Cardinality(DOMAIN in) - 1 |->
     IF i \in DOMAIN in THEN in[i] ELSE Blank]

\* A fit of EFT: a header with the ship, then modules, and slots to ignore.
ParseEFT(in) ==
  LET lines   == Strings(in)
      slots   == {i \in DOMAIN lines : lines[i].form = "emptySlot"}
      listing == ParseListing(Without(lines, slots \cup {0}))
  IN  IF 0 \notin DOMAIN lines \/ lines[0].form # "eftHeader" THEN Nothing(in)
      ELSE Parsed({0} \cup slots \cup listing.lines,
                  {Item(0, 1, lines[0].name, 1, FALSE)} \cup listing.items,
                  listing.rest)

\* A fit of the game: lines between headers, which are taken and ignored.
ParseFitting(in) ==
  LET headers == {i \in DOMAIN in : in[i].form = "fitHeader"}
      listing == ParseListing(Without(in, headers))
  IN  IF headers = {} THEN Nothing(in)
      ELSE [listing EXCEPT !.lines = @ \cup headers]

-----------------------------------------------------------------------------
(* A killmail: a date, a blank line, the victim, and sections that each have *)
(* a header, a blank line and a body up to the next blank line.  It is taken *)
(* as a whole or not at all.                                                 *)

\* A player's line of the involved parties may follow a blank line.
Body(lines, from, header) ==
  LET n       == Cardinality(DOMAIN lines)
      Ends(i) == /\ lines[i].form = "blank"
                 /\ header = "parties" /\ i + 1 < n
                      => lines[i + 1].form # "player"
      ends    == {i \in from .. n - 1 : Ends(i)}
  IN  IF ends # {} THEN from .. (CHOOSE i \in ends : \A j \in ends : i <= j) - 1
      ELSE from .. n - 1

Players(lines, body) == \A i \in body : lines[i].form \in {"player", "blank"}
KillItems(lines, body) == \A i \in body : Matches("killItem", lines[i])

\* The offset after a body: the blank line that ends it, or the last line.
After(lines, from, body) ==
  LET n == Cardinality(DOMAIN lines)
  IN  IF from + Cardinality(body) < n THEN from + Cardinality(body)
      ELSE IF body = {} THEN from ELSE n - 1

\* The sections from an offset on, and how the paste ends: as a whole killmail,
\* as none, or cut off.  A section that comes again replaces the one before it.
Sections(lines) ==
  LET n == Cardinality(DOMAIN lines)
      End(how, items) == [how |-> how, items |-> items]
      Section[s \in Nat \X [destroyed : SUBSET DOMAIN lines, dropped : SUBSET DOMAIN lines]] ==
        LET at      == s[1]
            header  == lines[at].form
            from    == at + 2
            body    == Body(lines, from, header)
            next    == After(lines, from, body) + 1
            parties == header = "parties"
            items   == UNION {Items("killItem", i, lines[i]) : i \in s[2].destroyed
                                                               \cup s[2].dropped}
        IN  IF at >= n THEN End("whole", items)
            ELSE IF header \notin {"parties", "destroyed", "dropped"} THEN End("none", {})
            ELSE IF at = n - 1 THEN End("cut", {})
            ELSE IF (parties /\ ~Players(lines, body)) \/ (~parties /\ ~KillItems(lines, body))
                 THEN End("none", {})
            ELSE Section[<<next, IF parties THEN s[2]
                                 ELSE [s[2] EXCEPT ![header] = body]>>]
  IN  Section

ParseKillmail(in) ==
  LET lines  == Strings(in)
      n      == Cardinality(DOMAIN in)
      victim == Body(lines, 2, "victim")
      mail   == Sections(lines)[<<After(lines, 2, victim) + 1,
                                  [destroyed |-> {}, dropped |-> {}]>>]
  IN  CASE 0 \notin DOMAIN in \/ lines[0].form # "date" -> Nothing(in)
        [] n = 1 /\ in[0].form = "date" -> Panic
        [] OTHER ->
             IF ~Players(lines, victim) THEN Nothing(in)
             ELSE CASE mail.how = "whole" -> Parsed(DOMAIN lines, mail.items, <<>>)
                    [] mail.how = "none"  -> Nothing(in)
                    [] OTHER              -> Panic

-----------------------------------------------------------------------------
(* The heuristic parser, the last one: it guesses what a line is about.      *)

\* The parts of a line between tabs, double spaces, dashes or spaces, for the
\* forms that come this far and have a type among them.
PartsOf ==
  [nameQty |-> <<"name", "qty">>, dash |-> <<"name", "qty">>,
   ammo |-> <<"name", "ammo">>, sentence |-> <<"name", "junk">>,
   words |-> <<"name", "junk", "junk">>, tabs4 |-> <<"junk", "name", "junk", "qty">>,
   qtyTab |-> <<"qty", "name">>, tabWords |-> <<"junk", "name">>,
   killItem |-> <<"name", "junk", "qty">>, eftHeader |-> <<"name", "junk", "junk">>]

Parts(line) == IF line.form \in DOMAIN PartsOf THEN PartsOf[line.form] ELSE <<>>
PartName(line, part) ==
  CASE part = "name" -> line.name [] part = "ammo" -> line.ammo [] OTHER -> Junk

HeuristicSpecs ==
  <<<<"ignore", "item", "ignore", "quantity">>, <<"quantity", "ignore", "item">>,
    <<"item", "quantity">>, <<"quantity", "item">>>>

Specified(spec, line) ==
  LET parts == Parts(line)
  IN  /\ Len(spec) <= Len(parts)
      /\ \A k \in DOMAIN spec :
           /\ spec[k] = "item" => HasType(PartName(line, parts[k]))
           /\ spec[k] = "quantity" => parts[k] = "qty" /\ line.qty # 0

\* By a specification of its parts, or else by every part that is a type.
HeuristicMethod1(i, line) ==
  LET parts == Parts(line)
      known == {k \in DOMAIN parts : HasType(PartName(line, parts[k]))}
  IN  IF \E k \in DOMAIN HeuristicSpecs : Specified(HeuristicSpecs[k], line)
      THEN {Item(i, 1, line.name, line.qty, FALSE)}
      ELSE {Item(i, k, PartName(line, parts[k]), 1, FALSE) : k \in known}

\* By the words at its beginning.
HeuristicMethod2(i, line) ==
  IF line.form = "leading" /\ HasType(line.name)
  THEN {Item(i, 1, line.name, 1, FALSE)} ELSE {}

Heuristic(in) ==
  LET Found(i) == IF HeuristicMethod1(i, in[i]) # {} THEN HeuristicMethod1(i, in[i])
                  ELSE HeuristicMethod2(i, in[i])
      lines    == {i \in DOMAIN in : Found(i) # {}}
  IN  Parsed(lines, UNION {Found(i) : i \in lines}, Without(in, lines))
=============================================================================
