----------------------------- MODULE MCAppraise -----------------------------
(* The types, prices and pastes for TLC. *)
EXTENDS Appraise

MCTypes ==
  [trit   |-> [kind |-> "buyback", portion |-> 1, yield |-> 0, base |-> "trit",
               materials |-> <<>>],
   veld   |-> [kind |-> "asteroid", portion |-> 3, yield |-> 0, base |-> "veld",
               materials |-> <<[name |-> "trit", qty |-> 5]>>],
   dense  |-> [kind |-> "asteroid", portion |-> 3, yield |-> 10, base |-> "veld",
               materials |-> <<[name |-> "trit", qty |-> 7]>>],
   plate  |-> [kind |-> "other", portion |-> 1, yield |-> 0, base |-> "plate",
               materials |-> <<[name |-> "trit", qty |-> 3]>>],
   ship   |-> [kind |-> "other", portion |-> 1, yield |-> 0, base |-> "ship",
               materials |-> <<[name |-> "plate", qty |-> 2],
                               [name |-> "trit", qty |-> 1]>>],
   relic  |-> [kind |-> "other", portion |-> 1, yield |-> 0, base |-> "relic",
               materials |-> <<[name |-> "unnamed", qty |-> 1]>>]]

MCKnown == DOMAIN MCTypes
MCPrice == [m \in {"jita", "amarr"} |->
              [t \in MCKnown |-> CASE t = "trit" -> 3 [] t = "veld" -> 2 [] OTHER -> 7]]
MCRate  == [REFINE |-> 80, REPROCESS |-> 55]
MCAdjustment == [veld |-> 5]

Line(form, name, qty) == [form |-> form, name |-> name, qty |-> qty, ammo |-> Junk]
Ammo(name, ammo) == [form |-> "ammo", name |-> name, qty |-> 0, ammo |-> ammo]

\* Lines that name something: with a known and with an unknown name.
NamingForms ==
  {"name", "qtyName", "nameQty", "dash", "sentence", "words", "assets", "view",
   "viewShort", "contract", "contractShort", "survey", "loot", "pi1", "pi2",
   "pi3", "wallet2", "industry", "copy", "dscan", "tabs4", "qtyTab",
   "tabWords", "leading", "eftHeader", "killItem"}
OtherForms ==
  {"wallet", "emptySlot", "fitHeader", "date", "player", "parties", "destroyed",
   "dropped"}

Lines ==
  {Line(form, name, 10) : form \in NamingForms, name \in {"veld", Junk}}
    \cup {Line(form, Junk, 0) : form \in OtherForms}
    \cup {Blank, Line("name", "relic", 0), Line("qtyName", "ship", 4),
          Line("assets", "dense", 2), Line("stack", "ship", 0),
          Ammo("ship", "plate"), Ammo("veld", Junk), Ammo(Junk, "plate")}

Paste(lines) == [i \in 0 .. Len(lines) - 1 |-> lines[i + 1]]

H(form) == Line(form, Junk, 0)

\* Pastes of one or two lines, and longer ones: killmails that are whole, that
\* are cut, and that are none; a fit between other lines; both kinds of fit.
MCPastes ==
  {Paste(<<l>>) : l \in Lines} \cup {Paste(<<k, l>>) : k, l \in Lines}
    \cup {Paste(<<H("date"), Blank, H("player"), Blank>> \o tail) :
            tail \in {<<H("dropped")>>,
                      <<H("dropped"), Blank>>,
                      <<H("dropped"), Blank, Line("killItem", "veld", 10)>>,
                      <<H("dropped"), Blank, Line("loot", "veld", 10)>>,
                      <<Line("name", "veld", 0)>>,
                      <<H("parties"), Blank, H("player"), Blank, H("player"), Blank,
                        H("destroyed"), Blank, Line("killItem", "veld", 10),
                        Line("name", "ship", 0), Blank,
                        H("dropped"), Blank, Line("name", "veld", 0)>>}}
    \cup {Paste(<<Line("eftHeader", "ship", 0)>> \o tail) :
            tail \in {<<H("emptySlot"), Line("name", "plate", 0), Line("loot", "veld", 3),
                        Line("nameQty", "trit", 50)>>,
                      <<Line("loot", "veld", 3), Line("name", "plate", 0)>>,
                      <<Line("pi1", "trit", 9), Line("dash", "plate", 2), Blank,
                        Line("name", "veld", 0)>>,
                      <<H("fitHeader"), Line("name", "plate", 0)>>}}
    \cup {Paste(<<l, H("fitHeader"), Line("name", "plate", 0), Line("qtyTab", "veld", 4)>>) :
            l \in {Blank, Line("loot", "veld", 2), Line("assets", "plate", 5)}}
=============================================================================
