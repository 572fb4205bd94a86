-------------------------- MODULE TypeDBSwapProofs --------------------------
(***************************************************************************)
(* Theorems about TypeDBSwap, for any handles, requests and number of      *)
(* failures: what a request can load is open, no more than two databases   *)
(* are open, and a type is missed only across a close.                     *)
(***************************************************************************)
EXTENDS TypeDBSwap, FiniteSetTheorems, TLAPS

Started == app \in {"starting", "serving", "stopping"}

\* What the two pointers lead to at each step of the callback.
PointersOK ==
  /\ swap.pc \in {"idle", "run"} => parser = typeDB
  /\ swap.pc = "store"  => parser = typeDB /\ swap.new # typeDB
  /\ swap.pc = "parser" => typeDB = swap.new /\ parser = swap.old /\ swap.old # swap.new
  /\ swap.pc = "close"  => typeDB = swap.new /\ parser = swap.new /\ swap.old # swap.new

\* The databases that the callback has not closed yet: the one that is served,
\* and the one that comes or goes.
InUse ==
  ({typeDB} \cup IF swap.pc = "store" THEN {swap.new}
                 ELSE IF swap.pc \in {"parser", "close"} THEN {swap.old} ELSE {}) \ {NoDB}

\* Only these are open, besides those that nobody has, and all of them are until
\* the program ends.
OpenOK ==
  /\ open \ failed \subseteq InUse
  /\ InUse \cap failed = {}
  /\ Started => InUse \subseteq open

\* Once requests are served there is a database; before, there are no requests.
ServedOK ==
  /\ app \in {"serving", "stopping", "closed"} => typeDB # NoDB /\ parser # NoDB
  /\ app = "starting" => Active = {}
  /\ app = "closed" => swap = Idle

\* The database that a request holds is open, unless one was closed meanwhile, as
\* the last one is in the end.
HeldOpen ==
  \A r \in Active :
    /\ app # "dead" => calls[r].swapped \/ calls[r].db \in open
    /\ app = "closed" => calls[r].swapped

Inv == TypeOK /\ PointersOK /\ OpenOK /\ ServedOK /\ HeldOpen /\ MissOnlyIfSwapped

-----------------------------------------------------------------------------
(* Requests.                                                                 *)

\* A state of a request: idle, or with its fields.
LEMMA CallFields ==
  ASSUME NEW c \in CallStates, c # Idle
  PROVE  /\ c.pc \in {"load", "begin", "tx", "slice"}
         /\ c.phase \in {"parse", "price", "search"}
         /\ c.db \in Handles
         /\ c.missed \in BOOLEAN /\ c.swapped \in BOOLEAN
         /\ c = [pc |-> c.pc, phase |-> c.phase, db |-> c.db,
                 missed |-> c.missed, swapped |-> c.swapped]
BY DEF CallStates

\* A request that is at some point of its way is active.
LEMMA AtActive ==
  ASSUME TypeOK, NEW r \in Requests, calls[r].pc # "idle"
  PROVE  r \in Active /\ calls[r] \in CallStates /\ calls[r] # Idle
BY DEF TypeOK, Active, Idle

\* A step of one request keeps the invariant, also when it ends the program, if
\* the request goes on with an open database or knows of a close.
LEMMA CallStep ==
  ASSUME Inv, NEW r \in Requests, NEW c \in CallStates,
         UNCHANGED <<typeDB, parser, open, failed, swap>>,
         app' = app \/ app' = "dead",
         calls' = [calls EXCEPT ![r] = c],
         c # Idle => /\ app # "starting"
                     /\ c.swapped \/ (app # "closed" /\ c.db \in open)
                     /\ c.missed => c.swapped
  PROVE  Inv'
<1>1. TypeOK'
  BY DEF Inv, TypeOK
<1>2. PointersOK' /\ OpenOK'
  BY DEF Inv, PointersOK, OpenOK, Started, InUse
<1>3. \A q \in Requests : calls'[q] = IF q = r THEN c ELSE calls[q]
  BY DEF Inv, TypeOK
<1>4. ServedOK'
  BY <1>3 DEF Inv, ServedOK, Active
<1>5. HeldOpen'
  BY <1>3 DEF Inv, HeldOpen, Active
<1>6. MissOnlyIfSwapped'
  BY <1>3 DEF Inv, MissOnlyIfSwapped, Active
<1> QED
  BY <1>1, <1>2, <1>4, <1>5, <1>6 DEF Inv

LEMMA ServedOpen ==
  ASSUME Inv, app \in {"serving", "stopping"}
  PROVE  {typeDB, parser} \subseteq open /\ {typeDB, parser} \subseteq Handles
<1>1. /\ typeDB # NoDB /\ parser # NoDB
      /\ typeDB \in Handles /\ parser \in Handles
      /\ InUse \subseteq open /\ PointersOK
      /\ swap \in SwapStates
  BY DEF Inv, ServedOK, OpenOK, Started, TypeOK
<1>2. parser = typeDB \/ (parser = swap.old /\ swap.pc = "parser")
  BY <1>1 DEF PointersOK, SwapStates, Idle
<1> QED
  BY <1>1, <1>2 DEF InUse

LEMMA StartInv ==
  ASSUME Inv, NEW r \in Requests, Start(r)
  PROVE  Inv'
<1>1. {typeDB, parser} \subseteq open /\ {typeDB, parser} \subseteq Handles
  BY ServedOpen DEF Start
<1>2. PICK phase \in {"parse", "search"}, db \in {typeDB, parser} :
         calls' = [calls EXCEPT ![r] = Call(phase, db)]
  BY DEF Start
<1>3. Call(phase, db) \in CallStates /\ Call(phase, db).db \in open
      /\ ~Call(phase, db).missed
  BY <1>1 DEF Call, CallStates
<1> QED
  BY <1>2, <1>3, CallStep DEF Start

LEMMA LoadInv ==
  ASSUME Inv, NEW r \in Requests, Load(r)
  PROVE  Inv'
<1> DEFINE c == [calls[r] EXCEPT !.pc = "begin", !.db = typeDB]
<1>1. /\ r \in Active /\ calls[r] \in CallStates /\ calls[r] # Idle
  BY AtActive DEF Load, Inv
<1>2. app \in {"serving", "stopping", "closed"}
  BY <1>1 DEF Load, Alive, Inv, TypeOK, ServedOK
<1>3. typeDB \in Handles
  BY <1>2 DEF Inv, TypeOK, ServedOK
<1>4. /\ c \in CallStates /\ c.db = typeDB
      /\ c.swapped = calls[r].swapped /\ c.missed = calls[r].missed
  BY <1>1, <1>3, CallFields DEF CallStates
<1>5. calls' = [calls EXCEPT ![r] = c]
  BY DEF Load, Inv, TypeOK
<1>6. c.missed => c.swapped
  BY <1>1, <1>4 DEF Inv, MissOnlyIfSwapped
<1>7. c.swapped \/ (app # "closed" /\ c.db \in open)
  <2>1. CASE app = "closed"
    BY <1>1, <1>4, <2>1 DEF Inv, HeldOpen
  <2>2. CASE app \in {"serving", "stopping"}
    BY <1>4, <2>2, ServedOpen
  <2> QED
    BY <1>2, <2>1, <2>2
<1> HIDE DEF c
<1> QED
  BY <1>2, <1>4, <1>5, <1>6, <1>7, CallStep DEF Load

\* A lookup that is over leaves the request where it goes on, and what it missed
\* was missed across a close.
LEMMA AfterStep ==
  ASSUME Inv, NEW r \in Requests, NEW missed \in BOOLEAN,
         UNCHANGED <<typeDB, parser, open, failed, swap>>,
         app' = app, Alive, calls[r].pc # "idle",
         calls' = After(r, missed),
         missed => calls[r].db \notin open
  PROVE  Inv'
<1> DEFINE pc == IF calls[r].phase = "price" THEN "load" ELSE "begin"
           m  == IF missed THEN TRUE ELSE calls[r].missed
           c  == [calls[r] EXCEPT !.pc = pc, !.missed = m]
<1>1. /\ r \in Active /\ calls[r] \in CallStates /\ calls[r] # Idle
  BY AtActive DEF Inv
<1>2. pc \in {"load", "begin"} /\ m \in BOOLEAN /\ (m <=> calls[r].missed \/ missed)
  BY <1>1, CallFields
<1>3. calls' = [calls EXCEPT ![r] = [calls[r] EXCEPT !.pc = pc, !.missed = calls[r].missed \/ missed]]
  BY DEF After, Inv, TypeOK
<1>4. (calls[r].missed \/ missed) = m
  BY <1>1, <1>2, CallFields
<1>5. calls' = [calls EXCEPT ![r] = c]
  BY <1>3, <1>4
<1> HIDE DEF pc, m
<1>6. /\ c \in CallStates /\ c.missed = m
      /\ c.db = calls[r].db /\ c.swapped = calls[r].swapped
  BY <1>1, <1>2, CallFields DEF CallStates
<1>7. /\ app # "starting"
      /\ calls[r].swapped \/ (app # "closed" /\ calls[r].db \in open)
      /\ calls[r].missed => calls[r].swapped
  BY <1>1 DEF Inv, ServedOK, HeldOpen, MissOnlyIfSwapped, Alive
<1> HIDE DEF c
<1>8. c.missed => c.swapped
  BY <1>2, <1>6, <1>7
<1> QED
  BY <1>5, <1>6, <1>7, <1>8, CallStep

\* So does a request that only goes on.
LEMMA GotoStep ==
  ASSUME Inv, NEW r \in Requests, NEW pc \in {"load", "begin", "tx", "slice"},
         NEW phase \in {"parse", "price", "search"},
         UNCHANGED <<app, typeDB, parser, open, failed, swap>>,
         Alive, calls[r].pc # "idle",
         calls' = [calls EXCEPT ![r] = [calls[r] EXCEPT !.pc = pc, !.phase = phase]]
  PROVE  Inv'
<1> DEFINE c == [calls[r] EXCEPT !.pc = pc, !.phase = phase]
<1>1. /\ r \in Active /\ calls[r] \in CallStates /\ calls[r] # Idle
  BY AtActive DEF Inv
<1>2. /\ c \in CallStates /\ c.missed = calls[r].missed
      /\ c.db = calls[r].db /\ c.swapped = calls[r].swapped
  BY <1>1, CallFields DEF CallStates
<1>3. /\ app # "starting"
      /\ calls[r].swapped \/ (app # "closed" /\ calls[r].db \in open)
      /\ calls[r].missed => calls[r].swapped
  BY <1>1 DEF Inv, ServedOK, HeldOpen, MissOnlyIfSwapped, Alive
<1>4. calls' = [calls EXCEPT ![r] = c]
  OBVIOUS
<1> HIDE DEF c
<1> QED
  BY <1>2, <1>3, <1>4, CallStep

\* Memory that is gone ends the program, or a type is missed.
LEMMA UnmappedStep ==
  ASSUME Inv, NEW r \in Requests, ReadUnmapped(r),
         UNCHANGED <<typeDB, parser, open, failed, swap>>,
         Alive, calls[r].pc # "idle", calls[r].db \notin open
  PROVE  Inv'
<1>1. CASE app' = "dead" /\ UNCHANGED calls
  BY <1>1 DEF Inv, TypeOK, PointersOK, OpenOK, Started, InUse, ServedOK, HeldOpen,
              MissOnlyIfSwapped, Active
<1>2. CASE app' = app /\ calls' = After(r, TRUE)
  BY <1>2, AfterStep
<1> QED
  BY <1>1, <1>2 DEF ReadUnmapped

\* The state of a request whose pc moves, as one record.
LEMMA Moved ==
  ASSUME TypeOK, NEW r \in Requests, calls[r].pc # "idle", NEW pc,
         calls' = [calls EXCEPT ![r].pc = pc]
  PROVE  calls' = [calls EXCEPT ![r] = [calls[r] EXCEPT !.pc = pc, !.phase = calls[r].phase]]
<1>1. calls[r] = [calls[r] EXCEPT !.phase = calls[r].phase]
  BY AtActive, CallFields
<1>2. [calls[r] EXCEPT !.pc = pc] = [calls[r] EXCEPT !.pc = pc, !.phase = calls[r].phase]
  BY <1>1, AtActive, CallFields
<1> QED
  BY <1>2 DEF TypeOK

LEMMA BeginInv ==
  ASSUME Inv, NEW r \in Requests, Begin(r)
  PROVE  Inv'
<1>1. calls[r].pc # "idle" /\ calls[r].phase \in {"parse", "price", "search"}
  BY AtActive, CallFields DEF Begin, Inv
<1>2. CASE calls[r].db \in open
  <2>1. calls' = [calls EXCEPT ![r].pc = "tx"]
    BY <1>2 DEF Begin
  <2> QED
    BY <1>1, <2>1, Moved, GotoStep DEF Begin, Inv
<1>3. CASE calls[r].db \notin open
  BY <1>1, <1>3, AfterStep DEF Begin
<1> QED
  BY <1>2, <1>3

LEMMA GetInv ==
  ASSUME Inv, NEW r \in Requests, Get(r)
  PROVE  Inv'
<1>1. calls[r].pc # "idle" /\ calls[r].phase \in {"parse", "price", "search"}
  BY AtActive, CallFields DEF Get, Inv
<1>2. CASE calls[r].db \in open /\ calls' = [calls EXCEPT ![r].pc = "slice"]
  BY <1>1, <1>2, Moved, GotoStep DEF Get, Inv
<1>3. CASE calls[r].db \in open /\ calls' = After(r, FALSE)
  BY <1>1, <1>3, AfterStep DEF Get
<1>4. CASE calls[r].db \notin open
  BY <1>1, <1>4, UnmappedStep DEF Get
<1> QED
  BY <1>2, <1>3, <1>4 DEF Get

LEMMA DecodeInv ==
  ASSUME Inv, NEW r \in Requests, Decode(r)
  PROVE  Inv'
<1>1. calls[r].pc # "idle"
  BY DEF Decode
<1>2. CASE calls[r].db \in open
  BY <1>1, <1>2, AfterStep DEF Decode
<1>3. CASE calls[r].db \notin open
  BY <1>1, <1>3, UnmappedStep DEF Decode
<1> QED
  BY <1>2, <1>3

LEMMA FinishInv ==
  ASSUME Inv, NEW r \in Requests, Finish(r)
  PROVE  Inv'
<1>1. calls[r].pc # "idle"
  BY DEF Finish
<1>2. CASE calls[r].phase = "parse"
  BY <1>1, <1>2, GotoStep DEF Finish
<1>3. CASE calls[r].phase # "parse"
  <2>1. calls' = [calls EXCEPT ![r] = Idle] /\ Idle \in CallStates
    BY <1>3 DEF Finish, CallStates
  <2> QED
    BY <2>1, CallStep DEF Finish
<1> QED
  BY <1>2, <1>3

-----------------------------------------------------------------------------
(* The fetcher and its callback.                                             *)

\* A step that leaves the requests and closes nothing.
LEMMA CallsKept ==
  ASSUME Inv, UNCHANGED calls, open \subseteq open', app' \in {app, "dead"}
  PROVE  HeldOpen' /\ MissOnlyIfSwapped'
BY DEF Inv, HeldOpen, MissOnlyIfSwapped, Active

LEMMA RunOnceInv == Inv /\ RunOnce => Inv'
<1> SUFFICES ASSUME Inv, RunOnce  PROVE Inv'
  OBVIOUS
<1>1. TypeOK'
  BY DEF RunOnce, Inv, TypeOK, SwapStates
<1>2. PointersOK' /\ OpenOK' /\ ServedOK'
  BY DEF RunOnce, Inv, PointersOK, OpenOK, Started, InUse, ServedOK, Active, Idle
<1> QED
  BY <1>1, <1>2, CallsKept DEF RunOnce, Inv

LEMMA OpenNewInv ==
  ASSUME Inv, NEW h \in Handles, OpenNew(h)
  PROVE  Inv'
<1>1. TypeOK'
  BY DEF OpenNew, Inv, TypeOK, SwapStates
<1>2. h # typeDB /\ h # NoDB /\ h \notin open /\ h \notin failed
  BY NoDBAssumption DEF OpenNew, Free, Inv, TypeOK
<1>3. swap.pc = "run" /\ swap'.pc = "store" /\ swap'.new = h
  BY DEF OpenNew
<1>4. PointersOK' /\ OpenOK' /\ ServedOK'
  BY <1>2, <1>3 DEF OpenNew, Inv, PointersOK, OpenOK, Started, InUse, ServedOK, Active, Idle
<1> QED
  BY <1>1, <1>4, CallsKept DEF OpenNew, Inv

LEMMA RunFailsInv == Inv /\ RunFails => Inv'
<1> SUFFICES ASSUME Inv, RunFails  PROVE Inv'
  OBVIOUS
<1>1. \/ UNCHANGED <<open, failed>>
      \/ \E h \in Handles : /\ h \notin {typeDB, parser} \cup open
                           /\ open' = open \cup {h} /\ failed' = failed \cup {h}
  BY DEF RunFails, Free
<1>2. TypeOK'
  BY <1>1 DEF RunFails, Inv, TypeOK, SwapStates
<1>3. OpenOK'
  BY <1>1 DEF RunFails, Inv, OpenOK, Started, InUse, Idle
<1>4. PointersOK' /\ ServedOK'
  BY DEF RunFails, Inv, PointersOK, ServedOK, Active, Idle
<1>5. HeldOpen' /\ MissOnlyIfSwapped'
  BY <1>1, CallsKept DEF RunFails
<1> QED
  BY <1>2, <1>3, <1>4, <1>5 DEF Inv

LEMMA StoreTypeDBInv == Inv /\ StoreTypeDB => Inv'
<1> SUFFICES ASSUME Inv, StoreTypeDB  PROVE Inv'
  OBVIOUS
<1>1. swap.pc = "store" /\ swap.new \in Handles
  BY DEF StoreTypeDB, Inv, TypeOK, SwapStates, Idle
<1>2. /\ swap'.pc = "parser" /\ swap'.new = swap.new /\ swap'.old = typeDB
      /\ typeDB' = swap.new
  BY DEF StoreTypeDB
<1>3. TypeOK'
  BY <1>1 DEF StoreTypeDB, Inv, TypeOK, SwapStates
<1>4. PointersOK' /\ OpenOK' /\ ServedOK'
  BY <1>1, <1>2, NoDBAssumption
     DEF StoreTypeDB, Inv, PointersOK, OpenOK, Started, InUse, ServedOK, Active, Idle
<1> QED
  BY <1>3, <1>4, CallsKept DEF StoreTypeDB, Inv

LEMMA StoreParserInv == Inv /\ StoreParser => Inv'
<1> SUFFICES ASSUME Inv, StoreParser  PROVE Inv'
  OBVIOUS
<1>1. swap.pc = "parser" /\ swap.new \in Handles /\ swap.old \in Handles \cup {NoDB}
  BY DEF StoreParser, Inv, TypeOK, SwapStates, Idle
<1>2. /\ swap'.pc = "close" /\ swap'.new = swap.new /\ swap'.old = swap.old
      /\ parser' = swap.new
  BY DEF StoreParser
<1>3. TypeOK'
  BY <1>1 DEF StoreParser, Inv, TypeOK, SwapStates
<1>4. PointersOK' /\ OpenOK' /\ ServedOK'
  BY <1>1, <1>2, NoDBAssumption
     DEF StoreParser, Inv, PointersOK, OpenOK, Started, InUse, ServedOK, Active, Idle
<1> QED
  BY <1>3, <1>4, CallsKept DEF StoreParser, Inv

\* All requests learn of a close.
LEMMA SwappedCalls ==
  ASSUME TypeOK, MissOnlyIfSwapped, calls' = Swapped
  PROVE  /\ calls' \in [Requests -> CallStates]
         /\ Active' = Active
         /\ \A r \in Active : calls'[r].swapped
<1>1. ASSUME NEW r \in Active
      PROVE  /\ calls'[r] = [calls[r] EXCEPT !.swapped = TRUE]
             /\ calls'[r] \in CallStates /\ calls'[r] # Idle /\ calls'[r].swapped
  <2>1. r \in Requests /\ calls[r] \in CallStates /\ calls[r] # Idle
    BY DEF Active, TypeOK
  <2>2. calls'[r] = [calls[r] EXCEPT !.swapped = TRUE]
    BY <2>1 DEF Swapped
  <2> DEFINE c == calls[r]
  <2>3. c \in [pc : {"load", "begin", "tx", "slice"}, phase : {"parse", "price", "search"},
               db : Handles, missed : BOOLEAN, swapped : BOOLEAN]
    BY <2>1 DEF CallStates
  <2> HIDE DEF c
  <2>4. /\ [c EXCEPT !.swapped = TRUE] \in CallStates
        /\ [c EXCEPT !.swapped = TRUE].swapped
        /\ [c EXCEPT !.swapped = TRUE].pc # "idle"
    BY <2>3 DEF CallStates
  <2> QED
    BY <2>2, <2>4 DEF Idle, c
<1>2. ASSUME NEW r \in Requests \ Active
      PROVE  calls'[r] = Idle /\ calls'[r] \in CallStates
  BY DEF Swapped, CallStates
<1>3. calls' \in [Requests -> CallStates]
  <2>1. \A r \in Requests : calls'[r] \in CallStates
    BY <1>1, <1>2
  <2> QED
    BY <2>1 DEF Swapped
<1> QED
  BY <1>1, <1>2, <1>3 DEF Active

LEMMA CloseOldInv == Inv /\ CloseOld => Inv'
<1> SUFFICES ASSUME Inv, CloseOld  PROVE Inv'
  OBVIOUS
<1>1. swap.pc = "close" /\ swap'.pc = "idle" /\ swap' = Idle
  BY DEF CloseOld, Idle
<1>2. calls' \in [Requests -> CallStates] /\ Active' = Active
  BY SwappedCalls DEF CloseOld, Inv, TypeOK, Active
<1>3. swap.old \notin failed
  <2>1. swap.old = NoDB => swap.old \notin failed
    BY NoDBAssumption DEF Inv, TypeOK
  <2>2. swap.old # NoDB => swap.old \notin failed
    BY <1>1 DEF Inv, OpenOK, InUse
  <2> QED
    BY <2>1, <2>2
<1>4. TypeOK'
  BY <1>2, <1>3 DEF CloseOld, Inv, TypeOK, SwapStates
<1>5. PointersOK' /\ OpenOK' /\ ServedOK'
  BY <1>1, <1>2 DEF CloseOld, Inv, PointersOK, OpenOK, Started, InUse, ServedOK
<1>6. HeldOpen' /\ MissOnlyIfSwapped'
  <2>1. CASE swap.old = NoDB
    <3>1. open' = open
      BY <2>1, NoDBAssumption DEF CloseOld, Inv, TypeOK
    <3> QED
      BY <2>1, <3>1, CallsKept DEF CloseOld
  <2>2. CASE swap.old # NoDB
    BY <2>2, <1>2, SwappedCalls DEF CloseOld, Inv, HeldOpen, MissOnlyIfSwapped
  <2> QED
    BY <2>1, <2>2
<1> QED
  BY <1>4, <1>5, <1>6 DEF Inv

-----------------------------------------------------------------------------
(* Start and end of the program.                                             *)

LEMMA ServeInv == Inv /\ Serve => Inv'
<1> SUFFICES ASSUME Inv, Serve  PROVE Inv'
  OBVIOUS
<1>1. Active = {} /\ Active' = Active /\ parser = typeDB /\ typeDB # NoDB
  BY DEF Serve, Inv, ServedOK, PointersOK, Idle, Active
<1>2. TypeOK' /\ PointersOK' /\ OpenOK' /\ ServedOK'
  BY <1>1 DEF Serve, Inv, TypeOK, PointersOK, OpenOK, Started, InUse, ServedOK
<1> QED
  BY <1>1, <1>2 DEF HeldOpen, MissOnlyIfSwapped, Inv

LEMMA StopInv == Inv /\ Stop => Inv'
BY DEF Stop, Inv, TypeOK, PointersOK, OpenOK, Started, InUse, ServedOK, HeldOpen,
       MissOnlyIfSwapped, Active

LEMMA CloseLastInv == Inv /\ CloseLast => Inv'
<1> SUFFICES ASSUME Inv, CloseLast  PROVE Inv'
  OBVIOUS
<1>1. swap = Idle /\ swap' = Idle /\ swap.pc = "idle" /\ app' = "closed"
  BY DEF CloseLast, Idle
<1>2. typeDB # NoDB /\ parser # NoDB /\ typeDB \notin failed
  BY DEF CloseLast, Inv, ServedOK, OpenOK, InUse
<1>3. calls' \in [Requests -> CallStates] /\ Active' = Active
  BY SwappedCalls DEF CloseLast, Inv
<1>4. TypeOK'
  BY <1>2, <1>3 DEF CloseLast, Inv, TypeOK
<1>5. PointersOK' /\ OpenOK' /\ ServedOK'
  BY <1>1, <1>2 DEF CloseLast, Inv, PointersOK, OpenOK, Started, InUse, ServedOK
<1>6. HeldOpen' /\ MissOnlyIfSwapped'
  BY <1>3, SwappedCalls DEF CloseLast, Inv, HeldOpen, MissOnlyIfSwapped
<1> QED
  BY <1>4, <1>5, <1>6 DEF Inv

LEMMA ExitInv == Inv /\ Exit => Inv'
BY DEF Exit, Inv, TypeOK, PointersOK, OpenOK, Started, InUse, ServedOK, HeldOpen,
       MissOnlyIfSwapped, Active

LEMMA InitInv == Init => Inv
<1> SUFFICES ASSUME Init  PROVE Inv
  OBVIOUS
<1>1. TypeOK
  BY DEF Init, TypeOK, SwapStates, CallStates
<1>2. Active = {} /\ swap.pc = "idle"
  BY DEF Init, Active, Idle
<1> QED
  BY <1>1, <1>2 DEF Init, Inv, PointersOK, OpenOK, Started, InUse, ServedOK, HeldOpen,
                    MissOnlyIfSwapped

LEMMA RestartInv == Inv /\ Restart => Inv'
<1> SUFFICES ASSUME Inv, Restart  PROVE Inv'
  OBVIOUS
<1>1. TypeOK'
  BY DEF Restart, TypeOK, SwapStates, CallStates
<1>2. Active' = {} /\ swap'.pc = "idle"
  BY DEF Restart, Active, Idle
<1> QED
  BY <1>1, <1>2 DEF Restart, Inv, PointersOK, OpenOK, Started, InUse, ServedOK, HeldOpen,
                    MissOnlyIfSwapped

LEMMA InvNext == Inv /\ [Next]_vars => Inv'
<1> SUFFICES ASSUME Inv, [Next]_vars  PROVE Inv'
  OBVIOUS
<1>1. ASSUME NEW h \in Handles, OpenNew(h)  PROVE Inv'
  BY <1>1, OpenNewInv
<1>2. ASSUME NEW r \in Requests, Start(r) \/ Lookup(r) \/ Finish(r)  PROVE Inv'
  BY <1>2, StartInv, LoadInv, BeginInv, GetInv, DecodeInv, FinishInv DEF Lookup
<1>3. CASE RunOnce \/ RunFails \/ StoreTypeDB \/ StoreParser \/ CloseOld
  BY <1>3, RunOnceInv, RunFailsInv, StoreTypeDBInv, StoreParserInv, CloseOldInv
<1>4. CASE Serve \/ Stop \/ CloseLast \/ Exit \/ Restart
  BY <1>4, ServeInv, StopInv, CloseLastInv, ExitInv, RestartInv
<1>5. CASE UNCHANGED vars
  BY <1>5 DEF vars, Inv, TypeOK, PointersOK, OpenOK, Started, InUse, ServedOK, HeldOpen,
              MissOnlyIfSwapped, Active
<1> QED
  BY <1>1, <1>2, <1>3, <1>4, <1>5 DEF Next

LEMMA AlwaysInv == Spec => []Inv
BY InitInv, InvNext, PTL DEF Spec

-----------------------------------------------------------------------------
(* Theorems.                                                                 *)

\* Every reachable state is well typed, a crash in the middle of a lookup and the
\* shutdown included.
THEOREM TypeCorrect == Spec => []TypeOK
<1>1. Inv => TypeOK
  BY DEF Inv
<1> QED
  BY <1>1, AlwaysInv, PTL

\* While the program serves, both pointers lead to open databases, at each of the
\* steps of the callback in app.go: it stores both before it closes anything.
THEOREM PointersStayOpen == Spec => []CurrentOpen
<1>1. Inv => CurrentOpen
  BY ServedOpen DEF CurrentOpen
<1> QED
  BY <1>1, AlwaysInv, PTL

\* Three databases are never open at a time, besides those that nobody can close
\* any more, and between two swaps it is one.
THEOREM SwapsAreWhole == Spec => []SwapWhole
<1>1. Inv => SwapWhole
  <2> SUFFICES ASSUME Inv  PROVE SwapWhole
    OBVIOUS
  <2>1. ASSUME swap.pc \in {"idle", "run"}, app \in {"serving", "stopping"}
        PROVE  parser = typeDB /\ open = {typeDB} \cup failed
    <3>1. parser = typeDB /\ InUse = {typeDB}
      BY <2>1 DEF Inv, PointersOK, ServedOK, InUse
    <3> QED
      BY <2>1, <3>1 DEF Inv, OpenOK, Started, TypeOK
  <2>2. Cardinality(open \ failed) <= 2
    <3>1. PICK other : InUse \subseteq {typeDB, other}
      BY DEF InUse
    <3>2. IsFiniteSet({typeDB, other}) /\ Cardinality({typeDB, other}) <= 2
      <4>1. IsFiniteSet({typeDB}) /\ Cardinality({typeDB}) = 1
        BY FS_Singleton
      <4>2. {typeDB, other} = {typeDB} \cup {other}
        OBVIOUS
      <4>3. /\ IsFiniteSet({typeDB} \cup {other})
            /\ Cardinality({typeDB} \cup {other})
                 = IF other \in {typeDB} THEN Cardinality({typeDB}) ELSE Cardinality({typeDB}) + 1
        BY <4>1, FS_AddElement
      <4> QED
        BY <4>1, <4>2, <4>3
    <3>3. open \ failed \in SUBSET {typeDB, other}
      BY <3>1 DEF Inv, OpenOK
    <3>4. /\ Cardinality(open \ failed) <= Cardinality({typeDB, other})
          /\ IsFiniteSet(open \ failed)
      BY <3>2, <3>3, FS_Subset
    <3> QED
      BY <3>2, <3>4, FS_CardinalityType
  <2> QED
    BY <2>1, <2>2 DEF SwapWhole
<1> QED
  BY <1>1, AlwaysInv, PTL

\* A request misses a type, of those that exist, only when a database was closed
\* while it was in progress, whatever the swaps and other requests do.
THEOREM MissesExplained == Spec => []MissOnlyIfSwapped
<1>1. Inv => MissOnlyIfSwapped
  BY DEF Inv
<1> QED
  BY <1>1, AlwaysInv, PTL
=============================================================================
