----------------------------- MODULE TypeDBSwap -----------------------------
(***************************************************************************)
(* The type database under the requests that use it.  Every RunOnce of the *)
(* static fetcher, one in six hours, opens a type database, even when the  *)
(* dump is the one that is served already, and calls back evepraisal/      *)
(* app.go, which stores it in App.TypeDB, builds a parser around it, stores *)
(* that in App.Parser and closes the previous one: four steps, with no lock *)
(* that a request takes.                                                   *)
(*                                                                         *)
(* A request loads one of the two pointers and looks types up through what *)
(* it loaded (bolt/type_db.go): a bolt View yields a slice of the memory    *)
(* map, which GetType decodes after the View.  bolt's Close does not wait   *)
(* for a View and unmaps the file.                                          *)
(***************************************************************************)
EXTENDS Naturals, FiniteSets

CONSTANTS
  Handles,    \* bound: open type databases, used again once nobody has them
  NoDB,       \* nil
  Requests,   \* bound: requests in progress
  MaxFailed   \* bound: databases that were opened without their index

ASSUME NoDBAssumption == NoDB \notin Handles

VARIABLES
  app,      \* "starting", "serving", "stopping", "closed", "dead"
  typeDB,   \* App.TypeDB
  parser,   \* the database that App.Parser was built with
  open,     \* databases that are mapped
  failed,   \* those of them that NewTypeDB lost when it returned an error
  swap,     \* the static fetcher in RunOnce and the callback
  calls     \* what each request does

vars == <<app, typeDB, parser, open, failed, swap, calls>>

Idle == [pc |-> "idle"]

\* "load": between lookups that load App.TypeDB each time; "begin": has loaded
\* db; "tx": in the View; "slice": after it.  A request that keeps db for
\* more than one lookup is "parse" (the closure of App.Parser) or "search".
\* missed: a lookup did not find the type it looked for; swapped (history):
\* a database was closed since the request started.
CallStates ==
  {Idle} \cup [pc : {"load", "begin", "tx", "slice"}, phase : {"parse", "price", "search"},
               db : Handles, missed : BOOLEAN, swapped : BOOLEAN]

SwapStates ==
  {Idle} \cup [pc : {"run"}] \cup [pc : {"store"}, new : Handles]
         \cup [pc : {"parser", "close"}, new : Handles, old : Handles \cup {NoDB}]

TypeOK ==
  /\ app \in {"starting", "serving", "stopping", "closed", "dead"}
  /\ typeDB \in Handles \cup {NoDB}
  /\ parser \in Handles \cup {NoDB}
  /\ open \subseteq Handles
  /\ failed \subseteq open
  /\ swap \in SwapStates
  /\ calls \in [Requests -> CallStates]

Init ==
  /\ app = "starting"
  /\ typeDB = NoDB
  /\ parser = NoDB
  /\ open = {}
  /\ failed = {}
  /\ swap = Idle
  /\ calls = [r \in Requests |-> Idle]

Active   == {r \in Requests : calls[r] # Idle}
Free     == Handles \ (open \cup {typeDB, parser} \cup {calls[r].db : r \in Active})
Alive    == app # "dead"

-----------------------------------------------------------------------------
(* RunOnce and the callback *)

RunOnce ==
  /\ swap = Idle
  /\ app = "serving" \/ (app = "starting" /\ typeDB = NoDB)
  /\ swap' = [pc |-> "run"]
  /\ UNCHANGED <<app, typeDB, parser, open, failed, calls>>

OpenNew(h) ==
  /\ Alive /\ swap.pc = "run" /\ h \in Free
  /\ open' = open \cup {h}
  /\ swap' = [pc |-> "store", new |-> h]
  /\ UNCHANGED <<app, typeDB, parser, failed, calls>>

\* RunOnce returns an error, which at the start ends the program.  NewTypeDB
\* may have opened the bolt file before it failed on the index: nobody
\* closes the file.
RunFails ==
  /\ Alive /\ swap.pc = "run"
  /\ \/ UNCHANGED <<open, failed>>
     \/ /\ Cardinality(failed) < MaxFailed
        /\ \E h \in Free : open' = open \cup {h} /\ failed' = failed \cup {h}
  /\ app' = IF app = "starting" THEN "dead" ELSE app
  /\ swap' = Idle
  /\ UNCHANGED <<typeDB, parser, calls>>

\* Mutant: the old database is closed before the new parser is stored.
StoreTypeDBClosing ==
  /\ Alive /\ swap.pc = "store"
  /\ typeDB' = swap.new
  /\ open' = open \ {typeDB}
  /\ swap' = [pc |-> "parser", new |-> swap.new, old |-> NoDB]
  /\ UNCHANGED <<app, parser, failed, calls>>

StoreTypeDB ==
  /\ Alive /\ swap.pc = "store"
  /\ typeDB' = swap.new
  /\ swap' = [pc |-> "parser", new |-> swap.new, old |-> typeDB]
  /\ UNCHANGED <<app, parser, open, failed, calls>>

\* Mutant: the parser is built only once.
StoreParserOnce ==
  /\ Alive /\ swap.pc = "parser"
  /\ parser' = IF parser = NoDB THEN swap.new ELSE parser
  /\ swap' = [pc |-> "close", new |-> swap.new, old |-> swap.old]
  /\ UNCHANGED <<app, typeDB, open, failed, calls>>

StoreParser ==
  /\ Alive /\ swap.pc = "parser"
  /\ parser' = swap.new
  /\ swap' = [pc |-> "close", new |-> swap.new, old |-> swap.old]
  /\ UNCHANGED <<app, typeDB, open, failed, calls>>

\* The requests in progress, after a database was closed.
Swapped == [r \in Requests |->
              IF r \in Active THEN [calls[r] EXCEPT !.swapped = TRUE] ELSE Idle]

\* Mutant: the old database is never closed.
CloseOldNever ==
  /\ Alive /\ swap.pc = "close"
  /\ swap' = Idle
  /\ UNCHANGED <<app, typeDB, parser, open, failed, calls>>

\* oldTypeDB.Close(), unless there was none.
CloseOld ==
  /\ Alive /\ swap.pc = "close"
  /\ open' = open \ {swap.old}
  /\ calls' = IF swap.old = NoDB THEN calls ELSE Swapped
  /\ swap' = Idle
  /\ UNCHANGED <<app, typeDB, parser, failed>>

-----------------------------------------------------------------------------
(* Requests *)

\* Mutant: the servers start without waiting for the first type database.
ServeEarly ==
  /\ app = "starting"
  /\ app' = "serving"
  /\ UNCHANGED <<typeDB, parser, open, failed, swap, calls>>

\* The servers are started after NewStaticFetcher returned.
Serve ==
  /\ app = "starting" /\ swap = Idle /\ typeDB # NoDB
  /\ app' = "serving"
  /\ UNCHANGED <<typeDB, parser, open, failed, swap, calls>>

Call(phase, db) ==
  [pc |-> "begin", phase |-> phase, db |-> db, missed |-> FALSE, swapped |-> FALSE]

\* App.Parser(input), or App.TypeDB.Search and the fetchers that are made
\* with App.TypeDB: one load for all lookups.
Start(r) ==
  /\ app = "serving" /\ calls[r] = Idle
  /\ \/ calls' = [calls EXCEPT ![r] = Call("parse", parser)]
     \/ calls' = [calls EXCEPT ![r] = Call("search", typeDB)]
  /\ UNCHANGED <<app, typeDB, parser, open, failed, swap>>

\* app.TypeDB.GetType(...) while items are priced: one load for each.
Load(r) ==
  /\ Alive /\ calls[r].pc = "load"
  /\ calls' = [calls EXCEPT ![r].pc = "begin", ![r].db = typeDB]
  /\ UNCHANGED <<app, typeDB, parser, open, failed, swap>>

\* Where a lookup leaves the request.
After(r, missed) ==
  [calls EXCEPT ![r].pc = IF calls[r].phase = "price" THEN "load" ELSE "begin",
                ![r].missed = @ \/ missed]

\* bolt's Begin: ErrDatabaseNotOpen, which lookups report as an unknown type.
Begin(r) ==
  /\ Alive /\ calls[r].pc = "begin"
  /\ calls' = IF calls[r].db \in open THEN [calls EXCEPT ![r].pc = "tx"]
                                      ELSE After(r, TRUE)
  /\ UNCHANGED <<app, typeDB, parser, open, failed, swap>>

\* Memory that is no longer mapped is read: the program dies, or reads what
\* is mapped there by now and takes the type for an unknown one.
ReadUnmapped(r) ==
  \/ app' = "dead" /\ UNCHANGED calls
  \/ app' = app /\ calls' = After(r, TRUE)

\* The View itself; HasType is content with it.
Get(r) ==
  /\ Alive /\ calls[r].pc = "tx"
  /\ IF calls[r].db \in open
     THEN /\ app' = app
          /\ \/ calls' = [calls EXCEPT ![r].pc = "slice"]
             \/ calls' = After(r, FALSE)
     ELSE ReadUnmapped(r)
  /\ UNCHANGED <<typeDB, parser, open, failed, swap>>

\* snappy.Decode(nil, buf) in GetType and GetTypeByID, after the View.
Decode(r) ==
  /\ Alive /\ calls[r].pc = "slice"
  /\ IF calls[r].db \in open
     THEN app' = app /\ calls' = After(r, FALSE)
     ELSE ReadUnmapped(r)
  /\ UNCHANGED <<typeDB, parser, open, failed, swap>>

\* Parsing is done and the items are priced, or the request is answered.
Finish(r) ==
  /\ Alive /\ calls[r].pc \in {"load", "begin"}
  /\ calls' = [calls EXCEPT ![r] = IF calls[r].phase = "parse"
                                   THEN [@ EXCEPT !.pc = "load", !.phase = "price"]
                                   ELSE Idle]
  /\ UNCHANGED <<app, typeDB, parser, open, failed, swap>>

-----------------------------------------------------------------------------
(* The end: no more requests are accepted (those in progress go on, for the *)
(* context given to Shutdown has expired), the static fetcher is waited for *)
(* and the type database is closed.                                         *)

Stop ==
  /\ app = "serving"
  /\ app' = "stopping"
  /\ UNCHANGED <<typeDB, parser, open, failed, swap, calls>>

CloseLast ==
  /\ app = "stopping" /\ swap = Idle
  /\ open' = open \ {typeDB}
  /\ calls' = Swapped
  /\ app' = "closed"
  /\ UNCHANGED <<typeDB, parser, failed, swap>>

Exit ==
  /\ app = "closed"
  /\ app' = "dead"
  /\ UNCHANGED <<typeDB, parser, open, failed, swap, calls>>

Restart ==
  /\ app = "dead"
  /\ app' = "starting"
  /\ typeDB' = NoDB /\ parser' = NoDB
  /\ open' = {} /\ failed' = {}
  /\ swap' = Idle
  /\ calls' = [r \in Requests |-> Idle]

Lookup(r) == Load(r) \/ Begin(r) \/ Get(r) \/ Decode(r)

Next ==
  \/ RunOnce \/ RunFails \/ \E h \in Handles : OpenNew(h)
  \/ StoreTypeDB \/ StoreParser \/ CloseOld
  \/ Serve
  \/ \E r \in Requests : Start(r) \/ Lookup(r) \/ Finish(r)
  \/ Stop \/ CloseLast \/ Exit \/ Restart

Spec == Init /\ [][Next]_vars

-----------------------------------------------------------------------------
\* Whatever a request can load while the program serves is open at that
\* moment: the callback stores both pointers before it closes anything.
CurrentOpen == app \in {"serving", "stopping"} => {typeDB, parser} \subseteq open

\* After a swap both pointers lead to the same database and the previous one
\* is closed, so that swapping for years opens no more than two at a time.
SwapWhole ==
  /\ swap.pc \in {"idle", "run"} /\ app \in {"serving", "stopping"}
       => parser = typeDB /\ open = {typeDB} \cup failed
  /\ Cardinality(open \ failed) <= 2

\* A request in whose time no database was closed finds every type: items are
\* never lost because of which pointer was loaded, or when.
MissOnlyIfSwapped == \A r \in Active : calls[r].missed => calls[r].swapped
=============================================================================
