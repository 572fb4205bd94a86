--------------------------- MODULE StaticFetcher ---------------------------
(***************************************************************************)
(* How the types of the game reach the program: the fetcher of             *)
(* staticdump/fetcher.go finds the last static dump on the CDN, downloads  *)
(* it, loads it into a types database of its own and hands that to the     *)
(* application, at start and then every six hours.                         *)
(*                                                                         *)
(* What survives a crash or a stop are the files of each dump: the zip,    *)
(* the bolt file (kept here as how many blocks of a thousand types it      *)
(* holds) and the directory of the search index.  Whether a file is there  *)
(* decides what a later run does.  A bolt file and an index that were      *)
(* opened for writing stay locked until they are closed or removed, or the *)
(* process ends.                                                           *)
(***************************************************************************)
EXTENDS Integers

CONSTANTS
  MaxVersion,  \* bound: dumps that are ever published
  Published,   \* dumps published at the beginning
  Blocks,      \* blocks of 1000 types in a dump
  Failures,    \* whether requests and writes may fail
  Stops,       \* whether the program is told to stop
  Crashes      \* whether the program may crash

ASSUME VersionAssumption == /\ MaxVersion \in Nat \ {0}
                            /\ Published \in 0 .. MaxVersion
ASSUME BlocksAssumption  == Blocks \in Nat \ {0}
ASSUME FlagsAssumption   == {Failures, Stops, Crashes} \subseteq BOOLEAN

VARIABLES
  published,  \* the CDN's last dump, 0 if it has none
  zip,        \* dump -> "none", "broken" or "whole"
  types,      \* dump -> the bolt file: Absent, Empty, or its blocks
  index,      \* dump -> "none", "broken" (a part of its two files) or "whole"
  locked,     \* dumps of which this process lost a handle that is open for writing
  cut,        \* history: dumps whose load or deletion was cut, with files left
  fetcher,    \* where the fetcher is: [pc, dump]
  started,    \* NewStaticFetcher has returned
  stop,       \* the channel stop is closed
  serving     \* dump that App.TypeDB was opened on, with its blocks then

files == <<zip, types, index, cut>>
own   == <<started, stop, serving, locked>>
vars  == <<published, files, fetcher, own>>

Versions == 1 .. MaxVersion
Absent   == -2   \* no file
Empty    == -1   \* a file without the pages of a database; with them it has 0 blocks or more
Nothing  == [dump |-> 0, blocks |-> Absent]

At(pc)       == fetcher.pc = pc
Goto(pc)     == fetcher' = [fetcher EXCEPT !.pc = pc]

TypeOK ==
  /\ published \in 0 .. MaxVersion
  /\ zip \in [Versions -> {"none", "broken", "whole"}]
  /\ types \in [Versions -> {Absent, Empty} \cup 0 .. Blocks]
  /\ index \in [Versions -> {"none", "broken", "whole"}]
  /\ locked \subseteq Versions /\ cut \subseteq Versions
  /\ fetcher \in [pc : {"find", "stat", "zip", "download", "read", "create", "buckets", "index",
                        "load", "stopped", "failed", "open", "select", "down"},
                  dump : 0 .. MaxVersion]
  /\ started \in BOOLEAN /\ stop \in BOOLEAN
  /\ serving \in [dump : 0 .. MaxVersion, blocks : {Absent} \cup 0 .. Blocks]

Init ==
  /\ published = Published
  /\ zip = [v \in Versions |-> "none"]
  /\ types = [v \in Versions |-> Absent]
  /\ index = [v \in Versions |-> "none"]
  /\ locked = {} /\ cut = {}
  /\ fetcher = [pc |-> "find", dump |-> 0]
  /\ started = FALSE /\ stop = FALSE
  /\ serving = Nothing

-----------------------------------------------------------------------------
\* The process is gone: files stay, all else starts anew.
Exit ==
  /\ fetcher' = [pc |-> "down", dump |-> 0]
  /\ started' = FALSE /\ stop' = FALSE
  /\ serving' = Nothing
  /\ locked' = {}

\* RunOnce returns an error: log.Fatal at start, a warning later.  A run that
\* goes on does so with the handles in lost, which nobody will close.
RunFails(lost) ==
  IF started THEN /\ fetcher' = [pc |-> "select", dump |-> 0]
                  /\ locked' = locked \cup lost
                  /\ UNCHANGED <<started, stop, serving>>
             ELSE Exit

(* FindLastStaticDumpURL asks for the dump of today, yesterday, and so on. *)
(* Without a dump it goes on asking: its count of 200 tries never moves,   *)
(* so no step gives up.                                                    *)
Find ==
  /\ At("find") /\ published > 0
  /\ fetcher' = [pc |-> "stat", dump |-> published]
  /\ UNCHANGED <<published, files, own>>

\* No dump of that day (404): the day before is next.
FindOlder ==
  /\ At("find") /\ published = 0
  /\ UNCHANGED vars

FindFails ==
  /\ At("find")
  /\ RunFails({})
  /\ UNCHANGED <<published, files>>

\* RunOnce: a bolt file that is there is taken for a loaded dump.
StatTypes ==
  /\ At("stat")
  /\ Goto(IF types[fetcher.dump] = Absent THEN "zip" ELSE "open")
  /\ UNCHANGED <<published, files, own>>

\* loadTypes: a zip that is there is taken for a downloaded dump.  Otherwise
\* downloadTypes creates the file before it sends the request.
StatZip ==
  /\ At("zip")
  /\ IF zip[fetcher.dump] = "none"
     THEN zip' = [zip EXCEPT ![fetcher.dump] = "broken"] /\ Goto("download")
     ELSE zip' = zip /\ Goto("read")
  /\ UNCHANGED <<published, types, index, cut, own>>

Download ==
  /\ At("download")
  /\ zip' = [zip EXCEPT ![fetcher.dump] = "whole"]
  /\ Goto("read")
  /\ UNCHANGED <<published, types, index, cut, own>>

\* The request or the copy fails; or the answer is an error page, which fills
\* the file like a dump, as the status is not looked at.
DownloadFails ==
  /\ At("download")
  /\ \/ RunFails({})
     \/ Goto("read") /\ UNCHANGED own
  /\ UNCHANGED <<published, files>>

\* loadtypes reads the zip.
ReadZip ==
  /\ At("read")
  /\ IF zip[fetcher.dump] = "whole" THEN Goto("create") /\ UNCHANGED own
                                    ELSE RunFails({})
  /\ UNCHANGED <<published, files>>

\* NewTypeDB for writing.  bolt.Open creates the file,
CreateTypes ==
  /\ At("create")
  /\ types' = [types EXCEPT ![fetcher.dump] = Empty]
  /\ Goto("buckets")
  /\ UNCHANGED <<published, zip, index, cut, own>>

\* writes the pages of an empty database to it, and Update adds the buckets.
CreateBuckets ==
  /\ At("buckets")
  /\ types' = [types EXCEPT ![fetcher.dump] = 0]
  /\ Goto("index")
  /\ UNCHANGED <<published, zip, index, cut, own>>

\* bolt.Open or Update returns an error; after Update's the file is a database,
\* and is not closed.
CreateTypesFails ==
  /\ At("create") \/ At("buckets")
  /\ \/ types' = types /\ RunFails({})
     \/ /\ At("buckets")
        /\ types' = [types EXCEPT ![fetcher.dump] = 0]
        /\ RunFails({fetcher.dump})
  /\ UNCHANGED <<published, zip, index, cut>>

\* bleve.Open waits, without a timeout, for the lock of an index that this
\* process deleted without success and never closed.
WaitsForIndex ==
  At("index") /\ index[fetcher.dump] = "whole" /\ fetcher.dump \in locked

\* bleve.New creates the index, bleve.Open opens one that a deletion has left;
\* of a broken one it returns an error, and the bolt file stays, and open.
CreateIndex ==
  /\ At("index") /\ ~WaitsForIndex
  /\ IF index[fetcher.dump] = "broken"
     THEN index' = index /\ RunFails({fetcher.dump})
     ELSE /\ index' = [index EXCEPT ![fetcher.dump] = "whole"]
          /\ Goto("load")
          /\ UNCHANGED own
  /\ UNCHANGED <<published, zip, types, cut>>

CreateIndexFails ==
  /\ At("index") /\ ~WaitsForIndex
  /\ \/ index' = index
     \/ index[fetcher.dump] = "none" /\ index' = [index EXCEPT ![fetcher.dump] = "broken"]
  /\ RunFails({fetcher.dump})
  /\ UNCHANGED <<published, zip, types, cut>>

\* Mutants: the loop runs one block too far; a finished load is taken for an
\* unfinished one; a stopped load is not undone.
LoadBlockTooFar ==
  /\ At("load") /\ types[fetcher.dump] <= Blocks
  /\ types' = [types EXCEPT ![fetcher.dump] = @ + 1] /\ fetcher' = fetcher
  /\ UNCHANGED <<published, zip, index, cut, own>>

LoadEndsUnfinished ==
  /\ At("load") /\ types[fetcher.dump] = Blocks
  /\ Goto("failed")
  /\ UNCHANGED <<published, files, own>>

RemoveTypesFailedOnly ==
  /\ At("stopped") \/ At("failed")
  /\ types[fetcher.dump] # Absent
  /\ IF At("stopped")
     THEN types' = types /\ Goto("open")
     ELSE types' = [types EXCEPT ![fetcher.dump] = Absent] /\ fetcher' = fetcher
  /\ UNCHANGED <<published, zip, index, cut, own>>

(* The loop over the types, a block at a time.  Stop is looked at before   *)
(* each block.  The deferred function closes a finished database and       *)
(* deletes any other.                                                      *)
LoadBlock ==
  /\ At("load") /\ types[fetcher.dump] < Blocks
  /\ IF stop THEN types' = types /\ Goto("stopped")
             ELSE types' = [types EXCEPT ![fetcher.dump] = @ + 1] /\ fetcher' = fetcher
  /\ UNCHANGED <<published, zip, index, cut, own>>

\* PutType fails.
LoadBlockFails ==
  /\ At("load") /\ types[fetcher.dump] < Blocks
  /\ Goto("failed")
  /\ UNCHANGED <<published, files, own>>

LoadEnds ==
  /\ At("load") /\ types[fetcher.dump] = Blocks
  /\ Goto("open")
  /\ cut' = cut \ {fetcher.dump}
  /\ UNCHANGED <<published, zip, types, index, own>>

\* What comes after TypeDB.Delete, and after its error, which is only logged:
\* loadTypes returns no error after a stop, and RunOnce goes on to open what it
\* just deleted.
DeleteReturns(lost) ==
  IF At("stopped") THEN /\ Goto("open")
                        /\ locked' = locked \cup lost
                        /\ UNCHANGED <<started, stop, serving>>
                   ELSE RunFails(lost)

\* TypeDB.Delete removes the bolt file,
RemoveTypes ==
  /\ At("stopped") \/ At("failed")
  /\ types[fetcher.dump] # Absent
  /\ types' = [types EXCEPT ![fetcher.dump] = Absent]
  /\ UNCHANGED <<published, zip, index, cut, fetcher, own>>

\* and then the index; neither was closed, but their locks go with them.
RemoveIndex ==
  /\ At("stopped") \/ At("failed")
  /\ types[fetcher.dump] = Absent
  /\ index' = [index EXCEPT ![fetcher.dump] = "none"]
  /\ cut' = cut \ {fetcher.dump}
  /\ DeleteReturns({})
  /\ UNCHANGED <<published, zip, types>>

\* Delete gives up at the bolt file; or at the index, of which a part may be gone.
RemoveTypesFails ==
  /\ At("stopped") \/ At("failed")
  /\ types[fetcher.dump] # Absent
  /\ cut' = cut \cup {fetcher.dump}
  /\ DeleteReturns({fetcher.dump})
  /\ UNCHANGED <<published, zip, types, index>>

RemoveIndexFails ==
  /\ At("stopped") \/ At("failed")
  /\ types[fetcher.dump] = Absent
  /\ \/ index' = index
     \/ index' = [index EXCEPT ![fetcher.dump] = "broken"]
  /\ cut' = cut \cup {fetcher.dump}
  /\ DeleteReturns({fetcher.dump})
  /\ UNCHANGED <<published, zip, types>>

(* NewTypeDB in read-only mode, and the callback.  bolt.Open creates a     *)
(* missing file before it fails to initialise it; an empty file fails the  *)
(* same way, and so does a missing or a broken index.  A lock that the     *)
(* process itself holds is waited for during a second, in vain.            *)
OpenTypes ==
  LET v == fetcher.dump IN
  /\ At("open")
  /\ types' = [types EXCEPT ![v] = IF @ = Absent THEN Empty ELSE @]
  /\ IF types[v] >= 0 /\ index[v] = "whole" /\ v \notin locked
     THEN /\ serving' = [dump |-> v, blocks |-> types[v]]
          /\ started' = TRUE
          /\ fetcher' = [pc |-> "select", dump |-> 0]
          /\ UNCHANGED <<stop, locked>>
     ELSE RunFails({})
  /\ UNCHANGED <<published, zip, index, cut>>

OpenTypesFails ==
  /\ At("open")
  /\ RunFails({})
  /\ UNCHANGED <<published, files>>

-----------------------------------------------------------------------------
\* Mutants: there is one run only; stop is not listened to.
SelectOnce ==
  /\ At("select") /\ stop
  /\ Exit
  /\ UNCHANGED <<published, files>>

SelectUnstopped ==
  /\ At("select")
  /\ fetcher' = [pc |-> "find", dump |-> 0]
  /\ UNCHANGED <<published, files, own>>

\* The select between two runs: six hours have passed, or stop is closed and
\* Close returns.  (A new timer has not run out when stop is found closed.)
Select ==
  /\ At("select")
  /\ \/ ~stop /\ fetcher' = [pc |-> "find", dump |-> 0] /\ UNCHANGED own
     \/ stop /\ Exit
  /\ UNCHANGED <<published, files>>

\* The application calls Close, once NewStaticFetcher has returned.
Close ==
  /\ Stops /\ started /\ ~stop
  /\ stop' = TRUE
  /\ UNCHANGED <<published, files, fetcher, started, serving, locked>>

\* The fetcher is at a dump with its database open for writing, since the index was
\* opened.
Writing(v) == fetcher.dump = v /\ fetcher.pc \in {"load", "stopped", "failed"}

\* Creating the index, or removing it, may have come half way.
Crash ==
  LET v == fetcher.dump IN
  /\ Crashes /\ ~At("down")
  /\ Exit
  /\ cut' = cut \cup {w \in Versions : Writing(w)}
  /\ \/ index' = index
     \/ /\ \/ At("index") /\ index[v] = "none"
           \/ Writing(v) /\ types[v] = Absent
        /\ index' = [index EXCEPT ![v] = "broken"]
  /\ UNCHANGED <<published, zip, types>>

Start ==
  /\ At("down")
  /\ fetcher' = [pc |-> "find", dump |-> 0]
  /\ UNCHANGED <<published, files, own>>

Publish ==
  /\ published < MaxVersion
  /\ published' = published + 1
  /\ UNCHANGED <<files, fetcher, own>>

Run ==
  \/ Find \/ FindOlder \/ StatTypes \/ StatZip \/ Download \/ ReadZip
  \/ CreateTypes \/ CreateBuckets \/ CreateIndex
  \/ LoadBlock \/ LoadEnds \/ RemoveTypes \/ RemoveIndex \/ OpenTypes \/ Select

Fail ==
  /\ Failures
  /\ \/ FindFails \/ DownloadFails \/ CreateTypesFails \/ CreateIndexFails \/ LoadBlockFails
     \/ RemoveTypesFails \/ RemoveIndexFails \/ OpenTypesFails

Next == Run \/ Fail \/ Close \/ Crash \/ Start \/ Publish

Spec == Init /\ [][Next]_vars

\* The fetcher's goroutine runs, a program that is down is started again, and
\* failures, stops and crashes come to an end.  Dumps need not be published.
FairSpec ==
  /\ Spec
  /\ WF_vars(Run) /\ WF_vars(Start)
  /\ <>[][~(Fail \/ Close \/ Crash)]_vars

-----------------------------------------------------------------------------
(* Properties *)

\* A database that holds a part of a dump's types and a whole index, which the
\* next start would serve, is there only of a dump whose load or deletion was
\* cut: by a crash, or by an error of the deletion.  Failures of a load, a stop
\* in the middle of it and the run that goes on after the stop leave none.  (A
\* part need not be what was cut: an index without its bolt file is what a cut
\* deletion leaves, and a later run that fails at that index leaves the part.)
Loading(v)  == fetcher.dump = v /\ fetcher.pc \in {"index", "load", "stopped", "failed"}
PartLeft(v) == types[v] \in 0 .. Blocks - 1 /\ index[v] = "whole" /\ ~Loading(v)

PartLeftOnlyIfCut == \A v \in Versions : PartLeft(v) => v \in cut

\* A types database that was loaded is never emptied or deleted again, by a
\* later run, a stop, a failure or a crash.
WholeStaysWhole ==
  [][\A v \in Versions : types[v] = Blocks => types'[v] = Blocks /\ index'[v] = "whole"]_vars

\* Close returns, although it waits for a run in progress; unless that run waits
\* for the lock of an index that the program lost when it could not delete it.
CloseReturns == stop ~> ~stop \/ WaitsForIndex

\* A dump that is published is served in the end, it or a later one, unless a
\* file of theirs was left that no later run repairs: a zip that is not whole, a
\* bolt file that cannot be opened, or one whose lock the program lost.
Spoiled(v) == /\ fetcher.dump # v
              /\ \/ types[v] = Absent /\ zip[v] = "broken"
                 \/ types[v] # Absent /\ (types[v] = Empty \/ index[v] # "whole" \/ v \in locked)

ServedUnlessSpoiled ==
  \A v \in Versions : published >= v ~> \/ serving.dump >= v
                                        \/ WaitsForIndex
                                        \/ \E w \in v .. MaxVersion : Spoiled(w)
=============================================================================
