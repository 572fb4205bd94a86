------------------------- MODULE StaticFetcherProofs -------------------------
(***************************************************************************)
(* Theorems about StaticFetcher, for any number of dumps and of blocks,    *)
(* with or without failures, stops and crashes: which files a run can      *)
(* leave behind.                                                           *)
(***************************************************************************)
EXTENDS StaticFetcher, TLAPS

Places == {"find", "stat", "zip", "download", "read", "create", "buckets", "index", "load",
           "stopped", "failed", "open", "select", "down"}
AtDump == {"stat", "zip", "download", "read", "create", "buckets", "index", "load",
           "stopped", "failed", "open"}
Opened == {"load", "stopped", "failed"}   \* the places of Writing

Sizes   == {Absent, Empty} \cup 0 .. Blocks
Indices == {"none", "broken", "whole"}

\* What the bolt file and the index of the fetcher's dump are at each place: the bolt
\* file appears when the zip was read, the index before the first block.
FilesAt(pc, size, ind) ==
  /\ pc \in {"zip", "download", "read", "create"} => size = Absent
  /\ pc = "buckets" => size = Empty
  /\ pc = "index" => size = 0
  /\ pc = "load" => size >= 0 /\ ind = "whole"
  /\ pc \in {"stopped", "failed"} => size \in {Absent} \cup 0 .. Blocks - 1 /\ ind = "whole"

FilesOK == FilesAt(fetcher.pc, types[fetcher.dump], index[fetcher.dump])

\* At these places of a run the fetcher is at a dump.
DumpOK == fetcher.pc \in AtDump => fetcher.dump \in Versions

\* A whole database has its index; any other index that is whole is being written to,
\* or was left by what was cut.
LeftOK ==
  \A v \in Versions : /\ types[v] = Blocks => index[v] = "whole"
                      /\ index[v] = "whole" /\ types[v] # Blocks => v \in cut \/ Writing(v)

Inv == TypeOK /\ DumpOK /\ FilesOK /\ LeftOK

-----------------------------------------------------------------------------
(* The program's own state, and the files.                                   *)

FileTypesOK ==
  /\ published \in 0 .. MaxVersion
  /\ zip \in [Versions -> {"none", "broken", "whole"}]
  /\ types \in [Versions -> Sizes]
  /\ index \in [Versions -> Indices]
  /\ cut \subseteq Versions

\* What a step leaves of the program's own state is well typed.
OwnOK ==
  /\ fetcher' \in [pc : Places, dump : 0 .. MaxVersion]
  /\ started' \in BOOLEAN
  /\ stop' \in BOOLEAN
  /\ serving' \in [dump : 0 .. MaxVersion, blocks : {Absent} \cup 0 .. Blocks]
  /\ locked' \subseteq Versions

LEMMA TypeSplit == /\ TypeOK => FileTypesOK
                   /\ TypeOK => fetcher \in [pc : Places, dump : 0 .. MaxVersion]
                   /\ FileTypesOK' /\ OwnOK => TypeOK'
BY DEF TypeOK, FileTypesOK, OwnOK, Places, Sizes, Indices

LEMMA OwnSame ==
  ASSUME TypeOK, UNCHANGED <<started, stop, serving>>, locked' \subseteq Versions,
         fetcher' \in [pc : Places, dump : 0 .. MaxVersion]
  PROVE  OwnOK
<1>1. started' \in BOOLEAN
  BY DEF TypeOK
<1>2. stop' \in BOOLEAN
  BY DEF TypeOK
<1>3. serving' \in [dump : 0 .. MaxVersion, blocks : {Absent} \cup 0 .. Blocks]
  BY DEF TypeOK
<1> QED
  BY <1>1, <1>2, <1>3 DEF OwnOK

LEMMA ExitOK == Exit => OwnOK /\ fetcher' = [pc |-> "down", dump |-> 0]
<1> SUFFICES ASSUME Exit  PROVE OwnOK /\ fetcher' = [pc |-> "down", dump |-> 0]
  OBVIOUS
<1>1. 0 \in 0 .. MaxVersion
  BY VersionAssumption
<1>2. started' \in BOOLEAN
  BY DEF Exit
<1>3. stop' \in BOOLEAN
  BY DEF Exit
<1>4. locked' \subseteq Versions
  BY DEF Exit
<1> QED
  BY <1>1, <1>2, <1>3, <1>4 DEF Exit, OwnOK, Places, Nothing

LEMMA RunFailsOK ==
  ASSUME TypeOK, NEW lost \in SUBSET Versions, RunFails(lost)
  PROVE  OwnOK /\ fetcher'.pc \in {"select", "down"}
<1>1. CASE started
  <2>1. /\ fetcher' = [pc |-> "select", dump |-> 0] /\ locked' = locked \cup lost
        /\ UNCHANGED <<started, stop, serving>>
    BY <1>1 DEF RunFails
  <2>2. fetcher' \in [pc : Places, dump : 0 .. MaxVersion]
    BY <2>1, VersionAssumption DEF Places
  <2>3. locked' \subseteq Versions
    BY <2>1 DEF TypeOK
  <2> QED
    BY <2>1, <2>2, <2>3, OwnSame
<1>2. CASE ~started
  <2>1. Exit
    BY <1>2 DEF RunFails
  <2> QED
    BY <2>1, ExitOK
<1> QED
  BY <1>1, <1>2

LEMMA GotoOK ==
  ASSUME TypeOK, NEW place \in Places, Goto(place), UNCHANGED <<started, stop, serving>>,
         locked' \subseteq Versions
  PROVE  OwnOK /\ fetcher'.pc = place /\ fetcher'.dump = fetcher.dump
<1>1. fetcher \in [pc : Places, dump : 0 .. MaxVersion]
  BY TypeSplit
<1>2. fetcher' = [fetcher EXCEPT !.pc = place]
  BY DEF Goto
<1> QED
  BY <1>1, <1>2, OwnSame

LEMMA GotoSame ==
  ASSUME TypeOK, NEW place \in Places, Goto(place), UNCHANGED own
  PROVE  OwnOK /\ fetcher'.pc = place /\ fetcher'.dump = fetcher.dump
BY GotoOK DEF own, TypeOK

\* Files that are not written are written with what they hold.
LEMMA SameTypes ==
  ASSUME Inv, fetcher.dump \in Versions
  PROVE  /\ types[fetcher.dump] \in Sizes
         /\ UNCHANGED types => types' = [types EXCEPT ![fetcher.dump] = types[fetcher.dump]]
BY DEF Inv, TypeOK, Sizes

LEMMA SameIndex ==
  ASSUME Inv, fetcher.dump \in Versions
  PROVE  /\ index[fetcher.dump] \in Indices
         /\ UNCHANGED index => index' = [index EXCEPT ![fetcher.dump] = index[fetcher.dump]]
BY DEF Inv, TypeOK, Indices

\* A step of a run at a dump, to another place at it or to none: what it writes has to
\* be right for that place.
LEMMA StepAtDump ==
  ASSUME Inv, fetcher.dump \in Versions,
         NEW n \in Sizes, types' = [types EXCEPT ![fetcher.dump] = n],
         NEW x \in Indices, index' = [index EXCEPT ![fetcher.dump] = x],
         published' \in 0 .. MaxVersion,
         zip' \in [Versions -> {"none", "broken", "whole"}],
         cut' \subseteq Versions, cut \subseteq cut' \cup {fetcher.dump},
         OwnOK,
         fetcher'.pc \in AtDump => fetcher'.dump = fetcher.dump,
         FilesAt(fetcher'.pc, n, x),
         n = Blocks => x = "whole",
         x = "whole" /\ n # Blocks => fetcher.dump \in cut' \/ fetcher'.pc \in Opened
  PROVE  Inv'
<1>1. types' \in [Versions -> Sizes] /\ types'[fetcher.dump] = n
  BY DEF Inv, TypeOK, Sizes
<1>2. index' \in [Versions -> Indices] /\ index'[fetcher.dump] = x
  BY DEF Inv, TypeOK, Indices
<1>3. TypeOK'
  BY <1>1, <1>2, TypeSplit DEF FileTypesOK
<1>4. DumpOK'
  BY DEF DumpOK
<1>5. FilesOK'
  <2>1. CASE fetcher'.pc \in AtDump
    BY <1>1, <1>2, <2>1 DEF FilesOK
  <2>2. CASE fetcher'.pc \notin AtDump
    BY <2>2 DEF FilesOK, FilesAt, AtDump
  <2> QED
    BY <2>1, <2>2
<1>6. LeftOK'
  <2> SUFFICES ASSUME NEW v \in Versions
               PROVE  /\ types'[v] = Blocks => index'[v] = "whole"
                      /\ index'[v] = "whole" /\ types'[v] # Blocks
                           => v \in cut' \/ Writing(v)'
    BY DEF LeftOK
  <2>1. CASE v = fetcher.dump
    <3>1. fetcher'.pc \in Opened => Writing(v)'
      BY <2>1 DEF Opened, Writing, AtDump
    <3> QED
      BY <1>1, <1>2, <2>1, <3>1
  <2>2. CASE v # fetcher.dump
    <3>1. types'[v] = types[v] /\ index'[v] = index[v]
      BY <2>2 DEF Inv, TypeOK
    <3>2. ~Writing(v)
      BY <2>2 DEF Writing
    <3>3. v \in cut => v \in cut'
      BY <2>2
    <3> QED
      BY <3>1, <3>2, <3>3 DEF Inv, LeftOK
  <2> QED
    BY <2>1, <2>2
<1> QED
  BY <1>3, <1>4, <1>5, <1>6 DEF Inv

\* The same for a step that writes none of the files.
LEMMA StaysWritten ==
  ASSUME Inv, fetcher.dump \in Versions, UNCHANGED <<types, index, cut>>,
         published' \in 0 .. MaxVersion,
         zip' \in [Versions -> {"none", "broken", "whole"}],
         OwnOK,
         fetcher'.pc \in AtDump => fetcher'.dump = fetcher.dump,
         FilesAt(fetcher'.pc, types[fetcher.dump], index[fetcher.dump]),
         fetcher.pc \in Opened => fetcher'.pc \in Opened
  PROVE  Inv'
<1> DEFINE n == types[fetcher.dump]
           x == index[fetcher.dump]
<1>1. /\ n \in Sizes /\ types' = [types EXCEPT ![fetcher.dump] = n]
      /\ x \in Indices /\ index' = [index EXCEPT ![fetcher.dump] = x]
  BY SameTypes, SameIndex
<1>2. cut' \subseteq Versions /\ cut \subseteq cut' \cup {fetcher.dump}
  BY DEF Inv, TypeOK
<1>3. n = Blocks => x = "whole"
  BY DEF Inv, LeftOK
<1>4. x = "whole" /\ n # Blocks => fetcher.dump \in cut' \/ fetcher'.pc \in Opened
  BY DEF Inv, LeftOK, Writing, Opened
<1>5. FilesAt(fetcher'.pc, n, x)
  OBVIOUS
<1> HIDE DEF n, x
<1> QED
  BY <1>1, <1>2, <1>3, <1>4, <1>5, StepAtDump

\* A run that fails without a write, at a place before the index.
LEMMA FailsUnwritten ==
  ASSUME Inv, UNCHANGED <<published, files>>, fetcher.pc \in AtDump \ Opened,
         NEW lost \in SUBSET Versions, RunFails(lost)
  PROVE  Inv'
<1>1. OwnOK /\ fetcher'.pc \in {"select", "down"}
  BY RunFailsOK DEF Inv
<1>2. FilesAt(fetcher'.pc, types[fetcher.dump], index[fetcher.dump]) /\ fetcher'.pc \notin AtDump
  BY <1>1 DEF FilesAt, AtDump
<1>3. /\ published' \in 0 .. MaxVersion
      /\ zip' \in [Versions -> {"none", "broken", "whole"}]
  BY DEF Inv, TypeOK, files
<1> QED
  BY <1>1, <1>2, <1>3, StaysWritten DEF Inv, DumpOK, files

\* A step from no dump to no dump, or to the first place at one.
LEMMA StepAtNoDump ==
  ASSUME Inv, UNCHANGED files, published' \in 0 .. MaxVersion, OwnOK,
         fetcher.pc \notin AtDump,
         \/ fetcher'.pc \in {"find", "select", "down"}
         \/ fetcher'.pc = "stat" /\ fetcher'.dump \in Versions
  PROVE  Inv'
<1>1. TypeOK'
  BY TypeSplit DEF Inv, TypeOK, FileTypesOK, files, Sizes, Indices
<1>2. DumpOK' /\ FilesOK'
  BY DEF DumpOK, FilesOK, FilesAt, AtDump
<1>3. LeftOK'
  <2> SUFFICES ASSUME NEW v \in Versions
               PROVE  /\ types'[v] = Blocks => index'[v] = "whole"
                      /\ index'[v] = "whole" /\ types'[v] # Blocks
                           => v \in cut' \/ Writing(v)'
    BY DEF LeftOK
  <2>1. types' = types /\ index' = index /\ cut' = cut
    BY DEF files
  <2>2. ~Writing(v)
    BY DEF Writing, AtDump
  <2> QED
    BY <2>1, <2>2 DEF Inv, LeftOK
<1> QED
  BY <1>1, <1>2, <1>3 DEF Inv

-----------------------------------------------------------------------------
(* The invariant.                                                            *)

LEMMA InitInv == Init => Inv
<1> SUFFICES ASSUME Init  PROVE Inv
  OBVIOUS
<1>1. started \in BOOLEAN
  BY DEF Init
<1>2. stop \in BOOLEAN
  BY DEF Init
<1>3. published \in 0 .. MaxVersion /\ 0 \in 0 .. MaxVersion
  BY VersionAssumption DEF Init
<1>4. TypeOK
  BY <1>1, <1>2, <1>3 DEF Init, TypeOK, Nothing
<1>5. LeftOK
  BY BlocksAssumption DEF Init, LeftOK, Absent
<1>6. DumpOK /\ FilesOK
  BY DEF Init, DumpOK, FilesOK, FilesAt, AtDump
<1> QED
  BY <1>4, <1>5, <1>6 DEF Inv

LEMMA FindInv == Inv /\ (Find \/ FindFails) => Inv'
<1> SUFFICES ASSUME Inv, Find \/ FindFails  PROVE Inv'
  OBVIOUS
<1>1. /\ UNCHANGED <<published, files>> /\ fetcher.pc \notin AtDump
      /\ published' \in 0 .. MaxVersion
  BY DEF Find, FindFails, At, AtDump, Inv, TypeOK
<1>2. CASE Find
  <2>1. fetcher' = [pc |-> "stat", dump |-> published] /\ published \in Versions
    BY <1>2 DEF Find, Inv, TypeOK, Versions
  <2>2. UNCHANGED <<started, stop, serving>> /\ locked' \subseteq Versions
    BY <1>2 DEF Find, own, Inv, TypeOK
  <2>3. fetcher' \in [pc : Places, dump : 0 .. MaxVersion]
    BY <2>1, VersionAssumption DEF Places, Versions
  <2>4. OwnOK
    BY <2>2, <2>3, OwnSame DEF Inv
  <2> QED
    BY <1>1, <2>1, <2>4, StepAtNoDump
<1>3. CASE FindFails
  <2>1. OwnOK /\ fetcher'.pc \in {"select", "down"}
    BY <1>3, RunFailsOK DEF FindFails, Inv
  <2> QED
    BY <1>1, <2>1, StepAtNoDump
<1> QED
  BY <1>2, <1>3

LEMMA StatInv == Inv /\ (StatTypes \/ StatZip) => Inv'
<1> SUFFICES ASSUME Inv, StatTypes \/ StatZip  PROVE Inv'
  OBVIOUS
<1>1. fetcher.dump \in Versions /\ fetcher.pc \notin Opened
  BY DEF StatTypes, StatZip, At, Inv, DumpOK, AtDump, Opened
<1>2. UNCHANGED <<types, index, cut>> /\ published' \in 0 .. MaxVersion
  BY DEF StatTypes, StatZip, files, Inv, TypeOK
<1>3. zip' \in [Versions -> {"none", "broken", "whole"}]
  BY <1>1 DEF StatTypes, StatZip, files, Inv, TypeOK
<1>4. PICK place \in {"zip", "open", "download", "read"} :
        /\ Goto(place)
        /\ place # "open" => types[fetcher.dump] = Absent
  BY DEF StatTypes, StatZip, At, Inv, FilesOK, FilesAt
<1>5. OwnOK /\ fetcher'.pc = place /\ fetcher'.dump = fetcher.dump
  BY <1>4, GotoSame DEF StatTypes, StatZip, Places, Inv
<1>6. FilesAt(place, types[fetcher.dump], index[fetcher.dump])
  BY <1>4 DEF FilesAt
<1> QED
  BY <1>1, <1>2, <1>3, <1>5, <1>6, StaysWritten

LEMMA DownloadInv == Inv /\ (Download \/ DownloadFails \/ ReadZip) => Inv'
<1> SUFFICES ASSUME Inv, Download \/ DownloadFails \/ ReadZip  PROVE Inv'
  OBVIOUS
<1>1. /\ fetcher.dump \in Versions /\ fetcher.pc \in AtDump \ Opened
      /\ types[fetcher.dump] = Absent
  BY DEF Download, DownloadFails, ReadZip, At, Inv, DumpOK, FilesOK, FilesAt, AtDump, Opened
<1>2. CASE UNCHANGED <<published, files>> /\ RunFails({})
  BY <1>1, <1>2, FailsUnwritten
<1>3. CASE /\ Goto("read") \/ Goto("create")
           /\ UNCHANGED <<published, types, index, cut, own>>
           /\ zip' \in [Versions -> {"none", "broken", "whole"}]
  <2>1. PICK place \in {"read", "create"} : Goto(place)
    BY <1>3
  <2>2. OwnOK /\ fetcher'.pc = place /\ fetcher'.dump = fetcher.dump
    BY <1>3, <2>1, GotoSame DEF Places, Inv
  <2>3. FilesAt(place, types[fetcher.dump], index[fetcher.dump])
    BY <1>1 DEF FilesAt
  <2>4. UNCHANGED <<types, index, cut>> /\ published' \in 0 .. MaxVersion
    BY <1>3 DEF Inv, TypeOK
  <2> QED
    BY <1>1, <1>3, <2>2, <2>3, <2>4, StaysWritten
<1>4. zip' \in [Versions -> {"none", "broken", "whole"}]
  BY <1>1 DEF Download, DownloadFails, ReadZip, files, Inv, TypeOK
<1> QED
  BY <1>2, <1>3, <1>4 DEF Download, DownloadFails, ReadZip, files

\* Before the index: it is none, broken, or was left.
LEMMA LeftAt ==
  ASSUME Inv, fetcher.dump \in Versions, fetcher.pc \notin Opened,
         types[fetcher.dump] # Blocks, index[fetcher.dump] = "whole"
  PROVE  fetcher.dump \in cut
BY DEF Inv, LeftOK, Writing, Opened

LEMMA CreateTypesInv == Inv /\ (CreateTypes \/ CreateBuckets \/ CreateTypesFails) => Inv'
<1> SUFFICES ASSUME Inv, CreateTypes \/ CreateBuckets \/ CreateTypesFails  PROVE Inv'
  OBVIOUS
<1>1. /\ fetcher.dump \in Versions /\ fetcher.pc \in AtDump \ Opened
      /\ types[fetcher.dump] \in {Absent, Empty}
  BY DEF CreateTypes, CreateBuckets, CreateTypesFails, At, Inv, DumpOK, FilesOK, FilesAt, AtDump,
         Opened
<1>2. Empty # Blocks /\ 0 # Blocks /\ Absent # Blocks /\ Empty \in Sizes /\ 0 \in Sizes
  BY BlocksAssumption DEF Empty, Absent, Sizes
<1>3. UNCHANGED <<zip, index, cut>> /\ published' \in 0 .. MaxVersion
  BY DEF CreateTypes, CreateBuckets, CreateTypesFails, Inv, TypeOK
<1>4. /\ zip' \in [Versions -> {"none", "broken", "whole"}]
      /\ cut' \subseteq Versions /\ cut \subseteq cut' \cup {fetcher.dump}
  BY <1>3 DEF Inv, TypeOK
<1> DEFINE x == index[fetcher.dump]
<1>5. /\ x \in Indices /\ index' = [index EXCEPT ![fetcher.dump] = x]
      /\ x = "whole" => fetcher.dump \in cut'
  BY <1>1, <1>2, <1>3, SameIndex, LeftAt
<1>6. CASE types' = types /\ RunFails({})
  BY <1>1, <1>3, <1>6, FailsUnwritten DEF CreateTypes, CreateBuckets, CreateTypesFails, files
<1>7. ASSUME NEW n \in {Empty, 0}, types' = [types EXCEPT ![fetcher.dump] = n],
             OwnOK, fetcher'.pc \in AtDump => fetcher'.dump = fetcher.dump,
             FilesAt(fetcher'.pc, n, x)
      PROVE  Inv'
  <2>1. n \in Sizes /\ n # Blocks
    BY <1>2
  <2> HIDE DEF x
  <2> QED
    BY <1>1, <1>3, <1>4, <1>5, <1>7, <2>1, StepAtDump
<1>8. CASE CreateTypes
  <2>1. OwnOK /\ fetcher'.pc = "buckets" /\ fetcher'.dump = fetcher.dump
    BY <1>8, GotoSame DEF CreateTypes, Places, Inv
  <2>2. FilesAt("buckets", Empty, x)
    BY DEF FilesAt
  <2>3. types' = [types EXCEPT ![fetcher.dump] = Empty]
    BY <1>8 DEF CreateTypes
  <2> QED
    BY <1>7, <2>1, <2>2, <2>3
<1>9. CASE CreateBuckets
  <2>1. OwnOK /\ fetcher'.pc = "index" /\ fetcher'.dump = fetcher.dump
    BY <1>9, GotoSame DEF CreateBuckets, Places, Inv
  <2>2. FilesAt("index", 0, x)
    BY DEF FilesAt
  <2>3. types' = [types EXCEPT ![fetcher.dump] = 0]
    BY <1>9 DEF CreateBuckets
  <2> QED
    BY <1>7, <2>1, <2>2, <2>3
<1>10. CASE CreateTypesFails /\ ~(types' = types /\ RunFails({}))
  <2>1. types' = [types EXCEPT ![fetcher.dump] = 0] /\ RunFails({fetcher.dump})
    BY <1>10 DEF CreateTypesFails
  <2>2. OwnOK /\ fetcher'.pc \in {"select", "down"}
    BY <1>1, <2>1, RunFailsOK DEF Inv
  <2>3. FilesAt(fetcher'.pc, 0, x) /\ fetcher'.pc \notin AtDump
    BY <2>2 DEF FilesAt, AtDump
  <2> QED
    BY <1>7, <2>1, <2>2, <2>3
<1> QED
  BY <1>6, <1>8, <1>9, <1>10

LEMMA CreateIndexInv == Inv /\ (CreateIndex \/ CreateIndexFails) => Inv'
<1> SUFFICES ASSUME Inv, CreateIndex \/ CreateIndexFails  PROVE Inv'
  OBVIOUS
<1>1. /\ fetcher.dump \in Versions /\ fetcher.pc \in AtDump \ Opened
      /\ types[fetcher.dump] = 0 /\ 0 # Blocks /\ 0 \in Sizes
  BY BlocksAssumption DEF CreateIndex, CreateIndexFails, At, Inv, DumpOK, FilesOK, FilesAt, AtDump,
     Opened, Sizes
<1>2. UNCHANGED <<zip, types, cut>> /\ published' \in 0 .. MaxVersion
  BY DEF CreateIndex, CreateIndexFails, Inv, TypeOK
<1>3. /\ zip' \in [Versions -> {"none", "broken", "whole"}]
      /\ cut' \subseteq Versions /\ cut \subseteq cut' \cup {fetcher.dump}
  BY <1>2 DEF Inv, TypeOK
<1>4. types' = [types EXCEPT ![fetcher.dump] = 0]
  BY <1>1, <1>2, SameTypes
<1>5. CASE index' = index /\ RunFails({fetcher.dump})
  BY <1>1, <1>2, <1>5, FailsUnwritten DEF CreateIndex, CreateIndexFails, files
<1>6. CASE index' = [index EXCEPT ![fetcher.dump] = "broken"] /\ RunFails({fetcher.dump})
  <2>1. OwnOK /\ fetcher'.pc \in {"select", "down"}
    BY <1>1, <1>6, RunFailsOK DEF Inv
  <2>2. FilesAt(fetcher'.pc, 0, "broken") /\ fetcher'.pc \notin AtDump
    BY <2>1 DEF FilesAt, AtDump
  <2>3. "broken" \in Indices
    BY DEF Indices
  <2> QED
    BY <1>1, <1>2, <1>3, <1>4, <1>6, <2>1, <2>2, <2>3, StepAtDump
<1>7. CASE index' = [index EXCEPT ![fetcher.dump] = "whole"] /\ Goto("load") /\ UNCHANGED own
  <2>1. OwnOK /\ fetcher'.pc = "load" /\ fetcher'.dump = fetcher.dump
    BY <1>7, GotoSame DEF Places, Inv
  <2>2. FilesAt("load", 0, "whole")
    BY DEF FilesAt
  <2>3. "whole" \in Indices /\ "load" \in Opened
    BY DEF Indices, Opened
  <2> QED
    BY <1>1, <1>2, <1>3, <1>4, <1>7, <2>1, <2>2, <2>3, StepAtDump
<1> QED
  BY <1>5, <1>6, <1>7 DEF CreateIndex, CreateIndexFails

LEMMA LoadInv == Inv /\ (LoadBlock \/ LoadBlockFails \/ LoadEnds) => Inv'
<1> SUFFICES ASSUME Inv, LoadBlock \/ LoadBlockFails \/ LoadEnds  PROVE Inv'
  OBVIOUS
<1> DEFINE n == types[fetcher.dump]
<1>1. fetcher.dump \in Versions /\ fetcher.pc = "load" /\ n \in Sizes /\ n >= 0
  BY DEF LoadBlock, LoadBlockFails, LoadEnds, At, Inv, TypeOK, DumpOK, FilesOK, FilesAt, AtDump,
         Sizes
<1>2. n \in 0 .. Blocks
  BY <1>1, BlocksAssumption DEF Absent, Empty, Sizes
<1>3. index[fetcher.dump] = "whole"
  BY <1>1 DEF Inv, FilesOK, FilesAt
<1>4. UNCHANGED <<zip, index, own>> /\ published' \in 0 .. MaxVersion
  BY DEF LoadBlock, LoadBlockFails, LoadEnds, files, Inv, TypeOK
<1>5. index' = [index EXCEPT ![fetcher.dump] = "whole"] /\ "whole" \in Indices
  BY <1>1, <1>3, <1>4, SameIndex
<1>6. zip' \in [Versions -> {"none", "broken", "whole"}]
  BY <1>4 DEF Inv, TypeOK
<1>7. CASE LoadEnds
  <2>1. OwnOK /\ fetcher'.pc = "open" /\ fetcher'.dump = fetcher.dump
    BY <1>4, <1>7, GotoSame DEF LoadEnds, Places, Inv
  <2>2. FilesAt("open", n, "whole")
    BY DEF FilesAt
  <2>3. types' = [types EXCEPT ![fetcher.dump] = n] /\ n = Blocks
    BY <1>1, <1>7, SameTypes DEF LoadEnds
  <2>4. cut' \subseteq Versions /\ cut \subseteq cut' \cup {fetcher.dump}
    BY <1>7 DEF LoadEnds, Inv, TypeOK
  <2> HIDE DEF n
  <2> QED
    BY <1>1, <1>4, <1>5, <1>6, <2>1, <2>2, <2>3, <2>4, StepAtDump
<1>8. CASE LoadBlock \/ LoadBlockFails
  <2>1. n < Blocks /\ cut' = cut
    BY <1>8 DEF LoadBlock, LoadBlockFails, files
  <2>2. cut' \subseteq Versions /\ cut \subseteq cut' \cup {fetcher.dump}
    BY <2>1 DEF Inv, TypeOK
  <2>3. CASE types' = types /\ (Goto("stopped") \/ Goto("failed"))
    <3>1. PICK place \in {"stopped", "failed"} : Goto(place)
      BY <2>3
    <3>2. OwnOK /\ fetcher'.pc = place /\ fetcher'.dump = fetcher.dump
      BY <1>4, <3>1, GotoSame DEF Places, Inv
    <3>3. n \in 0 .. Blocks - 1
      BY <1>2, <2>1, BlocksAssumption
    <3>4. FilesAt(place, n, "whole") /\ place \in Opened
      BY <3>3 DEF FilesAt, Opened
    <3>5. types' = [types EXCEPT ![fetcher.dump] = n]
      BY <1>1, <2>3, SameTypes
    <3> HIDE DEF n
    <3> QED
      BY <1>1, <1>4, <1>5, <1>6, <2>2, <3>2, <3>4, <3>5, StepAtDump
  <2>4. CASE LoadBlock /\ ~stop
    <3> DEFINE m == n + 1
    <3>1. types' = [types EXCEPT ![fetcher.dump] = m]
      BY <1>1, <2>4 DEF LoadBlock, Inv, TypeOK
    <3>2. m \in Sizes /\ m >= 0
      BY <1>2, <2>1, BlocksAssumption DEF Sizes
    <3>3. FilesAt("load", m, "whole") /\ "load" \in Opened
      BY <3>2 DEF FilesAt, Opened
    <3>4. fetcher' = fetcher
      BY <2>4 DEF LoadBlock
    <3>5. OwnOK /\ fetcher'.pc = "load" /\ fetcher'.dump = fetcher.dump
      <4>1. Goto("load")
        BY <1>1, <3>4 DEF Goto, Inv, TypeOK
      <4> QED
        BY <1>4, <4>1, GotoSame DEF Places, Inv
    <3> HIDE DEF m, n
    <3> QED
      BY <1>1, <1>4, <1>5, <1>6, <2>2, <3>1, <3>2, <3>3, <3>5, StepAtDump
  <2> QED
    BY <1>8, <2>3, <2>4 DEF LoadBlock, LoadBlockFails, files
<1> QED
  BY <1>7, <1>8

LEMMA DeleteReturnsOK ==
  ASSUME Inv, At("stopped") \/ At("failed"), NEW lost \in SUBSET Versions, DeleteReturns(lost)
  PROVE  /\ OwnOK
         /\ fetcher'.pc \in {"open", "select", "down"}
         /\ fetcher'.pc \in AtDump => fetcher'.dump = fetcher.dump
<1>1. CASE At("stopped")
  <2>1. /\ Goto("open") /\ UNCHANGED <<started, stop, serving>>
        /\ locked' \subseteq Versions
    BY <1>1 DEF DeleteReturns, Inv, TypeOK
  <2> QED
    BY <2>1, GotoOK DEF Places, Inv
<1>2. CASE ~At("stopped")
  BY <1>2, RunFailsOK DEF DeleteReturns, Inv, AtDump
<1> QED
  BY <1>1, <1>2

LEMMA RemoveInv ==
  Inv /\ (RemoveTypes \/ RemoveIndex \/ RemoveTypesFails \/ RemoveIndexFails) => Inv'
<1> SUFFICES ASSUME Inv, RemoveTypes \/ RemoveIndex \/ RemoveTypesFails \/ RemoveIndexFails
             PROVE  Inv'
  OBVIOUS
<1> DEFINE n == types[fetcher.dump]
<1>1. /\ fetcher.dump \in Versions /\ fetcher.pc \in {"stopped", "failed"}
      /\ At("stopped") \/ At("failed")
      /\ n \in {Absent} \cup 0 .. Blocks - 1 /\ index[fetcher.dump] = "whole"
  BY DEF RemoveTypes, RemoveIndex, RemoveTypesFails, RemoveIndexFails, At, Inv, DumpOK, FilesOK,
         FilesAt, AtDump
<1>2. n \in Sizes /\ n # Blocks /\ Absent \in Sizes /\ Absent # Blocks
  BY <1>1, BlocksAssumption DEF Sizes, Absent
<1>3. /\ published' \in 0 .. MaxVersion
      /\ zip' \in [Versions -> {"none", "broken", "whole"}]
  BY DEF RemoveTypes, RemoveIndex, RemoveTypesFails, RemoveIndexFails, Inv, TypeOK
<1>4. cut' \subseteq Versions /\ cut \subseteq cut' \cup {fetcher.dump}
  BY <1>1 DEF RemoveTypes, RemoveIndex, RemoveTypesFails, RemoveIndexFails, Inv, TypeOK
<1>5. CASE RemoveTypes
  <2>1. /\ types' = [types EXCEPT ![fetcher.dump] = Absent]
        /\ UNCHANGED <<index, fetcher, own>>
    BY <1>5 DEF RemoveTypes
  <2>2. index' = [index EXCEPT ![fetcher.dump] = "whole"] /\ "whole" \in Indices
    BY <1>1, <2>1, SameIndex
  <2>3. OwnOK
    BY <2>1, OwnSame, TypeSplit DEF own, Inv, TypeOK
  <2>4. FilesAt(fetcher'.pc, Absent, "whole") /\ fetcher'.pc \in Opened
        /\ fetcher'.dump = fetcher.dump
    BY <1>1, <2>1 DEF FilesAt, Opened
  <2> QED
    BY <1>1, <1>2, <1>3, <1>4, <2>1, <2>2, <2>3, <2>4, StepAtDump
<1>6. CASE RemoveIndex \/ RemoveTypesFails \/ RemoveIndexFails
  <2>1. PICK lost \in {{}, {fetcher.dump}} : DeleteReturns(lost)
    BY <1>6 DEF RemoveIndex, RemoveTypesFails, RemoveIndexFails
  <2>2. /\ OwnOK
        /\ fetcher'.pc \in {"open", "select", "down"}
        /\ fetcher'.pc \in AtDump => fetcher'.dump = fetcher.dump
    BY <1>1, <2>1, DeleteReturnsOK
  <2>3. PICK x \in Indices : /\ index' = [index EXCEPT ![fetcher.dump] = x]
                             /\ x = "whole" => fetcher.dump \in cut'
    <3>1. CASE RemoveIndex
      BY <3>1 DEF RemoveIndex, Indices
    <3>2. CASE RemoveTypesFails \/ RemoveIndexFails
      <4>1. fetcher.dump \in cut'
        BY <3>2 DEF RemoveTypesFails, RemoveIndexFails
      <4> QED
        BY <1>1, <3>2, <4>1, SameIndex DEF RemoveTypesFails, RemoveIndexFails, Indices
    <3> QED
      BY <1>6, <3>1, <3>2
  <2>4. types' = [types EXCEPT ![fetcher.dump] = n]
    BY <1>1, <1>6, SameTypes DEF RemoveIndex, RemoveTypesFails, RemoveIndexFails
  <2>5. FilesAt(fetcher'.pc, n, x)
    BY <2>2 DEF FilesAt
  <2> HIDE DEF n
  <2> QED
    BY <1>1, <1>2, <1>3, <1>4, <2>2, <2>3, <2>4, <2>5, StepAtDump
<1> QED
  BY <1>5, <1>6

LEMMA OpenTypesInv == Inv /\ (OpenTypes \/ OpenTypesFails) => Inv'
<1> SUFFICES ASSUME Inv, OpenTypes \/ OpenTypesFails  PROVE Inv'
  OBVIOUS
<1>1. fetcher.dump \in Versions /\ fetcher.pc \in AtDump \ Opened
  BY DEF OpenTypes, OpenTypesFails, At, Inv, DumpOK, AtDump, Opened
<1>2. CASE OpenTypesFails
  BY <1>1, <1>2, FailsUnwritten DEF OpenTypesFails
<1>3. CASE OpenTypes
  <2> DEFINE old == types[fetcher.dump]
             new == IF old = Absent THEN Empty ELSE old
             x   == index[fetcher.dump]
  <2>1. old \in Sizes /\ types' = [types EXCEPT ![fetcher.dump] = new]
    BY <1>1, <1>3 DEF OpenTypes, Inv, TypeOK, Sizes
  <2>2. new \in Sizes /\ (new = Blocks <=> old = Blocks)
    BY <2>1, BlocksAssumption DEF Sizes, Empty, Absent
  <2>3. UNCHANGED <<published, zip, index, cut>>
    BY <1>3 DEF OpenTypes
  <2>4. /\ x \in Indices /\ index' = [index EXCEPT ![fetcher.dump] = x]
        /\ new = Blocks => x = "whole"
        /\ x = "whole" /\ new # Blocks => fetcher.dump \in cut'
    BY <1>1, <2>2, <2>3, SameIndex, LeftAt DEF Inv, LeftOK
  <2>5. OwnOK /\ fetcher'.pc \in {"select", "down"}
    <3>1. CASE old >= 0 /\ index[fetcher.dump] = "whole" /\ fetcher.dump \notin locked
      <4>1. serving' = [dump |-> fetcher.dump, blocks |-> old]
        BY <1>3, <3>1 DEF OpenTypes
      <4>2. fetcher' = [pc |-> "select", dump |-> 0]
        BY <1>3, <3>1 DEF OpenTypes
      <4>3. started' \in BOOLEAN
        BY <1>3, <3>1 DEF OpenTypes
      <4>4. stop' \in BOOLEAN
        BY <1>3, <3>1 DEF OpenTypes, Inv, TypeOK
      <4>5. locked' \subseteq Versions
        BY <1>3, <3>1 DEF OpenTypes, Inv, TypeOK
      <4>6. old \in {Absent} \cup 0 .. Blocks
        BY <2>1, <3>1 DEF Empty, Sizes
      <4>7. fetcher' \in [pc : Places, dump : 0 .. MaxVersion]
        BY <4>2, VersionAssumption DEF Places
      <4>8. serving' \in [dump : 0 .. MaxVersion, blocks : {Absent} \cup 0 .. Blocks]
        BY <1>1, <4>1, <4>6, VersionAssumption DEF Versions
      <4> QED
        BY <4>2, <4>3, <4>4, <4>5, <4>7, <4>8 DEF OwnOK
    <3>2. CASE ~(old >= 0 /\ index[fetcher.dump] = "whole" /\ fetcher.dump \notin locked)
      <4>1. RunFails({})
        BY <1>3, <3>2 DEF OpenTypes
      <4> QED
        BY <4>1, RunFailsOK DEF Inv
    <3> QED
      BY <3>1, <3>2
  <2>6. FilesAt(fetcher'.pc, new, x) /\ fetcher'.pc \notin AtDump
    BY <2>5 DEF FilesAt, AtDump
  <2>7. /\ published' \in 0 .. MaxVersion
        /\ zip' \in [Versions -> {"none", "broken", "whole"}]
        /\ cut' \subseteq Versions /\ cut \subseteq cut' \cup {fetcher.dump}
    BY <2>3 DEF Inv, TypeOK
  <2> HIDE DEF old, new, x
  <2> QED
    BY <1>1, <2>1, <2>2, <2>4, <2>5, <2>6, <2>7, StepAtDump
<1> QED
  BY <1>2, <1>3

LEMMA SelectInv == Inv /\ (Select \/ Start) => Inv'
<1> SUFFICES ASSUME Inv, Select \/ Start  PROVE Inv'
  OBVIOUS
<1>1. /\ UNCHANGED <<published, files>> /\ fetcher.pc \notin AtDump
      /\ published' \in 0 .. MaxVersion
  BY DEF Select, Start, At, AtDump, Inv, TypeOK
<1>2. CASE fetcher' = [pc |-> "find", dump |-> 0] /\ UNCHANGED own
  <2>1. fetcher' \in [pc : Places, dump : 0 .. MaxVersion]
    BY <1>2, VersionAssumption DEF Places
  <2>2. OwnOK
    BY <1>2, <2>1, OwnSame DEF own, Inv, TypeOK
  <2> QED
    BY <1>1, <1>2, <2>2, StepAtNoDump
<1>3. CASE Exit
  BY <1>1, <1>3, ExitOK, StepAtNoDump
<1> QED
  BY <1>2, <1>3 DEF Select, Start

\* A crash breaks no whole database; whatever index stays whole without one is cut.
LEMMA CrashInv == Inv /\ Crash => Inv'
<1> SUFFICES ASSUME Inv, Crash  PROVE Inv'
  OBVIOUS
<1>1. OwnOK /\ fetcher' = [pc |-> "down", dump |-> 0]
  BY ExitOK DEF Crash
<1>2. UNCHANGED <<published, zip, types>>
  BY DEF Crash
<1>3. cut' = cut \cup {w \in Versions : Writing(w)}
  BY DEF Crash
<1>4. index \in [Versions -> Indices]
  BY DEF Inv, TypeOK, Indices
<1>5. \A v \in Versions : \/ index'[v] = index[v]
                          \/ /\ index'[v] = "broken"
                             /\ v = fetcher.dump /\ types[v] # Blocks
  <2>1. CASE index' = index
    BY <2>1
  <2>2. CASE index' # index
    <3>1. /\ index' = [index EXCEPT ![fetcher.dump] = "broken"]
          /\ \/ At("index")
             \/ types[fetcher.dump] = Absent
      BY <2>2 DEF Crash
    <3>2. types[fetcher.dump] \in {0, Absent}
      BY <3>1 DEF At, Inv, FilesOK, FilesAt
    <3>3. types[fetcher.dump] # Blocks
      BY <3>2, BlocksAssumption DEF Absent
    <3> QED
      BY <1>4, <3>1, <3>3
  <2> QED
    BY <2>1, <2>2
<1>6. index' \in [Versions -> Indices]
  <2>1. "broken" \in Indices
    BY DEF Indices
  <2>2. index' = index \/ index' = [index EXCEPT ![fetcher.dump] = "broken"]
    BY DEF Crash
  <2> QED
    BY <1>4, <2>1, <2>2
<1>7. TypeOK'
  BY <1>1, <1>2, <1>3, <1>6, TypeSplit DEF FileTypesOK, Inv
<1>8. DumpOK' /\ FilesOK'
  BY <1>1 DEF DumpOK, FilesOK, FilesAt, AtDump
<1>9. LeftOK'
  <2> SUFFICES ASSUME NEW v \in Versions
               PROVE  /\ types'[v] = Blocks => index'[v] = "whole"
                      /\ index'[v] = "whole" /\ types'[v] # Blocks
                           => v \in cut' \/ Writing(v)'
    BY DEF LeftOK
  <2> QED
    BY <1>2, <1>3, <1>5 DEF Inv, LeftOK
<1> QED
  BY <1>7, <1>8, <1>9 DEF Inv

\* The steps that leave the files and the fetcher alone.
LEMMA IdleInv == Inv /\ (FindOlder \/ Close \/ Publish \/ UNCHANGED vars) => Inv'
<1> SUFFICES ASSUME Inv, FindOlder \/ Close \/ Publish \/ UNCHANGED vars  PROVE Inv'
  OBVIOUS
<1>1. UNCHANGED <<files, fetcher, started, serving, locked>>
  BY DEF FindOlder, Close, Publish, vars, own
<1>2. published' \in 0 .. MaxVersion
  <2>1. CASE Publish
    BY <2>1, VersionAssumption DEF Publish, Inv, TypeOK
  <2>2. CASE ~Publish
    <3>1. published' = published
      BY <2>2 DEF FindOlder, Close, vars
    <3> QED
      BY <3>1 DEF Inv, TypeOK
  <2> QED
    BY <2>1, <2>2
<1>3. stop' \in BOOLEAN
  <2>1. stop' = stop \/ stop' = TRUE
    BY DEF FindOlder, Close, Publish, vars, own
  <2> QED
    BY <2>1 DEF Inv, TypeOK
<1>4. started' \in BOOLEAN
  BY <1>1 DEF Inv, TypeOK
<1>5. OwnOK
  BY <1>1, <1>3, <1>4, TypeSplit DEF OwnOK, Inv, TypeOK
<1>6. TypeOK'
  BY <1>1, <1>2, <1>5, TypeSplit DEF Inv, TypeOK, FileTypesOK, files, Sizes, Indices
<1>7. DumpOK' /\ FilesOK'
  BY <1>1 DEF Inv, DumpOK, FilesOK, files
<1>8. LeftOK'
  BY <1>1 DEF Inv, LeftOK, Writing, files
<1> QED
  BY <1>6, <1>7, <1>8 DEF Inv

LEMMA InvNext == Inv /\ [Next]_vars => Inv'
<1> SUFFICES ASSUME Inv, [Next]_vars  PROVE Inv'
  OBVIOUS
<1>1. CASE Run
  BY <1>1, FindInv, IdleInv, StatInv, DownloadInv, CreateTypesInv, CreateIndexInv, LoadInv,
     RemoveInv, OpenTypesInv, SelectInv DEF Run
<1>2. CASE Fail
  BY <1>2, FindInv, DownloadInv, CreateTypesInv, CreateIndexInv, LoadInv, RemoveInv,
     OpenTypesInv DEF Fail
<1>3. CASE Close \/ Crash \/ Start \/ Publish \/ UNCHANGED vars
  BY <1>3, IdleInv, CrashInv, SelectInv
<1> QED
  BY <1>1, <1>2, <1>3 DEF Next

-----------------------------------------------------------------------------
(* Theorems.                                                                 *)

\* Every reachable state is well typed.
THEOREM TypeCorrect == Spec => []TypeOK
<1>1. Inv => TypeOK
  BY DEF Inv
<1> QED
  BY <1>1, InitInv, InvNext, PTL DEF Spec

\* A part of a dump with a whole index, which is not being loaded, is there only of a
\* dump whose load or deletion a crash or an error of the deletion has cut: no failure,
\* no stop and no run after a stop leaves one by itself.
THEOREM PartsWereCut == Spec => []PartLeftOnlyIfCut
<1>1. Inv => PartLeftOnlyIfCut
  <2> SUFFICES ASSUME Inv, NEW v \in Versions, PartLeft(v)  PROVE v \in cut
    BY DEF PartLeftOnlyIfCut
  <2>1. index[v] = "whole" /\ types[v] # Blocks
    BY BlocksAssumption DEF PartLeft
  <2>2. ~Writing(v)
    BY DEF PartLeft, Loading, Writing
  <2> QED
    BY <2>1, <2>2 DEF Inv, LeftOK
<1> QED
  BY <1>1, InitInv, InvNext, PTL DEF Spec

\* Steps of a run change the bolt file only of the dump that the fetcher is at, and
\* a whole one not at all.
LEMMA WholeStep ==
  ASSUME Inv, [Next]_vars, NEW v \in Versions, types[v] = Blocks
  PROVE  types'[v] = Blocks
<1>1. types \in [Versions -> {Absent, Empty} \cup 0 .. Blocks] /\ Blocks >= 1
  BY BlocksAssumption DEF Inv, TypeOK
<1>2. CASE types' = types
  BY <1>2
<1>3. CASE types' # types
  <2>1. CreateTypes \/ CreateBuckets \/ CreateTypesFails \/ LoadBlock \/ RemoveTypes \/ OpenTypes
    BY <1>3 DEF Next, Run, Fail, Find, FindOlder, StatTypes, StatZip, Download, ReadZip,
       CreateIndex, LoadEnds, RemoveIndex, Select, FindFails, DownloadFails, CreateIndexFails,
       LoadBlockFails, RemoveTypesFails, RemoveIndexFails, OpenTypesFails, Close, Crash, Start,
       Publish, vars, files
  <2>2. PICK n : types' = [types EXCEPT ![fetcher.dump] = n]
    BY <1>3, <2>1 DEF CreateTypes, CreateBuckets, CreateTypesFails, LoadBlock, RemoveTypes,
       OpenTypes
  <2>3. CASE OpenTypes
    <3>1. types' = [types EXCEPT ![fetcher.dump] =
                      IF types[fetcher.dump] = Absent THEN Empty ELSE types[fetcher.dump]]
      BY <1>1, <2>3 DEF OpenTypes
    <3> QED
      BY <1>1, <3>1 DEF Absent
  <2>4. CASE ~OpenTypes
    <3>1. types[fetcher.dump] # Blocks
      BY <1>1, <2>1, <2>4 DEF CreateTypes, CreateBuckets, CreateTypesFails, LoadBlock, RemoveTypes,
         At, Inv, FilesOK, FilesAt, Absent, Empty
    <3> QED
      BY <1>1, <2>2, <3>1
  <2> QED
    BY <2>3, <2>4
<1> QED
  BY <1>2, <1>3

\* A types database that was loaded is never emptied or deleted again, by a
\* later run, a stop, a failure or a crash.
THEOREM WholeStays == Spec => WholeStaysWhole
<1>1. Inv /\ [Next]_vars
        => [\A v \in Versions : types[v] = Blocks
                                  => types'[v] = Blocks /\ index'[v] = "whole"]_vars
  <2> SUFFICES ASSUME Inv, [Next]_vars, NEW v \in Versions, types[v] = Blocks
               PROVE  types'[v] = Blocks /\ index'[v] = "whole"
    OBVIOUS
  <2>1. types'[v] = Blocks
    BY WholeStep
  <2>2. LeftOK'
    BY InvNext DEF Inv
  <2> QED
    BY <2>1, <2>2 DEF LeftOK
<1> QED
  BY <1>1, InitInv, InvNext, PTL DEF Spec, WholeStaysWhole
=============================================================================
