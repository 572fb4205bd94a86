--------------------------- MODULE LifecycleProofs ---------------------------
(***************************************************************************)
(* Theorems about Lifecycle, for any number of requests and of records: no *)
(* fetcher and no pass of the reaper works on a closed database, what an   *)
(* appraisal is stored without a shutdown or a swap explains, and          *)
(* restoring skips no good record that can be read.                        *)
(***************************************************************************)
EXTENDS Lifecycle, TLAPS

MainOK ==
  /\ main \in {"down", "starting", "running", "closing"}
  /\ up \in 0 .. 8
  /\ main = "down" => up = 0
  /\ main = "starting" => up < 8
  /\ main = "running" => up = 8
  /\ main = "closing" => up >= 1

\* A goroutine goes on only while its part is up.
TasksOK ==
  /\ tasks \in [Tasks -> {"off", "wait", "work"}]
  /\ \A t \in Tasks : tasks[t] # "off" => Up(t)

RequestStates ==
  [at : Stages \cup {"none", "put"}, held : {"none", "fresh", "stale"},
   types : BOOLEAN, prices : BOOLEAN, whole : BOOLEAN, closed : BOOLEAN]

\* A request that was not priced did so when priceDB was closed, after appraisalDB.
PricesClosed == main = "closing" /\ up <= 2

\* What a request missed it missed because a type database was closed in its
\* time, as the last one is before the servers are gone; without all its types it
\* gets to its offer only when there is a type for what has none.
RequestOK(q, n, unpriced, zero) ==
  /\ q \in RequestStates
  /\ q.at = "none" => q.held = "none" /\ q.types /\ q.prices /\ q.whole /\ ~q.closed
  /\ q.at # "none" => n >= 1 /\ (n >= 6 \/ q.closed)
  /\ q.held = "stale" => q.closed
  /\ (q.whole /\ q.types) \/ q.closed
  /\ q.prices \/ unpriced
  /\ q.at \in {"offer", "put"} => q.types \/ zero

RequestsOK ==
  /\ requests \in [Requests -> RequestStates]
  /\ \A r \in Requests : RequestOK(requests[r], up, PricesClosed, zeroType)

StoredOK ==
  \A a \in stored : a.prices /\ (a.types \/ zeroType) /\ ((a.types /\ a.whole) \/ a.closed)

\* The restore is past a good record only when it was stored or refused; it jumps
\* over the rest of the file only from a record that makes the rest unreadable.
RestoreOK ==
  /\ restore \in 0 .. Records + 1
  /\ imported \subseteq 1 .. Records
  /\ restore >= 1 /\ ~refused =>
       \A i \in Readable : i < restore /\ file[i] = "good" => i \in imported

Inv == MainOK /\ TasksOK /\ RequestsOK /\ StoredOK /\ RestoreOK

-----------------------------------------------------------------------------
(* Which parts are up.                                                       *)

PartUp(n, closing, part) ==
  /\ \E i \in 1 .. n : Parts[i] = part
  /\ closing => \A i \in n + 1 .. 8 : Parts[i] # part

LEMMA UpCount ==
  ASSUME NEW n \in 0 .. 8, NEW closing
  PROVE  /\ PartUp(n, closing, "priceDB") <=> (n >= 1 /\ (closing => n >= 3))
         /\ PartUp(n, closing, "httpCache") <=> n >= 2
         /\ PartUp(n, closing, "priceFetcher") <=> n >= 4
         /\ PartUp(n, closing, "appraisalDB") <=> n >= 5
         /\ PartUp(n, closing, "staticFetcher") <=> n >= 6
         /\ PartUp(n, closing, "server") <=> n >= 7
<1>1. /\ Parts[1] = "priceDB" /\ Parts[2] = "httpCache" /\ Parts[3] = "priceDB"
      /\ Parts[4] = "priceFetcher" /\ Parts[5] = "appraisalDB"
      /\ Parts[6] = "staticFetcher" /\ Parts[7] = "server" /\ Parts[8] = "mgmtServer"
  BY DEF Parts
<1>2. \A i \in 1 .. n : i \in {1, 2, 3, 4, 5, 6, 7, 8}
  OBVIOUS
<1>3. \A i \in n + 1 .. 8 : i \in {1, 2, 3, 4, 5, 6, 7, 8}
  <2>1. n \in Nat
    OBVIOUS
  <2> QED
    BY <2>1
<1>4. \A i \in {1, 2, 3, 4, 5, 6, 7, 8} : /\ i \in 1 .. n <=> n >= i
                                          /\ i \in n + 1 .. 8 <=> ~(n >= i)
  OBVIOUS
<1>5. PartUp(n, closing, "priceDB") <=> (n >= 1 /\ (closing => n >= 3))
  BY <1>1, <1>2, <1>3, <1>4 DEF PartUp
<1>6. PartUp(n, closing, "httpCache") <=> n >= 2
  BY <1>1, <1>2, <1>3, <1>4 DEF PartUp
<1>7. PartUp(n, closing, "priceFetcher") <=> n >= 4
  BY <1>1, <1>2, <1>3, <1>4 DEF PartUp
<1>8. PartUp(n, closing, "appraisalDB") <=> n >= 5
  BY <1>1, <1>2, <1>3, <1>4 DEF PartUp
<1>9. PartUp(n, closing, "staticFetcher") <=> n >= 6
  BY <1>1, <1>2, <1>3, <1>4 DEF PartUp
<1>10. PartUp(n, closing, "server") <=> n >= 7
  BY <1>1, <1>2, <1>3, <1>4 DEF PartUp
<1> QED
  BY <1>5, <1>6, <1>7, <1>8, <1>9, <1>10

LEMMA UpIs ==
  ASSUME up \in 0 .. 8
  PROVE  /\ Up("priceDB") <=> (up >= 1 /\ (main = "closing" => up >= 3))
         /\ Up("httpCache") <=> up >= 2
         /\ Up("priceFetcher") <=> up >= 4
         /\ Up("appraisalDB") <=> up >= 5
         /\ Up("staticFetcher") <=> up >= 6
         /\ Up("server") <=> up >= 7
<1>1. Len(Parts) = 8
  BY DEF Parts
<1>2. \A part : Up(part) <=> PartUp(up, main = "closing", part)
  BY <1>1 DEF Up, PartUp
<1> QED
  BY <1>2, UpCount

\* A part with a goroutine is closed only when its goroutine has ended.
LEMMA TopIs ==
  ASSUME up \in 1 .. 8
  PROVE  /\ Top \in Tasks <=> up \in {4, 5, 6}
         /\ up = 4 => Top = "priceFetcher"
         /\ up = 5 => Top = "appraisalDB"
         /\ up = 6 <=> Top = "staticFetcher"
         /\ up = 8 <=> up = Len(Parts)
<1>1. up \in {1, 2, 3, 4, 5, 6, 7, 8}
  OBVIOUS
<1> QED
  BY <1>1 DEF Top, Parts, Tasks

\* The parts of the invariant about the goroutines, by how many parts are up.
LEMMA TasksByUp ==
  ASSUME up \in 0 .. 8
  PROVE  TasksOK <=> /\ tasks \in [Tasks -> {"off", "wait", "work"}]
                     /\ tasks["priceFetcher"] # "off" => up >= 4
                     /\ tasks["appraisalDB"] # "off" => up >= 5
                     /\ tasks["staticFetcher"] # "off" => up >= 6
BY UpIs DEF TasksOK, Tasks

\* The same in the next state.
LEMMA TasksByUpNext ==
  ASSUME up' \in 0 .. 8
  PROVE  TasksOK' <=> /\ tasks' \in [Tasks -> {"off", "wait", "work"}]
                      /\ tasks'["priceFetcher"] # "off" => up' >= 4
                      /\ tasks'["appraisalDB"] # "off" => up' >= 5
                      /\ tasks'["staticFetcher"] # "off" => up' >= 6
<1>1. Len(Parts) = 8 /\ Parts' = Parts
  BY DEF Parts
<1>2. \A part : Up(part)' <=> PartUp(up', main' = "closing", part)
  BY <1>1 DEF Up, PartUp
<1>3. /\ Up("priceFetcher")' <=> up' >= 4
      /\ Up("appraisalDB")' <=> up' >= 5
      /\ Up("staticFetcher")' <=> up' >= 6
  BY <1>2, UpCount
<1> QED
  BY <1>3 DEF TasksOK, Tasks

-----------------------------------------------------------------------------
(* The invariant.                                                            *)

LEMMA NoRequestOK ==
  \A n, unpriced, zero : RequestOK(NoRequest, n, unpriced, zero)
BY DEF RequestOK, RequestStates, NoRequest

LEMMA InitInv == Init => Inv
<1> SUFFICES ASSUME Init  PROVE Inv
  OBVIOUS
<1>1. MainOK
  BY DEF Init, MainOK
<1>2. TasksOK
  BY DEF Init, TasksOK, Off
<1>3. RequestsOK
  BY NoRequestOK DEF Init, RequestsOK, RequestOK
<1>4. StoredOK
  BY DEF Init, StoredOK
<1>5. RestoreOK
  BY RecordsAssumption DEF Init, RestoreOK
<1> QED
  BY <1>1, <1>2, <1>3, <1>4, <1>5 DEF Inv

\* Exit ends the goroutines and the requests.
LEMMA ExitInv == Inv /\ Exit => MainOK' /\ TasksOK' /\ RequestsOK'
<1> SUFFICES ASSUME Inv, Exit  PROVE MainOK' /\ TasksOK' /\ RequestsOK'
  OBVIOUS
<1>1. MainOK'
  BY DEF Exit, MainOK
<1>2. TasksOK'
  BY DEF Exit, TasksOK, Off
<1>3. RequestsOK'
  <2>1. NoRequest \in RequestStates
    BY DEF NoRequest, RequestStates
  <2> QED
    BY <2>1, NoRequestOK DEF Exit, RequestsOK
<1> QED
  BY <1>1, <1>2, <1>3

\* The requests stay as they are while parts are started.
LEMMA SameRequests ==
  ASSUME RequestsOK, UNCHANGED <<requests, zeroType>>, up' >= up,
         up \in Nat, up' \in Nat, PricesClosed => PricesClosed'
  PROVE  RequestsOK'
<1>1. ASSUME NEW r \in Requests  PROVE RequestOK(requests'[r], up', PricesClosed', zeroType')
  <2>1. RequestOK(requests[r], up, PricesClosed, zeroType) /\ requests'[r] = requests[r]
    BY DEF RequestsOK
  <2> QED
    BY <2>1 DEF RequestOK
<1> QED
  BY <1>1 DEF RequestsOK

\* A part is closed; with the static fetcher, requests lose their type database.
LEMMA CloseOK ==
  ASSUME RequestsOK, zeroType' = zeroType, up \in 0 .. 8, up' \in {up, up - 1},
         up' >= 1 \/ up' = up, PricesClosed => PricesClosed',
         requests' = Stale \/ (requests' = requests /\ (up' >= 6 \/ up < 6))
  PROVE  RequestsOK'
<1>1. ASSUME NEW r \in Requests
      PROVE  /\ requests'[r] \in RequestStates
             /\ RequestOK(requests'[r], up', PricesClosed', zeroType')
  <2> DEFINE q == requests[r]
  <2>1. RequestOK(q, up, PricesClosed, zeroType) /\ q \in RequestStates
    BY DEF RequestsOK, RequestOK
  <2>2. q.at # "none" => up' >= 1 /\ (up >= 6 \/ q.closed)
    BY <2>1 DEF RequestOK
  <2>3. CASE requests' = requests /\ (up' >= 6 \/ up < 6)
    <3>1. requests'[r] = q
      BY <2>3
    <3>2. q.at # "none" => up' >= 6 \/ q.closed
      BY <2>2, <2>3
    <3> HIDE DEF q
    <3> QED
      BY <2>1, <2>2, <3>1, <3>2 DEF RequestOK
  <2>4. CASE requests' = Stale
    <3> DEFINE s == requests'[r]
    <3>1. s = [q EXCEPT !.held = IF q.held = "fresh" THEN "stale" ELSE q.held,
                        !.closed = q.at # "none"]
      BY <2>1, <2>4 DEF Stale, RequestStates
    <3>2. /\ s \in RequestStates /\ s.at = q.at /\ s.types = q.types /\ s.whole = q.whole
          /\ s.prices = q.prices /\ s.closed = (q.at # "none")
          /\ s.held = IF q.held = "fresh" THEN "stale" ELSE q.held
      BY <2>1, <3>1 DEF RequestStates
    <3> HIDE DEF s, q
    <3>3. CASE q.at = "none"
      BY <2>1, <3>2, <3>3 DEF RequestOK, s
    <3>4. CASE q.at # "none"
      <4>1. s.closed /\ (s.prices \/ PricesClosed')
        BY <2>1, <3>2, <3>4 DEF RequestOK
      <4>2. s.at \in {"offer", "put"} => s.types \/ zeroType'
        BY <2>1, <3>2 DEF RequestOK
      <4> QED
        BY <2>2, <3>2, <3>4, <4>1, <4>2 DEF RequestOK, s
    <3> QED
      BY <3>3, <3>4
  <2> QED
    BY <2>3, <2>4
<1>2. requests' \in [Requests -> RequestStates]
  BY <1>1 DEF Stale, RequestsOK
<1> QED
  BY <1>1, <1>2 DEF RequestsOK

\* Steps that leave the record of the restore and what is stored alone.
LEMMA SameRest ==
  ASSUME StoredOK, RestoreOK, UNCHANGED <<stored, restoreVars>>
  PROVE  StoredOK' /\ RestoreOK'
BY DEF StoredOK, RestoreOK, Readable, restoreVars, given

LEMMA MainInv == Inv /\ (Main \/ Fatal \/ Interrupt) => Inv'
<1> SUFFICES ASSUME Inv, Main \/ Fatal \/ Interrupt  PROVE Inv'
  OBVIOUS
<1>1. StoredOK' /\ RestoreOK'
  <2>1. UNCHANGED <<stored, restoreVars>>
    BY DEF Main, Start, StartPart, ReceiveStop, StopTask, ClosePart, Fatal, Interrupt
  <2> QED
    BY <2>1, SameRest DEF Inv
<1>0. zeroType' = zeroType
  BY DEF Main, Start, StartPart, ReceiveStop, StopTask, ClosePart, Fatal, Interrupt,
         restoreVars, given
<1>2. CASE Start \/ Interrupt \/ ReceiveStop \/ StopTask
  <2>1. up' = up /\ tasks' = tasks /\ requests' = requests
    BY <1>2 DEF Start, Interrupt, ReceiveStop, StopTask
  <2>2. MainOK'
    BY <1>2, <2>1 DEF Inv, MainOK, Start, Interrupt, ReceiveStop, StopTask
  <2>3. TasksOK'
    <3>1. up \in 0 .. 8 /\ up' \in 0 .. 8
      BY <2>1 DEF Inv, MainOK
    <3> QED
      BY <2>1, <3>1, TasksByUp, TasksByUpNext DEF Inv
  <2>4. RequestsOK'
    <3>1. up \in Nat /\ (PricesClosed => PricesClosed')
      BY <1>2, <2>1 DEF Inv, MainOK, PricesClosed, Start, Interrupt, ReceiveStop, StopTask
    <3> QED
      BY <1>0, <2>1, <3>1, SameRequests DEF Inv
  <2> QED
    BY <1>1, <2>2, <2>3, <2>4 DEF Inv
<1>3. CASE StartPart
  <2>1. up \in 0 .. 7 /\ up' = up + 1 /\ up' \in 1 .. 8
    BY <1>3 DEF StartPart, Inv, MainOK
  <2>2. MainOK'
    <3>1. main' = IF up' = 8 THEN "running" ELSE "starting"
      BY <1>3 DEF StartPart, Parts
    <3> QED
      BY <2>1, <3>1 DEF MainOK
  <2>3. TasksOK'
    <3>1. up' \in {1, 2, 3, 4, 5, 6, 7, 8}
      BY <2>1
    <3>2. CASE Parts[up'] \notin Tasks
      <4>1. tasks' = tasks
        BY <1>3, <3>2 DEF StartPart
      <4> QED
        BY <2>1, <4>1, TasksByUp, TasksByUpNext DEF Inv
    <3>3. CASE Parts[up'] \in Tasks
      <4>1. PICK s \in {"wait", "work"} : tasks' = [tasks EXCEPT ![Parts[up']] = s]
        BY <1>3, <3>3 DEF StartPart
      <4>2. /\ up' = 4 => Parts[up'] = "priceFetcher"
            /\ up' = 5 => Parts[up'] = "appraisalDB"
            /\ up' = 6 => Parts[up'] = "staticFetcher"
            /\ up' \in {4, 5, 6}
        BY <3>1, <3>3 DEF Parts, Tasks
      <4> QED
        BY <2>1, <3>3, <4>1, <4>2, TasksByUp, TasksByUpNext DEF Inv, Tasks
    <3> QED
      BY <3>2, <3>3
  <2>4. requests' = requests
    BY <1>3 DEF StartPart
  <2>5. RequestsOK'
    <3>1. ~PricesClosed
      BY <1>3 DEF StartPart, PricesClosed
    <3> QED
      BY <1>0, <2>1, <2>4, <3>1, SameRequests DEF Inv
  <2> QED
    BY <1>1, <2>2, <2>3, <2>5 DEF Inv
<1>4. CASE Fatal \/ (ClosePart /\ up = 1)
  BY <1>1, <1>4, ExitInv DEF Fatal, ClosePart, Inv
<1>5. CASE ClosePart /\ up # 1
  <2>1. up \in 2 .. 8 /\ up' = up - 1 /\ main' = main /\ main = "closing" /\ tasks' = tasks
    BY <1>5 DEF ClosePart, Inv, MainOK
  <2>2. MainOK'
    BY <2>1 DEF MainOK
  <2>3. TasksOK'
    <3>1. /\ up = 4 => tasks["priceFetcher"] = "off"
          /\ up = 5 => tasks["appraisalDB"] = "off"
          /\ up = 6 => tasks["staticFetcher"] = "off"
      BY <1>5, <2>1, TopIs DEF ClosePart, HasTask
    <3> QED
      BY <2>1, <3>1, TasksByUp, TasksByUpNext DEF Inv
  <2>4. RequestsOK'
    <3>1. PricesClosed => PricesClosed'
      BY <2>1 DEF PricesClosed
    <3>2. up = 6 <=> Top = "staticFetcher"
      BY <2>1, TopIs
    <3>3. requests' = Stale \/ (requests' = requests /\ up # 6)
      BY <1>5, <3>2 DEF ClosePart
    <3> QED
      BY <1>0, <2>1, <3>1, <3>3, CloseOK DEF Inv
  <2> QED
    BY <1>1, <2>2, <2>3, <2>4 DEF Inv
<1> QED
  BY <1>2, <1>3, <1>4, <1>5 DEF Main

\* The steps of the goroutines.
LEMMA TaskInv ==
  ASSUME Inv, SwapTypeDB \/ \E t \in Tasks : Task(t)
  PROVE  Inv'
<1>1. UNCHANGED <<mainVars, stored, restoreVars>>
  BY DEF SwapTypeDB, Task, TaskWaits, TimerFires, TaskEnds
<1>2. MainOK' /\ StoredOK' /\ RestoreOK'
  <2>1. MainOK'
    BY <1>1 DEF Inv, MainOK, mainVars
  <2> QED
    BY <1>1, <2>1, SameRest DEF Inv
<1>3. up \in 0 .. 8 /\ up' = up
  BY <1>1 DEF Inv, MainOK, mainVars
<1>4. TasksOK'
  <2>1. \/ tasks' = tasks
        \/ \E t \in Tasks, s \in {"off", "wait", "work"} :
             tasks[t] # "off" /\ tasks' = [tasks EXCEPT ![t] = s]
    BY DEF SwapTypeDB, Task, TaskWaits, TimerFires, TaskEnds
  <2> QED
    BY <1>3, <2>1, TasksByUp, TasksByUpNext DEF Inv, Tasks
<1>5. RequestsOK'
  <2>1. requests' \in {requests, Stale}
    BY DEF SwapTypeDB, Task, TaskWaits, TimerFires, TaskEnds
  <2>2. /\ PricesClosed => PricesClosed'
        /\ zeroType' = zeroType
    BY <1>1 DEF PricesClosed, mainVars, restoreVars, given
  <2>3. requests' = Stale \/ (requests' = requests /\ (up' >= 6 \/ up < 6))
    BY <1>3, <2>1
  <2> QED
    BY <1>3, <2>2, <2>3, CloseOK DEF Inv
<1> QED
  BY <1>2, <1>4, <1>5 DEF Inv

\* One request moves.
LEMMA MoveOK ==
  ASSUME RequestsOK, UNCHANGED <<mainVars, zeroType>>, NEW r \in Requests, NEW q,
         RequestOK(q, up, PricesClosed, zeroType), requests' = [requests EXCEPT ![r] = q]
  PROVE  RequestsOK'
<1>1. q \in RequestStates
  BY DEF RequestOK
<1>2. requests' \in [Requests -> RequestStates]
  BY <1>1 DEF RequestsOK
<1>3. ASSUME NEW s \in Requests
      PROVE  RequestOK(requests'[s], up, PricesClosed, zeroType)
  BY DEF RequestsOK
<1>4. up' = up /\ PricesClosed' = PricesClosed /\ zeroType' = zeroType
  BY DEF mainVars, PricesClosed
<1> QED
  BY <1>2, <1>3, <1>4 DEF RequestsOK

\* A request passes a stage: it missed something only when it held a closed
\* database.
LEMMA PassOK ==
  ASSUME RequestsOK, UNCHANGED <<mainVars, zeroType>>, NEW r \in Requests,
         up >= 1 /\ (up >= 6 \/ requests[r].closed),
         NEW at \in Stages \cup {"put"}, NEW types \in BOOLEAN,
         NEW prices \in BOOLEAN, NEW whole \in BOOLEAN, Pass(r, at, types, prices, whole),
         requests[r].held = "stale" \/ requests[r].closed \/ (types /\ requests[r].whole /\ whole),
         prices \/ PricesClosed,
         at \in {"offer", "put"} => types \/ zeroType
  PROVE  RequestsOK'
<1> DEFINE q == requests[r]
<1>1. RequestOK(q, up, PricesClosed, zeroType) /\ q \in RequestStates
  BY DEF RequestsOK
<1>2. PICK w \in BOOLEAN : w = (q.whole /\ whole)
  OBVIOUS
<1> DEFINE s == [q EXCEPT !.at = at, !.held = "none", !.types = types, !.prices = prices,
                          !.whole = w]
<1>3. requests' = [requests EXCEPT ![r] = s]
  BY <1>2 DEF Pass
<1>4. /\ s \in RequestStates /\ s.at = at /\ s.held = "none" /\ s.types = types
      /\ s.prices = prices /\ s.whole = w /\ s.closed = q.closed
  BY <1>1, <1>2 DEF RequestStates
<1>5. at # "none"
  BY DEF Stages
<1>6. (q.held = "stale" => q.closed) /\ up >= 1 /\ (up >= 6 \/ q.closed)
  BY <1>1 DEF RequestOK
<1>7. q.closed \/ (types /\ w)
  BY <1>2, <1>6
<1> HIDE DEF s, q
<1>8. RequestOK(s, up, PricesClosed, zeroType)
  BY <1>4, <1>5, <1>6, <1>7 DEF RequestOK
<1> QED
  BY <1>3, <1>8, MoveOK

\* The same for the stages that only go on.
LEMMA GoOK ==
  ASSUME RequestsOK, UNCHANGED <<mainVars, zeroType>>, NEW r \in Requests,
         up >= 1 /\ (up >= 6 \/ requests[r].closed),
         NEW at \in Stages, NEW whole \in BOOLEAN, Goto(r, at, whole),
         requests[r].held = "stale" \/ whole,
         at = "offer" => requests[r].types \/ zeroType
  PROVE  RequestsOK'
<1> DEFINE q == requests[r]
<1>1. RequestOK(q, up, PricesClosed, zeroType) /\ q \in RequestStates
  BY DEF RequestsOK
<1>2. /\ q.types \in BOOLEAN /\ q.prices \in BOOLEAN
      /\ at \in Stages \cup {"put"} /\ (at \in {"offer", "put"} => at = "offer")
  BY <1>1 DEF RequestStates, Stages
<1>3. (q.prices \/ PricesClosed) /\ (q.closed \/ (q.types /\ q.whole))
  BY <1>1 DEF RequestOK
<1>4. Pass(r, at, q.types, q.prices, whole)
  BY DEF Goto
<1>5. PICK types \in BOOLEAN, prices \in BOOLEAN : types = q.types /\ prices = q.prices
  BY <1>2
<1>6. Pass(r, at, types, prices, whole)
  BY <1>4, <1>5
<1> QED
  BY <1>2, <1>3, <1>5, <1>6, PassOK

\* What the lookups of a stage return.
LEMMA OutcomesAre ==
  ASSUME RequestsOK, NEW r \in Requests, NEW at \in Stages, Holds(r, at),
         NEW b \in Outcomes(r)
  PROVE  b \in BOOLEAN /\ (requests[r].held = "stale" \/ b)
BY DEF RequestsOK, RequestOK, RequestStates, Holds, Outcomes, Found

LEMMA ServeInv ==
  ASSUME Inv, NEW r \in Requests, Serve(r)
  PROVE  Inv'
<1>1. UNCHANGED <<mainVars, tasks, restoreVars>>
  BY DEF Serve, Request, TakeTypeDB, Parse, Price, Collect, Offer, Put
<1>2. MainOK' /\ up' = up /\ up \in 0 .. 8 /\ UNCHANGED <<mainVars, zeroType>>
  BY <1>1 DEF Inv, MainOK, mainVars, restoreVars, given
<1>3. TasksOK'
  BY <1>1, <1>2, TasksByUp, TasksByUpNext DEF Inv
<1>4. RestoreOK'
  BY <1>1 DEF Inv, RestoreOK, Readable, restoreVars, given
<1> DEFINE q == requests[r]
<1>5. RequestsOK /\ RequestOK(q, up, PricesClosed, zeroType) /\ q \in RequestStates
  BY DEF Inv, RequestsOK
<1>6. q.at # "none" => up >= 1 /\ (up >= 6 \/ q.closed)
  BY <1>5 DEF RequestOK
<1>7. End(r) => RequestsOK'
  BY <1>2, <1>5, NoRequestOK, MoveOK DEF End
<1>8. CASE ~Put(r)
  <2>1. stored' \in {stored, {}}
    BY <1>8 DEF Serve, Request, TakeTypeDB, Parse, Price, Collect, Offer
  <2>2. StoredOK'
    BY <1>2, <2>1 DEF Inv, StoredOK
  <2>3. CASE Request(r)
    <3>1. up >= 7
      BY <1>2, <2>3, UpIs DEF Request
    <3>2. Goto(r, "parse", TRUE) /\ "parse" \in Stages
      BY <2>3 DEF Request, Stages
    <3>3. TRUE \in BOOLEAN /\ up >= 1 /\ up >= 6
      BY <1>2, <3>1
    <3>4. RequestsOK'
      BY <1>2, <1>5, <3>2, <3>3, GoOK
    <3> QED
      BY <1>2, <1>3, <1>4, <2>2, <3>4 DEF Inv
  <2>4. CASE TakeTypeDB(r)
    <3>1. PICK h \in {"fresh", "stale"} :
            /\ requests' = [requests EXCEPT ![r] = [q EXCEPT !.held = h]]
            /\ h = "stale" => ~Up("staticFetcher")
      BY <1>5, <2>4 DEF TakeTypeDB, RequestsOK
    <3>2. q.at \in Stages /\ (h = "stale" => q.closed)
      <4>1. q.at \in Stages
        BY <2>4 DEF TakeTypeDB
      <4>2. q.at # "none"
        BY <4>1 DEF Stages
      <4>3. up >= 6 \/ q.closed
        BY <1>5, <4>2 DEF RequestOK
      <4>4. up >= 6 => Up("staticFetcher")
        BY <1>2, UpIs
      <4>5. h = "stale" => ~Up("staticFetcher")
        BY <3>1
      <4>6. h = "stale" => q.closed
        BY <4>3, <4>4, <4>5
      <4> QED
        BY <4>1, <4>6
    <3> DEFINE s == [q EXCEPT !.held = h]
    <3>3. /\ s \in RequestStates /\ s.at = q.at /\ s.types = q.types /\ s.prices = q.prices
          /\ s.whole = q.whole /\ s.closed = q.closed /\ s.held = h
      BY <1>5 DEF RequestStates
    <3>4. q.at # "none"
      BY <3>2 DEF Stages
    <3>5. requests' = [requests EXCEPT ![r] = s]
      BY <3>1
    <3> HIDE DEF s
    <3>6. RequestOK(s, up, PricesClosed, zeroType)
      BY <1>5, <3>2, <3>3, <3>4 DEF RequestOK
    <3>7. RequestsOK'
      BY <1>2, <1>5, <3>5, <3>6, MoveOK
    <3> QED
      BY <1>2, <1>3, <1>4, <2>2, <3>7 DEF Inv
  <2>5. CASE Parse(r)
    <3>1. q.at = "parse" /\ Holds(r, "parse") /\ "parse" \in Stages /\ "price" \in Stages
      BY <2>5 DEF Parse, Holds, Stages
    <3>2. CASE End(r)
      BY <1>2, <1>3, <1>4, <1>7, <2>2, <3>2 DEF Inv
    <3>3. CASE \E whole \in Outcomes(r) : Goto(r, "price", whole)
      <4>1. PICK whole \in Outcomes(r) : Goto(r, "price", whole)
        BY <3>3
      <4>2. whole \in BOOLEAN /\ (q.held = "stale" \/ whole)
        BY <1>5, <3>1, OutcomesAre
      <4>3. RequestsOK'
        BY <1>2, <1>5, <1>6, <3>1, <4>1, <4>2, GoOK
      <4> QED
        BY <1>2, <1>3, <1>4, <2>2, <4>3 DEF Inv
    <3> QED
      BY <2>5, <3>2, <3>3 DEF Parse
  <2>6. CASE Price(r)
    <3>1. q.at = "price" /\ Holds(r, "price") /\ "price" \in Stages
      BY <2>6 DEF Price, Holds, Stages
    <3>2. PICK types \in Outcomes(r), whole \in Outcomes(r) :
            Pass(r, "collect", types, Up("priceDB"), whole)
      BY <2>6 DEF Price
    <3>3. /\ types \in BOOLEAN /\ (q.held = "stale" \/ types)
          /\ whole \in BOOLEAN /\ (q.held = "stale" \/ whole)
      BY <1>5, <3>1, OutcomesAre
    <3>4. q.at # "none" /\ "collect" \in Stages \cup {"put"}
          /\ "collect" \notin {"offer", "put"}
      BY <3>1 DEF Stages
    <3>5. PICK prices \in BOOLEAN : prices = Up("priceDB")
      BY DEF Up
    <3>6. prices \/ PricesClosed
      <4>1. up >= 1
        BY <1>5, <3>4 DEF RequestOK
      <4> QED
        BY <1>2, <3>5, <4>1, UpIs DEF PricesClosed
    <3>7. q.closed \/ q.whole
      BY <1>5 DEF RequestOK
    <3>8. Pass(r, "collect", types, prices, whole)
      BY <3>2, <3>5
    <3>9. RequestsOK'
      BY <1>2, <1>5, <1>6, <3>3, <3>4, <3>6, <3>7, <3>8, PassOK
    <3> QED
      BY <1>2, <1>3, <1>4, <2>2, <3>9 DEF Inv
  <2>7. CASE Collect(r)
    <3>1. q.at = "collect" /\ Holds(r, "collect") /\ "collect" \in Stages /\ "offer" \in Stages
      BY <2>7 DEF Collect, Holds, Stages
    <3>2. CASE End(r)
      BY <1>2, <1>3, <1>4, <1>7, <2>2, <3>2 DEF Inv
    <3>3. CASE ~End(r)
      <4>1. PICK whole \in Outcomes(r) : Goto(r, "offer", whole) /\ (q.types \/ zeroType)
        BY <2>7, <3>3 DEF Collect
      <4>2. whole \in BOOLEAN /\ (q.held = "stale" \/ whole)
        BY <1>5, <3>1, OutcomesAre
      <4>3. RequestsOK'
        BY <1>2, <1>5, <1>6, <3>1, <4>1, <4>2, GoOK
      <4> QED
        BY <1>2, <1>3, <1>4, <2>2, <4>3 DEF Inv
    <3> QED
      BY <3>2, <3>3
  <2>8. CASE Offer(r)
    <3>1. q.at = "offer" /\ Holds(r, "offer") /\ "offer" \in Stages /\ q.at # "none"
      BY <2>8 DEF Offer, Holds, Stages
    <3>2. PICK whole \in Outcomes(r) :
            Pass(r, "put", q.types, q.prices /\ Up("priceDB"), whole)
      BY <2>8 DEF Offer
    <3>3. whole \in BOOLEAN /\ (q.held = "stale" \/ whole)
      BY <1>5, <3>1, OutcomesAre
    <3>4. q.types \in BOOLEAN /\ q.prices \in BOOLEAN /\ Up("priceDB") \in BOOLEAN
      BY <1>5 DEF RequestStates, Up
    <3>5. PICK types \in BOOLEAN, prices \in BOOLEAN :
            types = q.types /\ prices = (q.prices /\ Up("priceDB"))
      BY <3>4
    <3>6. /\ (types \/ zeroType) /\ (q.closed \/ (types /\ q.whole))
          /\ prices \/ PricesClosed
      <4>1. /\ (q.types \/ zeroType) /\ (q.closed \/ (q.types /\ q.whole))
            /\ q.prices \/ PricesClosed
            /\ up >= 1
        BY <1>5, <3>1 DEF RequestOK
      <4>2. Up("priceDB") \/ PricesClosed
        BY <1>2, <4>1, UpIs DEF PricesClosed
      <4> QED
        BY <3>5, <4>1, <4>2
    <3>7. Pass(r, "put", types, prices, whole)
      BY <3>2, <3>5
    <3>8. RequestsOK'
      BY <1>2, <1>5, <1>6, <3>1, <3>3, <3>6, <3>7, PassOK
    <3> QED
      BY <1>2, <1>3, <1>4, <2>2, <3>8 DEF Inv
  <2> QED
    BY <1>8, <2>3, <2>4, <2>5, <2>6, <2>7, <2>8 DEF Serve
<1>9. CASE Put(r)
  <2>1. RequestsOK'
    BY <1>7, <1>9 DEF Put
  <2>2. Up("appraisalDB") => q.prices
    BY <1>2, <1>5, UpIs DEF RequestOK, PricesClosed
  <2>3. (q.types \/ zeroType) /\ ((q.types /\ q.whole) \/ q.closed)
    BY <1>5, <1>9 DEF Put, RequestOK
  <2>4. stored' = IF Up("appraisalDB") THEN {q} ELSE stored
    BY <1>9 DEF Put
  <2> HIDE DEF q
  <2>5. StoredOK'
    BY <1>2, <2>2, <2>3, <2>4 DEF Inv, StoredOK
  <2> QED
    BY <1>2, <1>3, <1>4, <2>1, <2>5 DEF Inv
<1> QED
  BY <1>8, <1>9

\* Steps that change nothing of the program.
LEMMA SameState ==
  ASSUME MainOK, TasksOK, RequestsOK, StoredOK,
         UNCHANGED <<mainVars, tasks, requests, stored, zeroType>>
  PROVE  MainOK' /\ TasksOK' /\ RequestsOK' /\ StoredOK'
<1>1. up \in 0 .. 8 /\ up' = up /\ main' = main
  BY DEF MainOK, mainVars
<1>2. MainOK' /\ StoredOK'
  BY <1>1 DEF MainOK, StoredOK
<1>3. TasksOK'
  BY <1>1, TasksByUp, TasksByUpNext
<1>4. RequestsOK'
  BY <1>1, SameRequests DEF PricesClosed
<1> QED
  BY <1>2, <1>3, <1>4

LEMMA RestoreInv ==
  ASSUME Inv, RestoreBegins \/ RestoreRecord \/ RestoreEnds
  PROVE  Inv'
<1>1. UNCHANGED <<mainVars, tasks, requests, stored, given>>
  BY DEF RestoreBegins, RestoreRecord, RestoreEnds
<1>2. UNCHANGED <<mainVars, zeroType>>
  BY <1>1 DEF given
<1>3. MainOK' /\ TasksOK' /\ RequestsOK' /\ StoredOK'
  BY <1>1, <1>2, SameState DEF Inv
<1>4. RestoreOK'
  <2>1. Readable' = Readable /\ file' = file
    BY <1>1 DEF Readable, given
  <2>2. CASE RestoreBegins \/ RestoreEnds
    <3>1. restore' \in 0 .. 1 /\ imported' \subseteq 1 .. Records /\ (restore' = 1 => Records > 0)
      <4>1. CASE RestoreBegins
        BY <4>1 DEF RestoreBegins, Inv, RestoreOK
      <4>2. CASE RestoreEnds
        BY <4>2 DEF RestoreEnds, Inv, RestoreOK
      <4> QED
        BY <2>2, <4>1, <4>2
    <3>2. \A i \in Readable : ~(i < restore')
      BY <3>1 DEF Readable
    <3> QED
      BY <2>1, <3>1, <3>2, RecordsAssumption DEF RestoreOK
  <2>3. CASE RestoreRecord
    <3>1. /\ restore \in 1 .. Records /\ restore' \in 0 .. Records + 1
          /\ imported' \subseteq 1 .. Records /\ imported \subseteq imported'
      BY <2>3, RecordsAssumption DEF RestoreRecord, Inv, RestoreOK
    <3>2. ASSUME ~refused', NEW i \in Readable, i < restore', file[i] = "good"
          PROVE  i \in imported'
      <4>1. ~refused /\ (file[restore] = "good" => restore \in imported')
        BY <2>3, <3>2 DEF RestoreRecord
      <4>2. CASE i < restore
        <5>1. RestoreOK /\ restore >= 1
          BY <3>1, RecordsAssumption DEF Inv
        <5>2. i \in imported
          BY <3>2, <4>1, <4>2, <5>1 DEF RestoreOK
        <5> QED
          BY <3>1, <5>2
      <4>3. CASE i = restore
        BY <3>2, <4>1, <4>3
      <4>4. CASE i > restore
        <5>1. file[restore] = "unreadable"
          BY <2>3, <3>1, <3>2, <4>4 DEF RestoreRecord, Readable
        <5> QED
          BY <3>1, <3>2, <4>4, <5>1 DEF Readable
      <4> QED
        BY <3>1, <4>2, <4>3, <4>4 DEF Readable
    <3> QED
      BY <2>1, <3>1, <3>2 DEF RestoreOK
  <2> QED
    BY <2>2, <2>3
<1> QED
  BY <1>3, <1>4 DEF Inv

LEMMA InvNext == Inv /\ [Next]_vars => Inv'
<1> SUFFICES ASSUME Inv, [Next]_vars  PROVE Inv'
  OBVIOUS
<1>1. CASE UNCHANGED vars
  <2>1. UNCHANGED <<mainVars, tasks, requests, stored, restoreVars>>
    BY <1>1 DEF vars
  <2>2. UNCHANGED <<mainVars, zeroType>>
    BY <2>1 DEF restoreVars, given
  <2>3. MainOK' /\ TasksOK' /\ RequestsOK' /\ StoredOK'
    BY <2>1, <2>2, SameState DEF Inv
  <2> QED
    BY <2>1, <2>3, SameRest DEF Inv
<1>2. CASE Next
  BY <1>2, MainInv, TaskInv, ServeInv, RestoreInv DEF Next
<1> QED
  BY <1>1, <1>2

LEMMA Invariance == Spec => []Inv
BY InitInv, InvNext, PTL DEF Spec

-----------------------------------------------------------------------------
(* Theorems.                                                                 *)

\* No fetcher and no pass of the reaper is at work on a database that was closed
\* or is not open yet: the deferred functions of appMain close what it uses after
\* it.
THEOREM NoTaskWithoutStore == Spec => []TasksHaveStores
<1>1. Inv => TasksHaveStores
  <2> SUFFICES ASSUME Inv  PROVE TasksHaveStores
    OBVIOUS
  <2>1. up \in 0 .. 8 /\ TasksOK
    BY DEF Inv, MainOK
  <2> QED
    BY <2>1, TasksByUp, UpIs DEF TasksHaveStores
<1> QED
  BY <1>1, Invariance, PTL

\* However the databases are closed and swapped under the requests, no appraisal is
\* stored that met a closed priceDB, none with items that were not found unless
\* there is a type with the ID 0, and none that missed anything else unless a type
\* database was closed in its time.
THEOREM StoredAreWhole == Spec => []StoredWhole
<1>1. Inv => StoredWhole
  BY DEF Inv, StoredOK, StoredWhole
<1> QED
  BY <1>1, Invariance, PTL

\* A restore that nothing refused has stored every good record in front of the
\* first one that cannot be read.
THEOREM RestoreComplete == Spec => []RestoredAll
<1>1. Inv => RestoredAll
  BY RecordsAssumption DEF Inv, RestoreOK, RestoredAll, Readable
<1> QED
  BY <1>1, Invariance, PTL
=============================================================================
