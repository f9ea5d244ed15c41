----------------------------- MODULE ConsoleProofs -----------------------------
(* Theorems about Console, for every number of runs of the effect and of       *)
(* retries.                                                                    *)
EXTENDS Console, TLAPS

Tokens == {"none", "issued", "used"}
Statuses == {"connecting", "connected", "reconnecting", "disconnected", "error", "load_error"}

LEMMA GoToType ==
  ASSUME TypeOK, NEW r \in Runs, NEW p \in Points, GoTo(r, p)
  PROVE  at' \in [Runs -> Points]
BY DEF TypeOK, GoTo

LEMMA BecomeType ==
  ASSUME TypeOK, NEW r \in Runs, NEW s \in RfbStates, Become(r, s)
  PROVE  rfb' \in [Runs -> RfbStates]
BY DEF TypeOK, Become

LEMMA ShowType ==
  ASSUME NEW s \in Statuses, Show(s)
  PROVE  connectionStatus' \in Statuses
BY DEF Show

LEMMA CreateType ==
  ASSUME TypeOK, NEW r \in Runs, Create(r)
  PROVE  /\ at' \in [Runs -> Points]
         /\ rfb' \in [Runs -> RfbStates]
         /\ rfbRef' \in Runs \cup {NoRun}
         /\ connectionStatus' \in Statuses
<1>1. at' \in [Runs -> Points]
  BY GoToType DEF Create, Points
<1>2. CASE cancelled[r]
  BY <1>1, <1>2, ShowType DEF Create, TypeOK, Statuses
<1>3. CASE ~cancelled[r]
  BY <1>1, <1>3, BecomeType DEF Create, TypeOK, Statuses, RfbStates
<1> QED
  BY <1>2, <1>3

LEMMA UncleanType ==
  ASSUME TypeOK, NEW r \in Runs, Unclean(r)
  PROVE  /\ at' \in [Runs -> Points]
         /\ rfbRef' \in Runs \cup {NoRun}
         /\ retryCount' \in 0 .. MaxRetries
         /\ connectionStatus' \in Statuses
<1>1. CASE ~cancelled[r] /\ retryCount < MaxRetries
  <2>1. retryCount + 1 \in 0 .. MaxRetries
    BY <1>1, RunsAssumption DEF TypeOK
  <2> QED
    BY <1>1, <2>1, GoToType, ShowType DEF Unclean, Points, Statuses
<1>2. CASE ~(~cancelled[r] /\ retryCount < MaxRetries)
  BY <1>2, ShowType DEF Unclean, TypeOK, Statuses
<1> QED
  BY <1>1, <1>2

LEMMA CleanUpType ==
  ASSUME TypeOK, CleanUp
  PROVE  /\ cancelled' \in [Runs -> BOOLEAN]
         /\ rfb' \in [Runs -> RfbStates]
         /\ rfbRef' \in Runs \cup {NoRun}
BY DEF TypeOK, CleanUp, RfbStates, Live

LEMMA InitType == ASSUME Init PROVE TypeOK
BY RunsAssumption DEF Init, TypeOK, Runs, Points, RfbStates

LEMMA NextType == ASSUME TypeOK, [Next]_vars PROVE TypeOK'
<1> USE DEF Statuses
<1>1. CASE UNCHANGED vars
  BY <1>1 DEF vars, TypeOK
<1>2. ASSUME NEW r \in Runs, Step(r) PROVE TypeOK'
  <2>1. CASE TicketAnswered(r)
    <3>1. (IF cancelled[r] THEN "idle" ELSE "token") \in Points
      BY DEF Points
    <3>2. at' \in [Runs -> Points]
      BY <2>1, <3>1, GoToType DEF TicketAnswered, Points
    <3>3. connectionStatus' \in Statuses
      BY <2>1, ShowType DEF TicketAnswered, TypeOK
    <3> QED
      BY <2>1, <3>2, <3>3 DEF TicketAnswered, TypeOK
  <2>2. CASE TokenAnswered(r)
    <3>1. token' \in [Runs -> Tokens]
      BY <2>2 DEF TokenAnswered, TypeOK, Tokens
    <3>2. CASE loaded
      BY <2>2, <3>1, <3>2, CreateType DEF TokenAnswered, TypeOK, Tokens
    <3>3. CASE ~loaded
      BY <2>2, <3>1, <3>3, GoToType DEF TokenAnswered, TypeOK, Tokens, Points
    <3> QED
      BY <3>2, <3>3
  <2>3. CASE Loaded(r)
    BY <2>3, CreateType DEF Loaded, TypeOK
  <2>4. CASE LoadFails(r)
    <3>1. at' \in [Runs -> Points]
      BY <2>4, GoToType DEF LoadFails, Points
    <3>2. connectionStatus' \in Statuses
      BY <2>4, ShowType DEF LoadFails, TypeOK
    <3> QED
      BY <2>4, <3>1, <3>2 DEF LoadFails, TypeOK
  <2>5. CASE Retry(r)
    <3>1. at' \in [Runs -> Points]
      BY <2>5, GoToType DEF Retry, Points
    <3>2. connectionStatus' \in Statuses
      BY <2>5, ShowType DEF Retry, TypeOK
    <3> QED
      BY <2>5, <3>1, <3>2 DEF Retry, TypeOK
  <2>6. CASE Connected(r)
    <3>1. rfb' \in [Runs -> RfbStates] /\ connectionStatus' \in Statuses
      BY <2>6, BecomeType, ShowType DEF Connected, RfbStates
    <3>2. retryCount' \in 0 .. MaxRetries
      BY <2>6, RunsAssumption DEF Connected
    <3> QED
      BY <2>6, <3>1, <3>2 DEF Connected, TypeOK
  <2>7. CASE Fail(r)
    <3>1. rfb' \in [Runs -> RfbStates]
      BY <2>7, BecomeType DEF Fail, RfbStates
    <3>2. token' \in [Runs -> Tokens]
      BY <2>7 DEF Fail, TypeOK, Tokens
    <3> QED
      BY <2>7, <3>1, <3>2, UncleanType DEF Fail, TypeOK, Tokens
  <2>8. CASE Disconnected(r)
    BY <2>8, BecomeType, ShowType DEF Disconnected, TypeOK, RfbStates
  <2> QED
    BY <1>2, <2>1, <2>2, <2>3, <2>4, <2>5, <2>6, <2>7, <2>8 DEF Step
<1>3. ASSUME NEW r \in Runs, SocketClosed(r) PROVE TypeOK'
  BY <1>3, BecomeType, ShowType DEF SocketClosed, TypeOK, RfbStates
<1>4. CASE Unmount
  BY <1>4, CleanUpType DEF Unmount, TypeOK
<1>5. CASE Rerun
  BY <1>5, CleanUpType, GoToType, ShowType DEF Rerun, TypeOK, Points
<1> QED
  BY <1>1, <1>2, <1>3, <1>4, <1>5 DEF Next

\* Every variable keeps its type, whatever answers, events and clean-ups come in
\* whatever order.
THEOREM Typing == Spec => []TypeOK
BY InitType, NextType, PTL DEF Spec

(* Only the current run is at work: an earlier one is cancelled, a later one  *)
(* has not begun.                                                             *)
Current ==
  \A r \in Runs : r # run /\ ~cancelled[r] => at[r] = "idle" /\ rfb[r] = "none"

ConsoleInv == TypeOK /\ Current /\ NoZombies /\ ConnectedIsTrue

\* A run that is at work and not cancelled is the current one, and without a live
\* object; so there is no live object at all.
LEMMA NothingLive ==
  ASSUME ConsoleInv, NEW r \in Runs, at[r] # "idle", ~cancelled[r]
  PROVE  r = run /\ \A q \in Runs : rfb[q] \notin Live
BY DEF ConsoleInv, Current, NoZombies, Live

LEMMA CreateKeeps ==
  ASSUME ConsoleInv, NEW r \in Runs, at[r] # "idle", Create(r), UNCHANGED <<run, cancelled>>
  PROVE  Current' /\ NoZombies' /\ ConnectedIsTrue'
<1> USE DEF TypeOK, ConsoleInv
<1>1. CASE cancelled[r]
  <2>1. \A q \in Runs : q # r => at'[q] = at[q]
    BY <1>1 DEF Create, GoTo
  <2>2. at'[r] = "idle" /\ rfb' = rfb /\ rfbRef' = rfbRef /\ connectionStatus' = "load_error"
    BY <1>1 DEF Create, GoTo, Show
  <2> QED
    BY <1>1, <2>1, <2>2 DEF Current, NoZombies, ConnectedIsTrue, Live
<1>2. CASE ~cancelled[r]
  <2>1. r = run /\ \A q \in Runs : rfb[q] \notin Live
    BY <1>2, NothingLive
  <2>2. \A q \in Runs : q # r => at'[q] = at[q] /\ rfb'[q] = rfb[q]
    BY <1>2 DEF Create, GoTo, Become
  <2>3. at'[r] = "idle" /\ rfb'[r] = "connecting" /\ rfbRef' = r
    BY <1>2 DEF Create, GoTo, Become
  <2>4. connectionStatus' = connectionStatus
    BY <1>2 DEF Create
  <2>5. Current'
    BY <1>2, <2>1, <2>2 DEF Current
  <2>6. NoZombies'
    BY <1>2, <2>1, <2>2, <2>3 DEF NoZombies
  <2>7. connectionStatus # "connected"
    BY <1>2, <2>1 DEF ConnectedIsTrue, Live
  <2> QED
    BY <2>4, <2>5, <2>6, <2>7 DEF ConnectedIsTrue
<1> QED
  BY <1>1, <1>2

\* A step of a run that touches its point and the status only.
LEMMA MoveKeeps ==
  ASSUME ConsoleInv, NEW r \in Runs, at[r] # "idle", NEW p \in Points, GoTo(r, p),
         connectionStatus' = connectionStatus \/ connectionStatus' # "connected",
         UNCHANGED <<run, cancelled, rfb, rfbRef>>
  PROVE  Current' /\ NoZombies' /\ ConnectedIsTrue'
<1>1. \A q \in Runs : q # r => at'[q] = at[q]
  BY DEF GoTo, ConsoleInv, TypeOK
<1>2. rfb[r] \notin Live
  BY DEF ConsoleInv, NoZombies
<1> QED
  BY <1>1, <1>2 DEF ConsoleInv, TypeOK, Current, NoZombies, ConnectedIsTrue

\* An object ends, and its run says so.
LEMMA EndKeeps ==
  ASSUME ConsoleInv, NEW r \in Runs, rfb[r] # "none",
         Become(r, "disconnected"),
         \A q \in Runs : q # r => at'[q] = at[q],
         rfb[r] \notin Live => UNCHANGED <<at, rfbRef>>,
         connectionStatus' # "connected",
         UNCHANGED <<run, cancelled>>
  PROVE  Current' /\ NoZombies' /\ ConnectedIsTrue'
<1>1. /\ \A q \in Runs : q # r => rfb'[q] = rfb[q]
      /\ rfb'[r] = "disconnected"
  BY DEF Become, ConsoleInv, TypeOK
<1>2. Current'
  BY <1>1 DEF ConsoleInv, TypeOK, Current
<1>3. CASE rfb[r] \in Live
  <2>1. \A q \in Runs : q # r => rfb[q] \notin Live
    BY <1>3 DEF ConsoleInv, NoZombies
  <2> QED
    BY <1>1, <1>2, <2>1 DEF NoZombies, ConnectedIsTrue, Live
<1>4. CASE rfb[r] \notin Live
  BY <1>1, <1>2, <1>4 DEF ConsoleInv, NoZombies, ConnectedIsTrue, Live
<1> QED
  BY <1>3, <1>4

LEMMA CleanUpKeeps ==
  ASSUME ConsoleInv, CleanUp
  PROVE  /\ \A q \in Runs : rfb'[q] \notin Live
         /\ \A q \in Runs : rfb[q] = "none" => rfb'[q] = "none"
         /\ cancelled'[run]
         /\ \A q \in Runs : q # run => cancelled'[q] = cancelled[q]
BY DEF CleanUp, ConsoleInv, TypeOK, NoZombies, Live

LEMMA ConsoleInit == ASSUME Init PROVE ConsoleInv
BY InitType DEF Init, ConsoleInv, TypeOK, Current, NoZombies, ConnectedIsTrue, Live

LEMMA ConsoleNext == ASSUME ConsoleInv, [Next]_vars PROVE ConsoleInv'
<1> USE DEF Points
<1>0. TypeOK'
  BY NextType DEF ConsoleInv
<1>1. CASE UNCHANGED vars
  BY <1>0, <1>1 DEF vars, ConsoleInv, Current, NoZombies, ConnectedIsTrue
<1>2. ASSUME NEW r \in Runs, Step(r) PROVE ConsoleInv'
  <2>1. CASE TicketAnswered(r)
    BY <1>0, <2>1, MoveKeeps DEF TicketAnswered, ConsoleInv, Show
  <2>2. CASE TokenAnswered(r)
    <3>1. CASE loaded
      BY <1>0, <2>2, <3>1, CreateKeeps DEF TokenAnswered, ConsoleInv
    <3>2. CASE ~loaded
      BY <1>0, <2>2, <3>2, MoveKeeps DEF TokenAnswered, ConsoleInv
    <3> QED
      BY <3>1, <3>2
  <2>3. CASE Loaded(r)
    BY <1>0, <2>3, CreateKeeps DEF Loaded, ConsoleInv
  <2>4. CASE LoadFails(r)
    BY <1>0, <2>4, MoveKeeps DEF LoadFails, ConsoleInv, Show
  <2>5. CASE Retry(r)
    BY <1>0, <2>5, MoveKeeps DEF Retry, ConsoleInv, Show
  <2>6. CASE Connected(r)
    <3>1. rfb[r] \in Live /\ r = run /\ ~cancelled[r]
      BY <2>6 DEF Connected, ConsoleInv, NoZombies, Current, Live
    <3>2. /\ \A q \in Runs : q # r => rfb'[q] = rfb[q]
          /\ rfb'[r] = "connected"
      BY <2>6 DEF Connected, Become, ConsoleInv, TypeOK
    <3> QED
      BY <1>0, <2>6, <3>1, <3>2
         DEF Connected, ConsoleInv, Current, NoZombies, ConnectedIsTrue, Live
  <2>7. CASE Fail(r)
    <3>1. \A q \in Runs : q # r => at'[q] = at[q]
      BY <2>7 DEF Fail, Unclean, GoTo, ConsoleInv, TypeOK
    <3>2. connectionStatus' # "connected"
      BY <2>7 DEF Fail, Unclean, Show
    <3> QED
      BY <1>0, <2>7, <3>1, <3>2, EndKeeps DEF Fail, ConsoleInv, Live
  <2>8. CASE Disconnected(r)
    BY <1>0, <2>8, EndKeeps DEF Disconnected, ConsoleInv, Show, Live
  <2> QED
    BY <1>2, <2>1, <2>2, <2>3, <2>4, <2>5, <2>6, <2>7, <2>8 DEF Step
<1>3. ASSUME NEW r \in Runs, SocketClosed(r) PROVE ConsoleInv'
  BY <1>0, <1>3, EndKeeps DEF SocketClosed, ConsoleInv, Show, Live
<1>4. CASE Unmount
  BY <1>0, <1>4, CleanUpKeeps
     DEF Unmount, ConsoleInv, Current, NoZombies, ConnectedIsTrue
<1>5. CASE Rerun
  <2>1. run' = run + 1 /\ \A q \in Runs : q # run + 1 => at'[q] = at[q]
    BY <1>5 DEF Rerun, GoTo, ConsoleInv, TypeOK
  <2>2. Current'
    BY <1>5, <2>1, CleanUpKeeps DEF Rerun, ConsoleInv, Current
  <2> QED
    BY <1>0, <1>5, <2>2, CleanUpKeeps
       DEF Rerun, Show, ConsoleInv, NoZombies, ConnectedIsTrue
<1> QED
  BY <1>1, <1>2, <1>3, <1>4, <1>5 DEF Next

\* No zombie connections, for any number of runs: whatever is awaited when the
\* console is closed or its cluster changes, no connection is left that no
\* clean-up will find.
THEOREM Zombies == Spec => []NoZombies
<1>1. ConsoleInv => NoZombies
  BY DEF ConsoleInv
<1> QED
  BY ConsoleInit, ConsoleNext, <1>1, PTL DEF Spec

\* The page says connected only while the current run's console is.
THEOREM TrulyConnected == Spec => []ConnectedIsTrue
<1>1. ConsoleInv => ConnectedIsTrue
  BY DEF ConsoleInv
<1> QED
  BY ConsoleInit, ConsoleNext, <1>1, PTL DEF Spec
================================================================================
