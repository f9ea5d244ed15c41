------------------------------- MODULE Console -------------------------------
(***************************************************************************)
(* A guest's console in the page: ConsoleModal with its chain of awaits,   *)
(* retries and clean-up, the RFB objects of noVNC it creates and drops,    *)
(* and the server's single-use tokens.                                     *)
(*                                                                         *)
(* Whenever the console's cluster changes the effect runs again: a RUN has *)
(* its own cancelled flag, but the reference to the RFB object, the retry  *)
(* count, the status and the noVNC library are shared.  A run is at one    *)
(* point of startVNC at a time and creates one RFB object after another,   *)
(* each once the last is disconnected for good.                            *)
(***************************************************************************)
EXTENDS Naturals

CONSTANTS
  MaxRuns,    \* bound: runs of the effect
  MaxRetries, \* maxRetries, 3 in the code
  NoRun       \* the reference is null

ASSUME RunsAssumption == MaxRuns \in Nat \ {0} /\ MaxRetries \in Nat
ASSUME NoRunAssumption == NoRun \notin Nat

Runs == 1 .. MaxRuns

VARIABLES
  run,        \* the current run
  cancelled,  \* [Runs -> BOOLEAN]
  at,         \* [Runs -> Points]: what startVNC awaits
  token,      \* [Runs -> {"none", "issued", "used"}]: the WebSocket token
  rfb,        \* [Runs -> RfbStates]: _rfbConnectionState of the latest object
  rfbRef,     \* the run whose object rfbRef.current is
  retryCount,
  connectionStatus,
  loaded      \* window.RFB is there

vars == <<run, cancelled, at, token, rfb, rfbRef, retryCount, connectionStatus, loaded>>

\* idle: not begun, given up, or left to the events of the RFB object
Points == {"idle", "ticket", "token", "load", "retry"}
RfbStates == {"none", "connecting", "connected", "disconnecting", "disconnected"}
Live == {"connecting", "connected"}

TypeOK ==
  /\ run \in Runs
  /\ cancelled \in [Runs -> BOOLEAN]
  /\ at \in [Runs -> Points]
  /\ token \in [Runs -> {"none", "issued", "used"}]
  /\ rfb \in [Runs -> RfbStates]
  /\ rfbRef \in Runs \cup {NoRun}
  /\ retryCount \in 0 .. MaxRetries
  /\ connectionStatus \in {"connecting", "connected", "reconnecting", "disconnected",
                           "error", "load_error"}
  /\ loaded \in BOOLEAN

Init ==
  /\ run = 1
  /\ cancelled = [r \in Runs |-> FALSE]
  /\ at = [r \in Runs |-> IF r = 1 THEN "ticket" ELSE "idle"]
  /\ token = [r \in Runs |-> "none"]
  /\ rfb = [r \in Runs |-> "none"]
  /\ rfbRef = NoRun /\ retryCount = 0
  /\ connectionStatus = "connecting" /\ loaded \in BOOLEAN

-----------------------------------------------------------------------------
(* startVNC *)

GoTo(r, point) == at' = [at EXCEPT ![r] = point]
Become(r, state) == rfb' = [rfb EXCEPT ![r] = state]
Show(status) == connectionStatus' = status

\* The ticket arrives; a refused one ends the attempt, with a status whether
\* the run is still the current one or not; a request that throws shows one only
\* in a run that is not cancelled.
TicketAnswered(r) ==
  /\ at[r] = "ticket"
  /\ \/ GoTo(r, IF cancelled[r] THEN "idle" ELSE "token") /\ UNCHANGED connectionStatus
     \/ GoTo(r, "idle") /\ Show("error")
     \/ /\ GoTo(r, "idle")
        /\ IF cancelled[r] THEN UNCHANGED connectionStatus ELSE Show("load_error")
  /\ UNCHANGED <<run, cancelled, token, rfb, rfbRef, retryCount, loaded>>

\* Mutant: only the library is looked at before the object is created.
CreateAlways(r) ==
  /\ Become(r, "connecting") /\ rfbRef' = r /\ GoTo(r, "idle")
  /\ UNCHANGED connectionStatus

\* The last steps of startVNC, without an await between them: a cancelled run
\* reports load_error, any other creates an RFB object and keeps a reference.
Create(r) ==
  /\ GoTo(r, "idle")
  /\ IF cancelled[r] THEN Show("load_error") /\ UNCHANGED <<rfb, rfbRef>>
     ELSE Become(r, "connecting") /\ rfbRef' = r /\ UNCHANGED connectionStatus

\* A WebSocket token is granted, or not: startVNC goes on without one. The
\* library may have to be loaded first.
TokenAnswered(r) ==
  /\ at[r] = "token"
  /\ \E t \in {"none", "issued"} : token' = [token EXCEPT ![r] = t]
  /\ IF loaded THEN Create(r)
     ELSE GoTo(r, "load") /\ UNCHANGED <<rfb, rfbRef, connectionStatus>>
  /\ UNCHANGED <<run, cancelled, retryCount, loaded>>

\* noVNC is there (every run that waits hears of it), cannot be loaded, or has
\* not been within 20 s.
Loaded(r) ==
  /\ at[r] = "load"
  /\ loaded' = TRUE
  /\ Create(r)
  /\ UNCHANGED <<run, cancelled, token, retryCount>>

LoadFails(r) ==
  /\ at[r] = "load" /\ ~loaded
  /\ GoTo(r, "idle")
  /\ IF cancelled[r] THEN UNCHANGED connectionStatus ELSE Show("load_error")
  /\ UNCHANGED <<run, cancelled, token, rfb, rfbRef, retryCount, loaded>>

\* Mutant: a retry starts afresh, the count too.
RetryAfresh(r) ==
  /\ at[r] = "retry"
  /\ IF cancelled[r] THEN GoTo(r, "idle") /\ UNCHANGED <<connectionStatus, retryCount>>
     ELSE GoTo(r, "ticket") /\ Show("connecting") /\ retryCount' = 0
  /\ UNCHANGED <<run, cancelled, token, rfb, rfbRef, loaded>>

\* Two seconds after an unclean end the chain starts again.
Retry(r) ==
  /\ at[r] = "retry"
  /\ IF cancelled[r] THEN GoTo(r, "idle") /\ UNCHANGED connectionStatus
                     ELSE GoTo(r, "ticket") /\ Show("connecting")
  /\ UNCHANGED <<run, cancelled, token, rfb, rfbRef, retryCount, loaded>>

-----------------------------------------------------------------------------
(* The RFB object and its events *)

\* The server takes the token, opens the guest's console and the handshake ends.
Connected(r) ==
  /\ rfb[r] = "connecting" /\ token[r] = "issued"
  /\ token' = [token EXCEPT ![r] = "used"]
  /\ Become(r, "connected")
  /\ retryCount' = 0 /\ Show("connected")
  /\ UNCHANGED <<run, cancelled, at, rfbRef, loaded>>

\* Mutant: the count is kept but not looked at.
UncleanUncounted(r) ==
  IF ~cancelled[r]
  THEN /\ retryCount' = retryCount + 1
       /\ Show("reconnecting") /\ rfbRef' = NoRun /\ GoTo(r, "retry")
  ELSE Show("error") /\ UNCHANGED <<retryCount, rfbRef, at>>

\* An unclean end, in the disconnect handler: a retry, or an error.
Unclean(r) ==
  IF ~cancelled[r] /\ retryCount < MaxRetries
  THEN /\ retryCount' = retryCount + 1
       /\ Show("reconnecting") /\ rfbRef' = NoRun /\ GoTo(r, "retry")
  ELSE Show("error") /\ UNCHANGED <<retryCount, rfbRef, at>>

\* _fail: the handshake fails (a token unknown, expired or used before, a guest
\* that is off, the wrong password), or a message cannot be understood. A token
\* the server has seen is gone.
Fail(r) ==
  /\ rfb[r] \in Live
  /\ Become(r, "disconnected")
  /\ token' \in {token, [token EXCEPT ![r] = "used"]}
  /\ Unclean(r)
  /\ UNCHANGED <<run, cancelled, loaded>>

\* Mutant: the handler only takes care of unclean ends.
SocketClosedUnseen(r) ==
  /\ rfb[r] = "connected"
  /\ Become(r, "disconnected")
  /\ UNCHANGED <<run, cancelled, at, token, rfbRef, retryCount, connectionStatus, loaded>>

\* _socketClose of a connected object, by the server or the network, is a clean
\* end: no retry.
SocketClosed(r) ==
  /\ rfb[r] = "connected"
  /\ Become(r, "disconnected")
  /\ Show("disconnected")
  /\ UNCHANGED <<run, cancelled, at, token, rfbRef, retryCount, loaded>>

\* After disconnect(): the socket has closed, or three seconds are over.
Disconnected(r) ==
  /\ rfb[r] = "disconnecting"
  /\ Become(r, "disconnected")
  /\ Show("disconnected")
  /\ UNCHANGED <<run, cancelled, at, token, rfbRef, retryCount, loaded>>

-----------------------------------------------------------------------------
(* The effect *)

\* Mutant: the clean-up only sets the flag.
CleanUpFlag ==
  cancelled' = [cancelled EXCEPT ![run] = TRUE] /\ UNCHANGED <<rfb, rfbRef>>

\* The clean-up: the flag, and disconnect() of the object the reference holds,
\* which does nothing to one that is disconnected.
CleanUp ==
  /\ cancelled' = [cancelled EXCEPT ![run] = TRUE]
  /\ rfbRef' = NoRun
  /\ rfb' = [r \in Runs |-> IF r = rfbRef /\ rfb[r] \in Live THEN "disconnecting"
                                                             ELSE rfb[r]]

\* The console is closed.
Unmount ==
  /\ ~cancelled[run]
  /\ CleanUp
  /\ UNCHANGED <<run, at, token, retryCount, connectionStatus, loaded>>

\* Another cluster is selected under the open console: clean-up, a new run.
Rerun ==
  /\ ~cancelled[run] /\ run + 1 \in Runs
  /\ run' = run + 1
  /\ CleanUp
  /\ GoTo(run + 1, "ticket") /\ Show("connecting")
  /\ UNCHANGED <<token, retryCount, loaded>>

Step(r) ==
  \/ TicketAnswered(r) \/ TokenAnswered(r) \/ Loaded(r) \/ LoadFails(r) \/ Retry(r)
  \/ Connected(r) \/ Fail(r) \/ Disconnected(r)

Next == (\E r \in Runs : Step(r) \/ SocketClosed(r)) \/ Unmount \/ Rerun

\* Every await and every handshake ends, timers fire. A connected console may
\* stay so.
Waiting(r) == at[r] # "idle" \/ rfb[r] \in {"connecting", "disconnecting"}
Fairness == \A r \in Runs : WF_vars(Waiting(r) /\ Step(r))

Spec == Init /\ [][Next]_vars /\ Fairness

-----------------------------------------------------------------------------
(* Properties *)

\* No zombie connections: an RFB object that is connecting or connected
\* belongs to the run that is not cancelled, and that run's clean-up will
\* find it, wherever the awaits, retries and clean-ups before it stood.
NoZombies ==
  \A r \in Runs : rfb[r] \in Live => ~cancelled[r] /\ rfbRef = r /\ at[r] = "idle"

\* The page says connected, and offers keys and pasting, only while the current
\* run's console is: late ends of earlier runs take the word away at most.
ConnectedIsTrue ==
  connectionStatus = "connected" /\ ~cancelled[run] => rfb[run] = "connected"

\* A console that cannot connect stops trying: the count is of failures since
\* the last connect, and no run goes on for ever.
Rests ==
  []<>(connectionStatus = "connected") \/ <>[](\A r \in Runs : ~Waiting(r))

\* A closed console is left alone: when it has been cancelled, its requests and
\* its connection come to an end.
Closes ==
  \A r \in Runs : cancelled[r] ~> (at[r] = "idle" /\ rfb[r] \in {"none", "disconnected"})
=============================================================================
