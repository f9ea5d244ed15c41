----------------------------- MODULE LiveUpdates -----------------------------
(***************************************************************************)
(* The stream of live updates between a page and the server: the effect    *)
(* that keeps an EventSource open (getSseToken, connectSSE, its handlers,  *)
(* the token refresh, the health check, the clean-up), the debounced       *)
(* subscription request, and the server's tokens and client table.         *)
(*                                                                         *)
(* The effect runs again whenever the user object or the session changes:  *)
(* a run of it is a LIFE, with variables of its own (a closure).  A        *)
(* callback of an old life may still run in a later one.  One EventSource  *)
(* object is a connection; the view is the set of clusters the page wants  *)
(* events of (the selected one and the expanded ones), as one value.       *)
(***************************************************************************)
EXTENDS Naturals, FiniteSets

CONSTANTS
  MaxLife,    \* bound: runs of the effect
  Conns,      \* EventSource objects that are not closed; bound on their number
  Views,      \* the sets of clusters the page may want
  FirstView,  \* the one it starts with
  NoConn,     \* no EventSource, no client id
  Closed,     \* a closed EventSource, the client id of one
  NoView,     \* no subscription timer is pending
  MaxPending, \* bound: calls of connectSSE under way in a life, and delayed ones
  MaxRetries, \* bound: retries pending in a life
  MaxOutages, \* bound: outages of the server or the network
  MaxChanges  \* bound: changes of the view

ASSUME LivesAssumption == MaxLife \in Nat \ {0}
ASSUME ValuesAssumption == NoConn \notin Conns /\ Closed \notin Conns /\ NoConn # Closed
                             /\ NoView \notin Views /\ FirstView \in Views
ASSUME BoundsAssumption == /\ MaxPending \in Nat \ {0} /\ MaxRetries \in Nat \ {0}
                           /\ MaxOutages \in Nat /\ MaxChanges \in Nat

Lives == 1 .. MaxLife

VARIABLES
  life,                 \* the life the effect is in
  up,                   \* the server answers
  isClosing,            \* [Lives -> BOOLEAN]: the clean-up has run
  eventSource,          \* [Lives -> Conns \cup {NoConn, Closed}]: the closure's variable
  sseToken,             \* [Lives -> {"none", "good", "bad"}]: the closure's token
  calls,                \* [Lives -> Nat]: connectSSE past its check, awaiting a token
  reconnectTimeout,     \* [Lives -> Nat]: retries scheduled by onerror
  delayed,              \* [Lives -> Nat]: connectSSE scheduled by the token refresh
  tokenRefreshInterval, \* [Lives -> BOOLEAN]: the five-minute interval runs, a tick may come
  conn,                 \* [Conns -> Conn]
  wsConnected,          \* what the page shows
  view,                 \* what the page wants now
  sseClientIdRef,       \* the connection the page believes to be subscribed
  sseSubTimer,          \* the view the debounced subscription will send
  outages, changes      \* how many there have been

life_vars == <<isClosing, eventSource, sseToken, calls, reconnectTimeout,
               delayed, tokenRefreshInterval>>
view_vars == <<view, sseSubTimer>>
bounds == <<outages, changes>>
vars == <<life, up, life_vars, conn, wsConnected, view_vars,
          sseClientIdRef, bounds>>

\* st: readyState CONNECTING or OPEN, or no such object; token: whether the
\* server knows the one in its URL, and so the client; clusters: the filter the
\* server keeps for this client, or will take from the URL
Conn == [st : {"connecting", "open"}, life : Lives, token : {"good", "bad"},
         clusters : Views]
NoObject == [st |-> "none"]

TypeOK ==
  /\ life \in Lives
  /\ up \in BOOLEAN /\ wsConnected \in BOOLEAN
  /\ isClosing \in [Lives -> BOOLEAN]
  /\ eventSource \in [Lives -> Conns \cup {NoConn, Closed}]
  /\ sseToken \in [Lives -> {"none", "good", "bad"}]
  /\ calls \in [Lives -> 0 .. MaxPending]
  /\ reconnectTimeout \in [Lives -> 0 .. MaxRetries]
  /\ delayed \in [Lives -> 0 .. MaxPending]
  /\ tokenRefreshInterval \in [Lives -> BOOLEAN]
  /\ conn \in [Conns -> Conn \cup {NoObject}]
  /\ view \in Views
  /\ sseClientIdRef \in Conns \cup {NoConn, Closed}
  /\ sseSubTimer \in Views \cup {NoView}
  /\ outages \in 0 .. MaxOutages /\ changes \in 0 .. MaxChanges

Init ==
  /\ life = 1 /\ up = TRUE
  /\ isClosing = [l \in Lives |-> FALSE]
  /\ eventSource = [l \in Lives |-> NoConn]
  /\ sseToken = [l \in Lives |-> "none"]
  /\ calls = [l \in Lives |-> IF l = 1 THEN 1 ELSE 0]
  /\ reconnectTimeout = [l \in Lives |-> 0]
  /\ delayed = [l \in Lives |-> 0]
  /\ tokenRefreshInterval = [l \in Lives |-> FALSE]
  /\ wsConnected = FALSE
  /\ view = FirstView
  /\ conn = [k \in Conns |-> NoObject]
  /\ sseClientIdRef = NoConn /\ sseSubTimer = NoView
  /\ outages = 0 /\ changes = 0

-----------------------------------------------------------------------------
(* Helpers *)

Inc(f, l) == [f EXCEPT ![l] = @ + 1]
Dec(f, l) == [f EXCEPT ![l] = @ - 1]

\* The objects of K are closed, the others are as "after" says; the client ids
\* of the closed ones lead nowhere from now on.
Close(K, after) ==
  /\ conn' = [k \in Conns |-> IF k \in K THEN NoObject ELSE after[k]]
  /\ eventSource' = [l \in Lives |-> IF eventSource[l] \in K THEN Closed
                                                             ELSE eventSource[l]]
  /\ sseClientIdRef' = IF sseClientIdRef \in K THEN Closed ELSE sseClientIdRef

\* what eventSource.close() closes: the object the closure's variable holds
Held(l) == {eventSource[l]} \cap Conns

\* the objects to take for a new EventSource, and one of them
Unused == {k \in Conns : conn[k] = NoObject}
NewConn == CHOOSE k \in Unused : TRUE

\* The session lasts until the clean-up that no new life follows; without it no
\* request is granted anything.
LoggedIn == ~isClosing[life]
Granted == up /\ LoggedIn

\* the closure's token after getSseToken: a failed request keeps the old one
NewToken(l) == IF Granted THEN "good" ELSE sseToken[l]

\* Mutant: connectSSE does not look at isClosing.
EnterConnectAlways(l) == calls[l] < MaxPending /\ calls' = Inc(calls, l)

\* connectSSE(): its check of isClosing, then the token request is sent
EnterConnect(l) ==
  IF isClosing[l] THEN UNCHANGED calls
  ELSE calls[l] < MaxPending /\ calls' = Inc(calls, l)

-----------------------------------------------------------------------------
(* The page: connectSSE and the callbacks of a life *)

\* The token request of connectSSE is answered. Without any token it gives up
\* and nothing tries again; otherwise a new EventSource replaces the variable,
\* whatever it held, with the clusters the page wants now. isClosing is not
\* looked at again.
ConnectSSE(l) ==
  /\ calls[l] > 0
  /\ calls' = Dec(calls, l)
  /\ sseToken' = [sseToken EXCEPT ![l] = NewToken(l)]
  /\ IF NewToken(l) = "none" THEN UNCHANGED <<eventSource, conn>>
     ELSE /\ Unused # {}
          /\ eventSource' = [eventSource EXCEPT ![l] = NewConn]
          /\ conn' = [conn EXCEPT ![NewConn] = [st |-> "connecting", life |-> l,
                                                token |-> NewToken(l),
                                                clusters |-> view]]
  /\ UNCHANGED <<life, up, isClosing, reconnectTimeout, delayed,
                 tokenRefreshInterval, wsConnected, view_vars,
                 sseClientIdRef, bounds>>

\* The server accepts the stream: onopen, and the first message, which carries
\* the client's id. The refresh interval (re)starts, in a closed life too.
OnOpen(k) ==
  LET l == conn[k].life
  IN  /\ conn[k].st = "connecting"
      /\ up /\ conn[k].token = "good"
      /\ conn' = [conn EXCEPT ![k].st = "open"]
      /\ wsConnected' = TRUE
      /\ tokenRefreshInterval' = [tokenRefreshInterval EXCEPT ![l] = TRUE]
      /\ sseClientIdRef' = k
      /\ UNCHANGED <<life, up, isClosing, eventSource, sseToken, calls,
                     reconnectTimeout, delayed, view_vars, bounds>>

\* Mutant: an error of an EventSource that is CLOSED already is ignored.
OnErrorUnlessClosed(k) ==
  LET l == conn[k].life
      refused == up /\ conn[k].st = "connecting" /\ conn[k].token = "bad"
      broken == \/ ~up /\ conn[k].st \in {"connecting", "open"}
                \/ conn[k].st = "open" /\ conn[k].token = "bad"
  IN  /\ refused \/ broken
      /\ IF refused
         THEN Close({k}, conn) /\ UNCHANGED <<wsConnected, reconnectTimeout>>
         ELSE /\ wsConnected' = FALSE
              /\ Close(Held(l), [conn EXCEPT ![k].st = "connecting"])
              /\ IF isClosing[l] THEN UNCHANGED reconnectTimeout
                 ELSE /\ reconnectTimeout[l] < MaxRetries
                      /\ reconnectTimeout' = Inc(reconnectTimeout, l)
      /\ UNCHANGED <<life, up, isClosing, sseToken, calls, delayed,
                     tokenRefreshInterval, view, sseSubTimer, bounds>>

\* An error event of connection k. A refused token ends the connection for good;
\* after a network error the browser itself would connect again with the same
\* URL. The handler closes the closure's EventSource, which need not
\* be k, and schedules a retry unless the life is closed.
OnError(k) ==
  LET l == conn[k].life
      refused == up /\ conn[k].st = "connecting" /\ conn[k].token = "bad"
      broken == \/ ~up /\ conn[k].st \in {"connecting", "open"}
                \/ conn[k].st = "open" /\ conn[k].token = "bad"
      closed == Held(l) \cup (IF refused THEN {k} ELSE {})
  IN  /\ refused \/ broken
      /\ wsConnected' = FALSE
      /\ Close(closed, [conn EXCEPT ![k].st = "connecting"])
      /\ IF isClosing[l] THEN UNCHANGED reconnectTimeout
         ELSE /\ reconnectTimeout[l] < MaxRetries
              /\ reconnectTimeout' = Inc(reconnectTimeout, l)
      /\ UNCHANGED <<life, up, isClosing, sseToken, calls, delayed,
                     tokenRefreshInterval, view, sseSubTimer, bounds>>

\* A retry: a token of its own first, then connectSSE with its check.
Reconnect(l) ==
  /\ reconnectTimeout[l] > 0
  /\ reconnectTimeout' = Dec(reconnectTimeout, l)
  /\ sseToken' = [sseToken EXCEPT ![l] = NewToken(l)]
  /\ EnterConnect(l)
  /\ UNCHANGED <<life, up, isClosing, eventSource, delayed,
                 tokenRefreshInterval, conn, wsConnected, view_vars,
                 sseClientIdRef, bounds>>

\* Mutant: the refresh closes the stream and leaves the rest to onerror, which
\* close() does not call.
RefreshTokenNoConnect(l) ==
  /\ tokenRefreshInterval[l]
  /\ IF Granted
     THEN /\ tokenRefreshInterval' = [tokenRefreshInterval EXCEPT ![l] = FALSE]
          /\ Close(Held(l), conn)
          /\ sseToken' = [sseToken EXCEPT ![l] = "good"]
     ELSE UNCHANGED <<tokenRefreshInterval, conn, eventSource, sseClientIdRef, sseToken>>
  /\ UNCHANGED <<life, up, isClosing, calls, reconnectTimeout, delayed,
                 wsConnected, view, sseSubTimer, bounds>>

\* Mutant: the refresh only stores the token for the next connect.
RefreshTokenOnly(l) ==
  /\ tokenRefreshInterval[l] /\ Granted
  /\ sseToken' = [sseToken EXCEPT ![l] = "good"]
  /\ UNCHANGED <<life, up, isClosing, eventSource, calls, reconnectTimeout, delayed,
                 tokenRefreshInterval, conn, wsConnected, view_vars,
                 sseClientIdRef, bounds>>

\* A tick of the refresh interval asks for a token. When it arrives the closure's
\* EventSource is closed and connectSSE scheduled; without one the connection
\* stays as it is. (Request and answer are one step: what happens in between to
\* the closure's EventSource may as well happen before. Ticks are five minutes
\* apart, a connect takes seconds: after a tick that closed the stream the next
\* one comes once it has opened again.)
RefreshToken(l) ==
  /\ tokenRefreshInterval[l]
  /\ IF Granted
     THEN /\ delayed[l] < MaxPending
          /\ delayed' = Inc(delayed, l)
          /\ tokenRefreshInterval' = [tokenRefreshInterval EXCEPT ![l] = FALSE]
          /\ Close(Held(l), conn)
          /\ sseToken' = [sseToken EXCEPT ![l] = "good"]
     ELSE UNCHANGED <<delayed, tokenRefreshInterval, conn, eventSource, sseClientIdRef,
                      sseToken>>
  /\ UNCHANGED <<life, up, isClosing, calls, reconnectTimeout,
                 wsConnected, view, sseSubTimer, bounds>>

RefreshConnect(l) ==
  /\ delayed[l] > 0
  /\ delayed' = Dec(delayed, l)
  /\ EnterConnect(l)
  /\ UNCHANGED <<life, up, isClosing, eventSource, sseToken,
                 reconnectTimeout, tokenRefreshInterval, conn,
                 wsConnected, view_vars, sseClientIdRef, bounds>>

\* The health check, every 30 s while the life lasts.
HealthCheck(l) ==
  /\ l = life
  /\ ~wsConnected /\ ~isClosing[l] /\ eventSource[l] = Closed
  /\ EnterConnect(l)
  /\ UNCHANGED <<life, up, isClosing, eventSource, sseToken,
                 reconnectTimeout, delayed, tokenRefreshInterval, conn,
                 wsConnected, view_vars, sseClientIdRef, bounds>>

\* The clean-up of a life: it clears the last retry, the interval and the
\* health check and closes the closure's EventSource. wsConnected stays.
CleanUp(l) ==
  /\ isClosing' = [isClosing EXCEPT ![l] = TRUE]
  /\ reconnectTimeout' = [reconnectTimeout EXCEPT ![l] = IF @ > 0 THEN @ - 1 ELSE 0]
  /\ tokenRefreshInterval' = [tokenRefreshInterval EXCEPT ![l] = FALSE]
  /\ Close(Held(l), conn)

\* The user object is replaced (preferences, profile): clean-up, a new life.
UserChanged ==
  /\ LoggedIn /\ life + 1 \in Lives
  /\ life' = life + 1
  /\ CleanUp(life)
  /\ calls' = [calls EXCEPT ![life + 1] = 1]
  /\ UNCHANGED <<up, sseToken, delayed, wsConnected, view,
                 sseSubTimer, bounds>>

\* The session ends: no token is granted any more.
Logout ==
  /\ LoggedIn
  /\ CleanUp(life)
  /\ UNCHANGED <<life, up, sseToken, calls, delayed, wsConnected, view,
                 sseSubTimer, bounds>>

-----------------------------------------------------------------------------
(* The page: which clusters it wants *)

\* Another cluster is selected, or one is expanded in the sidebar. The effect
\* starts the debounce, unless no stream was ever open.
ChangeView(v) ==
  /\ LoggedIn /\ v # view /\ changes < MaxChanges
  /\ changes' = changes + 1
  /\ view' = v
  /\ sseSubTimer' = IF sseClientIdRef = NoConn THEN sseSubTimer ELSE v
  /\ UNCHANGED <<life, up, life_vars, conn, wsConnected, sseClientIdRef, outages>>

\* The debounce ends and one request is sent, for the client known now. It is
\* lost, or refused, or finds no client (client_not_found), or sets the filter.
UpdateSubscription ==
  LET k == sseClientIdRef
  IN  /\ sseSubTimer # NoView
      /\ sseSubTimer' = NoView
      /\ \/ UNCHANGED conn
         \/ /\ Granted /\ k # Closed
            /\ conn[k].st = "open" /\ conn[k].token = "good"
            /\ conn' = [conn EXCEPT ![k].clusters = sseSubTimer]
      /\ UNCHANGED <<life, up, life_vars, wsConnected, view, sseClientIdRef, bounds>>

-----------------------------------------------------------------------------
(* The server and the network *)

\* The server stops, or cannot be reached.
Down ==
  /\ up /\ outages < MaxOutages
  /\ up' = FALSE /\ outages' = outages + 1
  /\ UNCHANGED <<life, life_vars, conn, wsConnected, view_vars,
                 sseClientIdRef, changes>>

\* It answers again. After a restart it knows neither the tokens nor the
\* clients of before; a stream that page still takes for open is broken.
Up(restarted) ==
  /\ ~up /\ up' = TRUE
  /\ IF restarted
     THEN /\ sseToken' = [l \in Lives |-> IF sseToken[l] = "none" THEN "none" ELSE "bad"]
          /\ conn' = [k \in Conns |-> IF conn[k] = NoObject THEN NoObject
                                    ELSE [conn[k] EXCEPT !.token = "bad"]]
     ELSE UNCHANGED <<sseToken, conn>>
  /\ UNCHANGED <<life, isClosing, eventSource, calls, reconnectTimeout,
                 delayed, tokenRefreshInterval, wsConnected, view_vars,
                 sseClientIdRef, bounds>>

Callback(l) ==
  \/ ConnectSSE(l) \/ Reconnect(l) \/ RefreshToken(l) \/ RefreshConnect(l)

Next ==
  \/ \E l \in Lives : Callback(l) \/ HealthCheck(l)
  \/ \E k \in Conns : OnOpen(k) \/ OnError(k)
  \/ UserChanged \/ Logout
  \/ \E v \in Views : ChangeView(v)
  \/ UpdateSubscription
  \/ Down \/ \E restarted \in BOOLEAN : Up(restarted)

\* Timers fire, requests are answered or fail, a stream opens or fails; users
\* and outages owe nothing.
Fairness ==
  /\ \A l \in Lives : /\ WF_vars(ConnectSSE(l)) /\ WF_vars(Reconnect(l))
                      /\ WF_vars(RefreshToken(l)) /\ WF_vars(RefreshConnect(l))
  /\ \A k \in Conns : WF_vars(OnOpen(k)) /\ WF_vars(OnError(k))
  /\ WF_vars(UpdateSubscription)

Spec == Init /\ [][Next]_vars /\ Fairness

-----------------------------------------------------------------------------
(* Properties *)

\* A live page never stops trying: when the EventSource a life works with has
\* been closed, by its error handler, by the handler of a forgotten connection
\* or by the token refresh, a retry, a delayed connect or a connectSSE that
\* awaits its token is pending. (The health check is only a second line.)
ClosedMeansRetry ==
  eventSource[life] = Closed /\ ~isClosing[life]
    => reconnectTimeout[life] + delayed[life] + calls[life] > 0

\* the EventSources of life l that a step opens
Opened(l) == {k \in Conns : conn[k] = NoObject /\ conn'[k] # NoObject /\ conn'[k].life = l}

\* After its clean-up a life is quiet: no timer that was not cleared and no
\* error starts another connectSSE or schedules another retry, and every
\* EventSource the life still opens uses up a call that awaited its token when
\* the clean-up ran. (isClosing is not looked at after that await: such a call
\* does open one.)
ClosedLifeIsQuiet ==
  [][\A l \in Lives : isClosing[l]
       => /\ isClosing'[l]
          /\ reconnectTimeout'[l] <= reconnectTimeout[l]
          /\ Cardinality(Opened(l)) <= calls[l] - calls'[l]]_vars

\* The life goes on, its first token request was answered, the server stays up,
\* and the bound on the EventSource objects does not keep the page from connecting.
Stable == Granted /\ eventSource[life] # NoConn /\ Unused # {}

\* Whatever failed before, the stream of a life that once had an EventSource is
\* open again and again, and the page shows it.
Reconnects ==
  <>[]Stable =>
    []<>(/\ wsConnected
         /\ \E k \in Conns : conn[k].st = "open" /\ conn[k].life = life)

\* A subscription request may go to a client that no longer exists, or be lost, or
\* not be sent at all while the first stream opens; yet a page that keeps its view ends up subscribed to it,
\* because every token refresh connects with the view of the moment.
Covered ==
  <>[]Stable /\ <>[][UNCHANGED view]_vars =>
    <>[](eventSource[life] \in Conns => conn[eventSource[life]].clusters = view)
=============================================================================
