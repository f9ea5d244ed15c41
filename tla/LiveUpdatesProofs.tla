--------------------------- MODULE LiveUpdatesProofs ---------------------------
(* Theorems about LiveUpdates, for any number of lives, EventSource objects,    *)
(* outages and changes of the view.                                             *)
EXTENDS LiveUpdates, FiniteSetTheorems, TLAPS

Objects == [Conns -> Conn \cup {NoObject}]
Counts == [Lives -> 0 .. MaxPending]
Retries == [Lives -> 0 .. MaxRetries]

LEMMA IncType ==
  ASSUME NEW f \in Counts, NEW l \in Lives, f[l] < MaxPending
  PROVE  Inc(f, l) \in Counts
BY BoundsAssumption DEF Inc, Counts

LEMMA DecType ==
  ASSUME NEW f \in Counts, NEW l \in Lives, f[l] > 0
  PROVE  Dec(f, l) \in Counts
BY BoundsAssumption DEF Dec, Counts

LEMMA IncRetries ==
  ASSUME NEW f \in Retries, NEW l \in Lives, f[l] < MaxRetries
  PROVE  Inc(f, l) \in Retries
BY BoundsAssumption DEF Inc, Retries

LEMMA DecRetries ==
  ASSUME NEW f \in Retries, NEW l \in Lives, f[l] > 0
  PROVE  Dec(f, l) \in Retries
BY BoundsAssumption DEF Dec, Retries

LEMMA CloseType ==
  ASSUME TypeOK, NEW K, NEW after \in Objects, Close(K, after)
  PROVE  /\ conn' \in Objects
         /\ eventSource' \in [Lives -> Conns \cup {NoConn, Closed}]
         /\ sseClientIdRef' \in Conns \cup {NoConn, Closed}
BY DEF Close, TypeOK, Objects

LEMMA EnterConnectType ==
  ASSUME TypeOK, NEW l \in Lives, EnterConnect(l)
  PROVE  calls' \in Counts
BY IncType DEF EnterConnect, TypeOK, Counts

LEMMA NewTokenType ==
  ASSUME TypeOK, NEW l \in Lives
  PROVE  NewToken(l) \in {"none", "good", "bad"}
BY DEF NewToken, TypeOK

LEMMA ConnectType == ASSUME TypeOK, NEW l \in Lives, ConnectSSE(l) PROVE TypeOK'
<1>1. calls' \in Counts
  BY DecType DEF ConnectSSE, TypeOK, Counts
<1>2. sseToken' \in [Lives -> {"none", "good", "bad"}]
  BY NewTokenType DEF ConnectSSE, TypeOK
<1>3. CASE NewToken(l) = "none"
  BY <1>1, <1>2, <1>3 DEF ConnectSSE, TypeOK, view_vars, bounds, Counts
<1>4. CASE NewToken(l) # "none"
  <2>1. NewConn \in Conns
    BY <1>4 DEF ConnectSSE, NewConn, Unused
  <2>2. [st |-> "connecting", life |-> l, token |-> NewToken(l), clusters |-> view] \in Conn
    BY <1>4, NewTokenType DEF Conn, TypeOK
  <2>3. /\ conn' \in [Conns -> Conn \cup {NoObject}]
        /\ eventSource' \in [Lives -> Conns \cup {NoConn, Closed}]
    BY <1>4, <2>1, <2>2 DEF ConnectSSE, TypeOK
  <2> QED
    BY <1>1, <1>2, <2>3 DEF ConnectSSE, TypeOK, view_vars, bounds, Counts
<1> QED
  BY <1>3, <1>4

LEMMA IsConn ==
  ASSUME TypeOK, NEW k \in Conns, conn[k].st \in {"connecting", "open"}
  PROVE  conn[k] \in Conn /\ conn[k].life \in Lives
BY DEF TypeOK, Conn, NoObject

LEMMA OpenType == ASSUME TypeOK, NEW k \in Conns, OnOpen(k) PROVE TypeOK'
<1>1. conn[k] \in Conn /\ conn[k].life \in Lives
  BY IsConn DEF OnOpen
<1>2. [conn[k] EXCEPT !.st = "open"] \in Conn
  BY <1>1 DEF Conn
<1>3. conn' \in [Conns -> Conn \cup {NoObject}]
  BY <1>2 DEF OnOpen, TypeOK
<1>4. tokenRefreshInterval' \in [Lives -> BOOLEAN]
  BY <1>1 DEF OnOpen, TypeOK
<1> QED
  BY <1>3, <1>4 DEF OnOpen, TypeOK, view_vars, bounds

\* what an error event finds, and leaves of the failed connection
LEMMA ErrorAt ==
  ASSUME TypeOK, NEW k \in Conns, OnError(k)
  PROVE  /\ conn[k] \in Conn /\ conn[k].life \in Lives
         /\ [conn EXCEPT ![k].st = "connecting"] \in Objects
<1>1. conn[k] \in Conn /\ conn[k].life \in Lives
  BY IsConn DEF OnError
<1>2. [conn[k] EXCEPT !.st = "connecting"] \in Conn
  BY <1>1 DEF Conn
<1> QED
  BY <1>1, <1>2 DEF TypeOK, Objects

LEMMA ErrorType == ASSUME TypeOK, NEW k \in Conns, OnError(k) PROVE TypeOK'
<1>1. /\ conn' \in Objects
      /\ eventSource' \in [Lives -> Conns \cup {NoConn, Closed}]
      /\ sseClientIdRef' \in Conns \cup {NoConn, Closed}
  BY ErrorAt, CloseType DEF OnError
<1>2. reconnectTimeout' \in Retries
  <2>1. reconnectTimeout \in Retries /\ conn[k].life \in Lives
    BY ErrorAt DEF TypeOK, Retries
  <2>2. \/ UNCHANGED reconnectTimeout
        \/ /\ reconnectTimeout[conn[k].life] < MaxRetries
           /\ reconnectTimeout' = Inc(reconnectTimeout, conn[k].life)
    BY DEF OnError
  <2> QED
    BY <2>1, <2>2, IncRetries
<1> QED
  BY <1>1, <1>2 DEF OnError, TypeOK, bounds, Objects, Retries

LEMMA ReconnectType == ASSUME TypeOK, NEW l \in Lives, Reconnect(l) PROVE TypeOK'
<1>1. reconnectTimeout' \in Retries /\ calls' \in Counts
  BY DecRetries, EnterConnectType DEF Reconnect, TypeOK, Retries
<1>2. sseToken' \in [Lives -> {"none", "good", "bad"}]
  BY NewTokenType DEF Reconnect, TypeOK
<1> QED
  BY <1>1, <1>2 DEF Reconnect, TypeOK, view_vars, bounds, Counts, Retries

LEMMA RefreshType == ASSUME TypeOK, NEW l \in Lives, RefreshToken(l) PROVE TypeOK'
<1>1. CASE Granted
  <2>1. /\ conn' \in Objects
        /\ eventSource' \in [Lives -> Conns \cup {NoConn, Closed}]
        /\ sseClientIdRef' \in Conns \cup {NoConn, Closed}
    BY <1>1, CloseType DEF RefreshToken, TypeOK, Objects
  <2>2. delayed' \in Counts
    BY <1>1, IncType DEF RefreshToken, TypeOK, Counts
  <2> QED
    BY <1>1, <2>1, <2>2 DEF RefreshToken, TypeOK, bounds, Objects, Counts
<1>2. CASE ~Granted
  BY <1>2 DEF RefreshToken, TypeOK, bounds
<1> QED
  BY <1>1, <1>2

LEMMA CleanUpType ==
  ASSUME TypeOK, NEW l \in Lives, CleanUp(l)
  PROVE  /\ isClosing' \in [Lives -> BOOLEAN]
         /\ reconnectTimeout' \in Retries
         /\ tokenRefreshInterval' \in [Lives -> BOOLEAN]
         /\ conn' \in Objects
         /\ eventSource' \in [Lives -> Conns \cup {NoConn, Closed}]
         /\ sseClientIdRef' \in Conns \cup {NoConn, Closed}
<1>1. reconnectTimeout' \in Retries
  BY BoundsAssumption DEF CleanUp, TypeOK, Retries
<1> QED
  BY <1>1, CloseType DEF CleanUp, TypeOK, Objects

LEMMA UserChangedType == ASSUME TypeOK, UserChanged PROVE TypeOK'
<1>1. calls' \in Counts
  BY BoundsAssumption DEF UserChanged, TypeOK, Counts
<1> QED
  BY <1>1, CleanUpType DEF UserChanged, TypeOK, bounds, Objects, Counts, Retries

LEMMA SubscriptionType == ASSUME TypeOK, UpdateSubscription PROVE TypeOK'
<1>1. CASE UNCHANGED conn
  BY <1>1 DEF UpdateSubscription, TypeOK, life_vars, bounds
<1>2. CASE ~UNCHANGED conn
  <2>1. sseClientIdRef # Closed /\ conn[sseClientIdRef].st = "open"
    BY <1>2 DEF UpdateSubscription
  <2>2. CASE sseClientIdRef \in Conns
    <3>1. conn[sseClientIdRef] \in Conn
      BY <2>1, <2>2, IsConn
    <3>2. [conn[sseClientIdRef] EXCEPT !.clusters = sseSubTimer] \in Conn
      BY <3>1 DEF UpdateSubscription, TypeOK, Conn
    <3>3. conn' \in [Conns -> Conn \cup {NoObject}]
      BY <1>2, <3>2 DEF UpdateSubscription, TypeOK
    <3> QED
      BY <3>3 DEF UpdateSubscription, TypeOK, life_vars, bounds
  <2>3. CASE sseClientIdRef = NoConn
    <3>1. conn' = conn
      BY <1>2, <2>3, ValuesAssumption DEF UpdateSubscription, TypeOK
    <3> QED
      BY <1>2, <3>1
  <2> QED
    BY <2>1, <2>2, <2>3 DEF TypeOK
<1> QED
  BY <1>1, <1>2

LEMMA UpType == ASSUME TypeOK, NEW restarted \in BOOLEAN, Up(restarted) PROVE TypeOK'
<1>1. CASE restarted
  <2>1. \A k \in Conns : conn[k] # NoObject => [conn[k] EXCEPT !.token = "bad"] \in Conn
    BY DEF TypeOK, Conn
  <2>2. conn' \in [Conns -> Conn \cup {NoObject}]
    BY <1>1, <2>1 DEF Up
  <2>3. sseToken' \in [Lives -> {"none", "good", "bad"}]
    BY <1>1 DEF Up
  <2> QED
    BY <2>2, <2>3 DEF Up, TypeOK, view_vars, bounds
<1>2. CASE ~restarted
  BY <1>2 DEF Up, TypeOK, view_vars, bounds
<1> QED
  BY <1>1, <1>2

LEMMA InitType == ASSUME Init PROVE TypeOK
<1>1. 1 \in Lives /\ 0 \in 0 .. MaxPending /\ 1 \in 0 .. MaxPending /\ 0 \in 0 .. MaxRetries
      /\ 0 \in 0 .. MaxOutages /\ 0 \in 0 .. MaxChanges
  BY LivesAssumption, BoundsAssumption DEF Lives
<1>2. calls \in Counts /\ reconnectTimeout \in Retries /\ delayed \in Counts
  BY <1>1 DEF Init, Counts, Retries
<1>3. conn \in Objects
  BY DEF Init, Objects
<1> QED
  BY <1>1, <1>2, <1>3, ValuesAssumption DEF Init, TypeOK, Counts, Retries, Objects

LEMMA NextType == ASSUME TypeOK, [Next]_vars PROVE TypeOK'
<1>1. CASE UNCHANGED vars
  BY <1>1 DEF vars, life_vars, view_vars, bounds, TypeOK
<1>2. ASSUME NEW l \in Lives, Callback(l) PROVE TypeOK'
  <2>1. CASE RefreshConnect(l)
    <3>1. delayed' \in Counts /\ calls' \in Counts
      BY <2>1, DecType, EnterConnectType DEF RefreshConnect, TypeOK, Counts
    <3> QED
      BY <2>1, <3>1 DEF RefreshConnect, TypeOK, view_vars, bounds, Counts
  <2> QED
    BY <1>2, <2>1, ConnectType, ReconnectType, RefreshType DEF Callback
<1>3. ASSUME NEW l \in Lives, HealthCheck(l) PROVE TypeOK'
  BY <1>3, EnterConnectType DEF HealthCheck, TypeOK, view_vars, bounds, Counts
<1>4. ASSUME NEW k \in Conns, OnOpen(k) \/ OnError(k) PROVE TypeOK'
  BY <1>4, OpenType, ErrorType
<1>5. CASE UserChanged
  BY <1>5, UserChangedType
<1>6. CASE Logout
  BY <1>6, CleanUpType DEF Logout, TypeOK, bounds, Objects, Retries
<1>7. ASSUME NEW v \in Views, ChangeView(v) PROVE TypeOK'
  <2>1. changes' \in 0 .. MaxChanges
    BY <1>7, BoundsAssumption DEF ChangeView, TypeOK
  <2> QED
    BY <1>7, <2>1 DEF ChangeView, TypeOK, life_vars
<1>8. CASE UpdateSubscription
  BY <1>8, SubscriptionType
<1>9. CASE Down
  <2>1. outages' \in 0 .. MaxOutages
    BY <1>9, BoundsAssumption DEF Down, TypeOK
  <2> QED
    BY <1>9, <2>1 DEF Down, TypeOK, life_vars, view_vars
<1>10. ASSUME NEW restarted \in BOOLEAN, Up(restarted) PROVE TypeOK'
  BY <1>10, UpType
<1> QED
  BY <1>1, <1>2, <1>3, <1>4, <1>5, <1>6, <1>7, <1>8, <1>9, <1>10 DEF Next

\* Every variable keeps its type: no handler clears a timer that is not there, and
\* no connection is used that has been closed.
THEOREM Typing == Spec => []TypeOK
BY InitType, NextType, PTL DEF Spec

--------------------------------------------------------------------------------

(* A later life has not begun to close.                                         *)
Later == \A l \in Lives : l > life => ~isClosing[l]

LEMMA LaterNext == ASSUME TypeOK, Later, [Next]_vars PROVE Later'
<1>1. CASE UNCHANGED <<life, isClosing>>
  BY <1>1 DEF Later
<1>2. CASE UserChanged
  BY <1>2 DEF UserChanged, CleanUp, Later, TypeOK, Lives
<1>3. CASE Logout
  BY <1>3 DEF Logout, CleanUp, Later, TypeOK, Lives
<1> QED
  BY <1>1, <1>2, <1>3
     DEF Next, vars, life_vars, Callback, ConnectSSE, Reconnect, RefreshToken, RefreshConnect,
         HealthCheck, OnOpen, OnError, ChangeView, UpdateSubscription, Down, Up

LEMMA LaterAlways == Spec => [](TypeOK /\ Later)
<1>1. Init => Later
  BY DEF Init, Later
<1>2. TypeOK /\ Later /\ [Next]_vars => Later'
  BY LaterNext
<1> QED
  BY <1>1, <1>2, Typing, PTL DEF Spec

\* what a step must not do to a closed life
Quiet(l) ==
  /\ isClosing'[l]
  /\ reconnectTimeout'[l] <= reconnectTimeout[l]
  /\ Cardinality(Opened(l)) <= calls[l] - calls'[l]

\* The ways in which a step is quiet: it opens nothing of the life and starts no
\* call, or it opens one object and ends a call.
LEMMA OpensNothing ==
  ASSUME TypeOK, NEW q \in Lives, calls'[q] = calls[q],
         \A k \in Conns : conn[k] = NoObject => conn'[k] = NoObject
  PROVE  Cardinality(Opened(q)) <= calls[q] - calls'[q]
<1>1. Opened(q) = {}
  BY DEF Opened
<1>2. calls[q] \in Nat
  BY BoundsAssumption DEF TypeOK
<1> QED
  BY <1>1, <1>2, FS_EmptySet

LEMMA OpensOne ==
  ASSUME TypeOK, NEW q \in Lives, calls[q] > 0, calls'[q] = calls[q] - 1, NEW n,
         \A k \in Conns : k # n /\ conn[k] = NoObject => conn'[k] = NoObject
  PROVE  Cardinality(Opened(q)) <= calls[q] - calls'[q]
<1>1. Opened(q) \subseteq {n}
  BY DEF Opened
<1>2. IsFiniteSet({n}) /\ Cardinality({n}) = 1
  BY FS_Singleton
<1>3. Cardinality(Opened(q)) <= 1
  BY <1>1, <1>2, FS_Subset
<1>4. calls[q] \in Nat
  BY BoundsAssumption DEF TypeOK
<1> QED
  BY <1>3, <1>4

\* Closing objects opens none.
LEMMA CloseOpensNothing ==
  ASSUME NEW K, NEW after, Close(K, after),
         \A k \in Conns : conn[k] = NoObject => after[k] = NoObject
  PROVE  \A k \in Conns : conn[k] = NoObject => conn'[k] = NoObject
BY DEF Close

LEMMA EnterQuiet ==
  ASSUME TypeOK, NEW l \in Lives, EnterConnect(l), NEW q \in Lives, isClosing[q]
  PROVE  calls'[q] = calls[q]
BY DEF EnterConnect, Inc, TypeOK

LEMMA CleanUpQuiet ==
  ASSUME TypeOK, NEW l \in Lives, CleanUp(l), NEW q \in Lives, isClosing[q]
  PROVE  /\ isClosing'[q] /\ reconnectTimeout'[q] <= reconnectTimeout[q]
         /\ \A k \in Conns : conn[k] = NoObject => conn'[k] = NoObject
<1>1. isClosing'[q] /\ reconnectTimeout'[q] <= reconnectTimeout[q]
  BY BoundsAssumption DEF CleanUp, TypeOK
<1> QED
  BY <1>1, CloseOpensNothing DEF CleanUp

LEMMA ConnectQuiet ==
  ASSUME TypeOK, NEW l \in Lives, ConnectSSE(l), NEW q \in Lives, isClosing[q]
  PROVE  Quiet(q)
<1>1. isClosing'[q] /\ reconnectTimeout'[q] <= reconnectTimeout[q]
  BY BoundsAssumption DEF ConnectSSE, TypeOK
<1>2. \A k \in Conns : k # NewConn /\ conn[k] = NoObject => conn'[k] = NoObject
  BY DEF ConnectSSE, TypeOK
<1>3. CASE q = l
  <2>1. calls[q] > 0 /\ calls'[q] = calls[q] - 1
    BY <1>3 DEF ConnectSSE, Dec, TypeOK
  <2> QED
    BY <1>1, <1>2, <2>1, OpensOne DEF Quiet
<1>4. CASE q # l
  <2>1. calls'[q] = calls[q]
    BY <1>4 DEF ConnectSSE, Dec, TypeOK
  <2>2. Opened(q) = {}
    <3>1. CASE NewToken(l) = "none"
      BY <3>1 DEF ConnectSSE, Opened
    <3>2. CASE NewToken(l) # "none"
      <4>1. NewConn \in Conns
        BY <3>2 DEF ConnectSSE, NewConn, Unused
      <4>2. conn'[NewConn].life = l
        BY <3>2, <4>1 DEF ConnectSSE, TypeOK
      <4> QED
        BY <1>2, <1>4, <4>2 DEF Opened
    <3> QED
      BY <3>1, <3>2
  <2>3. calls[q] \in Nat
    BY BoundsAssumption DEF TypeOK
  <2> QED
    BY <1>1, <2>1, <2>2, <2>3, FS_EmptySet DEF Quiet
<1> QED
  BY <1>3, <1>4

LEMMA StepQuiet ==
  ASSUME TypeOK, Later, [Next]_vars, NEW q \in Lives, isClosing[q]
  PROVE  Quiet(q)
<1>0. reconnectTimeout[q] \in Nat /\ reconnectTimeout[q] <= reconnectTimeout[q]
  BY BoundsAssumption DEF TypeOK
<1>1. ASSUME UNCHANGED <<isClosing, calls, reconnectTimeout>>,
             \A k \in Conns : conn[k] = NoObject => conn'[k] = NoObject
      PROVE  Quiet(q)
  BY <1>0, <1>1, OpensNothing DEF Quiet
<1>2. ASSUME NEW l \in Lives, Callback(l) \/ HealthCheck(l) PROVE Quiet(q)
  <2>1. CASE ConnectSSE(l)
    BY <2>1, ConnectQuiet
  <2>2. CASE Reconnect(l)
    <3>1. reconnectTimeout'[q] <= reconnectTimeout[q]
      BY <1>0, <2>2 DEF Reconnect, Dec, TypeOK
    <3> QED
      BY <2>2, <3>1, EnterQuiet, OpensNothing DEF Reconnect, Quiet
  <2>3. CASE RefreshToken(l)
    BY <1>1, <2>3, CloseOpensNothing DEF RefreshToken
  <2>4. CASE RefreshConnect(l)
    BY <1>0, <2>4, EnterQuiet, OpensNothing DEF RefreshConnect, Quiet
  <2>5. CASE HealthCheck(l)
    BY <1>0, <2>5, EnterQuiet, OpensNothing DEF HealthCheck, Quiet
  <2> QED
    BY <1>2, <2>1, <2>2, <2>3, <2>4, <2>5 DEF Callback
<1>3. ASSUME NEW k \in Conns, OnError(k) PROVE Quiet(q)
  <2>1. reconnectTimeout'[q] = reconnectTimeout[q]
    BY <1>3, ErrorAt DEF OnError, Inc, TypeOK
  <2>2. \A j \in Conns : conn[j] = NoObject => [conn EXCEPT ![k].st = "connecting"][j] = NoObject
    <3>1. conn[k] # NoObject
      <4>1. conn[k].st # NoObject.st
        BY <1>3 DEF OnError, NoObject
      <4> QED
        BY <4>1
    <3> QED
      BY <3>1 DEF TypeOK
  <2>3. \A j \in Conns : conn[j] = NoObject => conn'[j] = NoObject
    BY <1>3, <2>2, CloseOpensNothing DEF OnError
  <2> QED
    BY <1>0, <1>3, <2>1, <2>3, OpensNothing DEF OnError, Quiet
<1>4. CASE UserChanged
  <2>1. q # life + 1
    BY <1>4 DEF UserChanged, Later, TypeOK, Lives
  <2>2. calls'[q] = calls[q]
    BY <1>4, <2>1 DEF UserChanged, TypeOK
  <2> QED
    BY <1>4, <2>2, CleanUpQuiet, OpensNothing DEF UserChanged, Quiet, TypeOK
<1>5. CASE Logout
  BY <1>5, CleanUpQuiet, OpensNothing DEF Logout, Quiet, TypeOK
<1>6. ASSUME NEW k \in Conns, OnOpen(k) PROVE Quiet(q)
  <2>1. conn[k] # NoObject
    <3>1. conn[k].st # NoObject.st
      BY <1>6 DEF OnOpen, NoObject
    <3> QED
      BY <3>1
  <2>2. \A j \in Conns : conn[j] = NoObject => conn'[j] = NoObject
    BY <1>6, <2>1 DEF OnOpen, TypeOK
  <2> QED
    BY <1>1, <1>6, <2>2 DEF OnOpen
<1>7. CASE UpdateSubscription
  <2>1. \A j \in Conns : conn[j] = NoObject => conn'[j] = NoObject
    <3>1. CASE conn' = [conn EXCEPT ![sseClientIdRef].clusters = sseSubTimer]
               /\ conn[sseClientIdRef].st = "open"
      <4>1. conn[sseClientIdRef] # NoObject
        BY <3>1 DEF NoObject
      <4> QED
        BY <3>1, <4>1 DEF TypeOK
    <3> QED
      BY <1>7, <3>1 DEF UpdateSubscription
  <2> QED
    BY <1>1, <1>7, <2>1 DEF UpdateSubscription, life_vars
<1>8. ASSUME NEW restarted \in BOOLEAN, Up(restarted) PROVE Quiet(q)
  BY <1>1, <1>8 DEF Up
<1>9. CASE UNCHANGED <<life_vars, conn>>
  BY <1>1, <1>9 DEF life_vars
<1> QED
  BY <1>2, <1>3, <1>4, <1>5, <1>6, <1>7, <1>8, <1>9 DEF Next, vars, ChangeView, Down

\* After its clean-up a life schedules no retry, and opens no more EventSources than
\* it had calls of connectSSE awaiting a token at the clean-up.
THEOREM QuietAfterCleanUp == Spec => ClosedLifeIsQuiet
<1>1. TypeOK /\ Later /\ [Next]_vars
        => [\A l \in Lives : isClosing[l]
              => /\ isClosing'[l]
                 /\ reconnectTimeout'[l] <= reconnectTimeout[l]
                 /\ Cardinality(Opened(l)) <= calls[l] - calls'[l]]_vars
  BY StepQuiet DEF Quiet
<1> QED
  BY <1>1, LaterAlways, PTL DEF Spec, ClosedLifeIsQuiet

--------------------------------------------------------------------------------

(* What a life's variable holds is an open or connecting object of that life, and *)
(* a life that has had an EventSource has had a token.                            *)
Owned ==
  \A l \in Lives : eventSource[l] \in Conns =>
    conn[eventSource[l]] # NoObject /\ conn[eventSource[l]].life = l

HasToken == \A l \in Lives : eventSource[l] # NoConn => sseToken[l] # "none"

Pending(l) == reconnectTimeout[l] + delayed[l] + calls[l] > 0

Trying == Owned /\ HasToken /\ ClosedMeansRetry

\* Closing objects leaves the variables that held others alone.
LEMMA CloseKeeps ==
  ASSUME TypeOK, Owned, NEW K \in SUBSET Conns, NEW after \in Objects, Close(K, after),
         \A k \in Conns : conn[k] # NoObject
            => after[k] # NoObject /\ after[k].life = conn[k].life
  PROVE  /\ Owned'
         /\ \A l \in Lives : eventSource[l] \notin K => eventSource'[l] = eventSource[l]
         /\ \A l \in Lives : eventSource'[l] = NoConn <=> eventSource[l] = NoConn
<1>1. \A l \in Lives : eventSource'[l] = IF eventSource[l] \in K THEN Closed ELSE eventSource[l]
  BY DEF Close
<1>2. \A l \in Lives : eventSource[l] \notin K /\ eventSource[l] \in Conns
        => conn'[eventSource[l]] = after[eventSource[l]]
  BY DEF Close
<1>3. Owned'
  BY <1>1, <1>2, ValuesAssumption DEF Owned
<1>4. \A l \in Lives : eventSource'[l] = NoConn <=> eventSource[l] = NoConn
  BY <1>1, ValuesAssumption
<1> QED
  BY <1>1, <1>3, <1>4

LEMMA EnterPending ==
  ASSUME TypeOK, NEW l \in Lives, EnterConnect(l), ~isClosing[l]
  PROVE  calls'[l] = calls[l] + 1 /\ \A q \in Lives : q # l => calls'[q] = calls[q]
BY DEF EnterConnect, Inc, TypeOK

LEMMA PendingType ==
  ASSUME TypeOK, NEW l \in Lives
  PROVE  calls[l] \in Nat /\ reconnectTimeout[l] \in Nat /\ delayed[l] \in Nat
BY BoundsAssumption DEF TypeOK

LEMMA NewTokenSome ==
  ASSUME TypeOK, HasToken, NEW l \in Lives, eventSource[l] # NoConn
  PROVE  NewToken(l) # "none"
BY DEF NewToken, HasToken

LEMMA ConnectTrying ==
  ASSUME TypeOK, Trying, NEW l \in Lives, ConnectSSE(l)
  PROVE  Trying'
<1>0. \A q \in Lives : q # l => calls'[q] = calls[q] /\ sseToken'[q] = sseToken[q]
  BY DEF ConnectSSE, Dec, TypeOK
<1>1. sseToken'[l] = NewToken(l)
  BY DEF ConnectSSE, TypeOK
<1>2. CASE NewToken(l) = "none"
  <2>1. eventSource[l] = NoConn
    BY <1>2, NewTokenSome DEF Trying
  <2>2. UNCHANGED <<eventSource, conn, life, isClosing, reconnectTimeout, delayed>>
    BY <1>2 DEF ConnectSSE
  <2>3. Owned' /\ HasToken'
    BY <1>0, <2>1, <2>2 DEF Trying, Owned, HasToken
  <2>4. ClosedMeansRetry'
    BY <1>0, <2>1, <2>2, ValuesAssumption DEF Trying, ClosedMeansRetry, TypeOK
  <2> QED
    BY <2>3, <2>4 DEF Trying
<1>3. CASE NewToken(l) # "none"
  <2>1. NewConn \in Unused
    BY <1>3 DEF ConnectSSE, NewConn
  <2>2. NewConn \in Conns /\ conn[NewConn] = NoObject
    BY <2>1 DEF Unused
  <2>3. /\ eventSource'[l] = NewConn
        /\ \A q \in Lives : q # l => eventSource'[q] = eventSource[q]
    BY <1>3 DEF ConnectSSE, TypeOK
  <2>4. /\ conn'[NewConn].life = l /\ conn'[NewConn] # NoObject
        /\ \A k \in Conns : k # NewConn => conn'[k] = conn[k]
    <3>1. conn'[NewConn] = [st |-> "connecting", life |-> l, token |-> NewToken(l),
                            clusters |-> view]
      BY <1>3, <2>2 DEF ConnectSSE, TypeOK
    <3>2. conn'[NewConn].st # NoObject.st
      BY <3>1 DEF NoObject
    <3> QED
      BY <1>3, <2>2, <3>1, <3>2 DEF ConnectSSE, TypeOK
  <2>5. \A q \in Lives : eventSource[q] # NewConn
    BY <2>2 DEF Trying, Owned
  <2>6. Owned'
    BY <2>2, <2>3, <2>4, <2>5 DEF Trying, Owned
  <2>7. HasToken'
    BY <1>0, <1>1, <1>3, <2>3 DEF Trying, HasToken
  <2>8. ClosedMeansRetry'
    BY <1>0, <2>2, <2>3, ValuesAssumption DEF ConnectSSE, Trying, ClosedMeansRetry, TypeOK
  <2> QED
    BY <2>6, <2>7, <2>8 DEF Trying
<1> QED
  BY <1>2, <1>3

LEMMA ReconnectTrying ==
  ASSUME TypeOK, Trying, NEW l \in Lives, Reconnect(l)
  PROVE  Trying'
<1>1. \A q \in Lives : sseToken[q] # "none" => sseToken'[q] # "none"
  BY DEF Reconnect, NewToken, TypeOK
<1>2. ClosedMeansRetry'
  <2>1. CASE l = life /\ ~isClosing[l]
    BY <2>1, EnterPending, PendingType DEF Reconnect, Dec, ClosedMeansRetry, TypeOK
  <2>2. CASE l = life /\ isClosing[l]
    BY <2>2 DEF Reconnect, ClosedMeansRetry
  <2>3. CASE l # life
    BY <2>3 DEF Reconnect, EnterConnect, Inc, Dec, Trying, ClosedMeansRetry, TypeOK
  <2> QED
    BY <2>1, <2>2, <2>3
<1> QED
  BY <1>1, <1>2 DEF Reconnect, Trying, Owned, HasToken

LEMMA RefreshConnectTrying ==
  ASSUME TypeOK, Trying, NEW l \in Lives, RefreshConnect(l)
  PROVE  Trying'
<1>1. ClosedMeansRetry'
  <2>1. CASE l = life /\ ~isClosing[l]
    BY <2>1, EnterPending, PendingType DEF RefreshConnect, Dec, ClosedMeansRetry, TypeOK
  <2>2. CASE l = life /\ isClosing[l]
    BY <2>2 DEF RefreshConnect, ClosedMeansRetry
  <2>3. CASE l # life
    BY <2>3 DEF RefreshConnect, EnterConnect, Inc, Dec, Trying, ClosedMeansRetry, TypeOK
  <2> QED
    BY <2>1, <2>2, <2>3
<1> QED
  BY <1>1 DEF RefreshConnect, Trying, Owned, HasToken

LEMMA HealthTrying ==
  ASSUME TypeOK, Trying, NEW l \in Lives, HealthCheck(l)
  PROVE  Trying'
<1>1. ClosedMeansRetry'
  BY EnterPending, PendingType DEF HealthCheck, ClosedMeansRetry, TypeOK
<1> QED
  BY <1>1 DEF HealthCheck, Trying, Owned, HasToken

LEMMA RefreshTrying ==
  ASSUME TypeOK, Trying, NEW l \in Lives, RefreshToken(l)
  PROVE  Trying'
<1>1. CASE Granted
  <2>1. Held(l) \in SUBSET Conns /\ conn \in Objects
    BY DEF Held, TypeOK, Objects
  <2>2. /\ Owned'
        /\ \A q \in Lives : eventSource[q] \notin Held(l) => eventSource'[q] = eventSource[q]
        /\ \A q \in Lives : eventSource'[q] = NoConn <=> eventSource[q] = NoConn
    BY <1>1, <2>1, CloseKeeps DEF RefreshToken, Trying
  <2>3. \A q \in Lives : q # l => eventSource[q] \notin Held(l)
    BY DEF Held, Trying, Owned
  <2>4. HasToken'
    BY <1>1, <2>2 DEF RefreshToken, Trying, HasToken, TypeOK
  <2>5. ClosedMeansRetry'
    <3>1. CASE l = life
      <4>1. delayed'[life] = delayed[life] + 1
        BY <1>1, <3>1 DEF RefreshToken, Inc, TypeOK
      <4> QED
        BY <1>1, <3>1, <4>1, PendingType DEF RefreshToken, ClosedMeansRetry, TypeOK
    <3>2. CASE l # life
      <4>1. eventSource'[life] = eventSource[life] /\ delayed'[life] = delayed[life]
        BY <1>1, <2>2, <2>3, <3>2 DEF RefreshToken, Inc, TypeOK
      <4> QED
        BY <1>1, <4>1 DEF RefreshToken, Trying, ClosedMeansRetry
    <3> QED
      BY <3>1, <3>2
  <2> QED
    BY <2>2, <2>4, <2>5 DEF Trying
<1>2. CASE ~Granted
  BY <1>2 DEF RefreshToken, Trying, Owned, HasToken, ClosedMeansRetry
<1> QED
  BY <1>1, <1>2

LEMMA ErrorTrying ==
  ASSUME TypeOK, Trying, NEW k \in Conns, OnError(k)
  PROVE  Trying'
<1> DEFINE l == conn[k].life
<1>0. l \in Lives /\ conn[k] \in Conn /\ [conn EXCEPT ![k].st = "connecting"] \in Objects
  BY ErrorAt
<1>1. PICK K \in SUBSET Conns :
        Close(K, [conn EXCEPT ![k].st = "connecting"]) /\ K \subseteq Held(l) \cup {k}
  BY DEF OnError, Held
<1>2. \A j \in Conns : conn[j] # NoObject
        => /\ [conn EXCEPT ![k].st = "connecting"][j] # NoObject
           /\ [conn EXCEPT ![k].st = "connecting"][j].life = conn[j].life
  <2>1. [conn[k] EXCEPT !.st = "connecting"].life = l
    BY <1>0 DEF Conn
  <2>2. [conn[k] EXCEPT !.st = "connecting"] # NoObject
    <3>1. [conn[k] EXCEPT !.st = "connecting"].st # NoObject.st
      BY <1>0 DEF Conn, NoObject
    <3> QED
      BY <3>1
  <2> QED
    BY <2>1, <2>2 DEF TypeOK
<1>3. /\ Owned'
      /\ \A q \in Lives : eventSource[q] \notin K => eventSource'[q] = eventSource[q]
      /\ \A q \in Lives : eventSource'[q] = NoConn <=> eventSource[q] = NoConn
  BY <1>0, <1>1, <1>2, CloseKeeps DEF Trying
<1>4. \A q \in Lives : q # l => eventSource[q] \notin K
  BY <1>0, <1>1 DEF Held, Trying, Owned
<1>5. HasToken'
  BY <1>3 DEF OnError, Trying, HasToken
<1>6. ClosedMeansRetry'
  <2>1. CASE l = life /\ ~isClosing[l]
    <3>1. reconnectTimeout'[life] = reconnectTimeout[life] + 1
      BY <1>0, <2>1 DEF OnError, Inc, TypeOK
    <3> QED
      BY <2>1, <3>1, PendingType DEF OnError, ClosedMeansRetry, TypeOK
  <2>2. CASE l = life /\ isClosing[l]
    BY <2>2 DEF OnError, ClosedMeansRetry
  <2>3. CASE l # life
    <3>1. eventSource'[life] = eventSource[life]
      BY <1>3, <1>4, <2>3 DEF TypeOK
    <3>2. reconnectTimeout'[life] = reconnectTimeout[life]
      BY <1>0, <2>3 DEF OnError, Inc, TypeOK
    <3> QED
      BY <3>1, <3>2 DEF OnError, Trying, ClosedMeansRetry
  <2> QED
    BY <2>1, <2>2, <2>3
<1> QED
  BY <1>3, <1>5, <1>6 DEF Trying

LEMMA CleanUpTrying ==
  ASSUME TypeOK, Trying, CleanUp(life), UNCHANGED sseToken
  PROVE  Owned' /\ HasToken' /\ isClosing'[life]
<1>1. Held(life) \in SUBSET Conns /\ conn \in Objects
  BY DEF Held, TypeOK, Objects
<1>2. Owned' /\ \A q \in Lives : eventSource'[q] = NoConn <=> eventSource[q] = NoConn
  BY <1>1, CloseKeeps DEF CleanUp, Trying
<1> QED
  BY <1>2 DEF CleanUp, Trying, HasToken, TypeOK

LEMMA OpenTrying ==
  ASSUME TypeOK, Trying, NEW k \in Conns, OnOpen(k)
  PROVE  Trying'
<1>1. conn[k] \in Conn
  BY IsConn DEF OnOpen
<1>2. [conn[k] EXCEPT !.st = "open"].life = conn[k].life
  BY <1>1 DEF Conn
<1>3. [conn[k] EXCEPT !.st = "open"] # NoObject
  <2>1. [conn[k] EXCEPT !.st = "open"].st # NoObject.st
    BY <1>1 DEF Conn, NoObject
  <2> QED
    BY <2>1
<1>4. \A j \in Conns : conn'[j] = IF j = k THEN [conn[k] EXCEPT !.st = "open"] ELSE conn[j]
  BY DEF OnOpen, TypeOK
<1>5. Owned'
  BY <1>2, <1>3, <1>4 DEF OnOpen, Trying, Owned
<1> QED
  BY <1>5 DEF OnOpen, Trying, HasToken, ClosedMeansRetry

LEMMA SubscriptionTrying ==
  ASSUME TypeOK, Trying, UpdateSubscription
  PROVE  Trying'
<1>1. \A j \in Conns : conn[j] # NoObject
        => conn'[j] # NoObject /\ conn'[j].life = conn[j].life
  <2>1. CASE UNCHANGED conn
    BY <2>1
  <2>2. CASE conn' = [conn EXCEPT ![sseClientIdRef].clusters = sseSubTimer]
    <3>1. ASSUME NEW j \in Conns, conn[j] # NoObject
          PROVE  conn'[j] # NoObject /\ conn'[j].life = conn[j].life
      <4>0. conn[j] \in Conn
        BY <3>1 DEF TypeOK
      <4>1. conn'[j] = IF j = sseClientIdRef THEN [conn[j] EXCEPT !.clusters = sseSubTimer]
                                             ELSE conn[j]
        BY <2>2 DEF TypeOK
      <4>2. /\ [conn[j] EXCEPT !.clusters = sseSubTimer].life = conn[j].life
            /\ [conn[j] EXCEPT !.clusters = sseSubTimer].st = conn[j].st
        BY <4>0 DEF Conn
      <4>3. conn'[j].st # NoObject.st
        BY <4>0, <4>1, <4>2 DEF Conn, NoObject
      <4> QED
        BY <4>1, <4>2, <4>3
    <3> QED
      BY <3>1
  <2> QED
    BY <2>1, <2>2 DEF UpdateSubscription
<1>2. Owned'
  BY <1>1 DEF UpdateSubscription, life_vars, Trying, Owned
<1> QED
  BY <1>2 DEF UpdateSubscription, life_vars, Trying, HasToken, ClosedMeansRetry

LEMMA UpTrying ==
  ASSUME TypeOK, Trying, NEW restarted \in BOOLEAN, Up(restarted)
  PROVE  Trying'
<1>1. \A j \in Conns : conn[j] # NoObject
        => conn'[j] # NoObject /\ conn'[j].life = conn[j].life
  <2>1. CASE UNCHANGED conn
    BY <2>1
  <2>2. CASE restarted
    <3>1. ASSUME NEW j \in Conns, conn[j] # NoObject
          PROVE  conn'[j] # NoObject /\ conn'[j].life = conn[j].life
      <4>0. conn[j] \in Conn /\ conn'[j] = [conn[j] EXCEPT !.token = "bad"]
        BY <2>2, <3>1 DEF Up, TypeOK
      <4>1. conn'[j].life = conn[j].life /\ conn'[j].st # NoObject.st
        BY <4>0 DEF Conn, NoObject
      <4> QED
        BY <4>1
    <3> QED
      BY <3>1
  <2> QED
    BY <2>1, <2>2 DEF Up
<1>2. Owned'
  BY <1>1 DEF Up, Trying, Owned
<1>3. HasToken'
  BY DEF Up, Trying, HasToken
<1> QED
  BY <1>2, <1>3 DEF Up, Trying, ClosedMeansRetry

LEMMA TryingNext == ASSUME TypeOK, Trying, [Next]_vars PROVE Trying'
<1>1. CASE UNCHANGED <<life, life_vars, conn>>
  BY <1>1 DEF life_vars, Trying, Owned, HasToken, ClosedMeansRetry
<1>2. ASSUME NEW l \in Lives, Callback(l) \/ HealthCheck(l) PROVE Trying'
  BY <1>2, ConnectTrying, ReconnectTrying, RefreshTrying, RefreshConnectTrying, HealthTrying
     DEF Callback
<1>3. ASSUME NEW k \in Conns, OnOpen(k) \/ OnError(k) PROVE Trying'
  BY <1>3, OpenTrying, ErrorTrying
<1>4. CASE UserChanged
  <2>1. life \in Lives /\ life + 1 \in Lives /\ life' = life + 1
    BY <1>4 DEF UserChanged, TypeOK
  <2>2. calls'[life'] = 1 /\ reconnectTimeout'[life'] \in Nat /\ delayed'[life'] \in Nat
    <3>1. reconnectTimeout' \in Retries
      BY <1>4, <2>1, CleanUpType DEF UserChanged
    <3>2. reconnectTimeout'[life + 1] \in Nat /\ delayed[life + 1] \in Nat
      BY <2>1, <3>1, BoundsAssumption DEF TypeOK, Retries
    <3>3. calls'[life + 1] = 1 /\ delayed' = delayed
      BY <1>4, <2>1 DEF UserChanged, TypeOK
    <3> QED
      BY <2>1, <3>2, <3>3
  <2> QED
    BY <1>4, <2>2, CleanUpTrying DEF UserChanged, Trying, ClosedMeansRetry
<1>5. CASE Logout
  BY <1>5, CleanUpTrying DEF Logout, Trying, ClosedMeansRetry
<1>6. CASE UpdateSubscription
  BY <1>6, SubscriptionTrying
<1>7. ASSUME NEW restarted \in BOOLEAN, Up(restarted) PROVE Trying'
  BY <1>7, UpTrying
<1> QED
  BY <1>1, <1>2, <1>3, <1>4, <1>5, <1>6, <1>7 DEF Next, vars, ChangeView, Down

\* A live page never stops trying, whatever connections were forgotten, refused or
\* closed by the handlers of others.
THEOREM AlwaysTrying == Spec => []ClosedMeansRetry
<1>1. Init => Trying
  BY LivesAssumption, ValuesAssumption DEF Init, Lives, Trying, Owned, HasToken, ClosedMeansRetry
<1>2. TypeOK /\ Trying /\ [Next]_vars => Trying'
  BY TryingNext
<1>3. Trying => ClosedMeansRetry
  BY DEF Trying
<1> QED
  BY <1>1, <1>2, <1>3, Typing, PTL DEF Spec
================================================================================
