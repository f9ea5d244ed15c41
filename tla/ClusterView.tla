----------------------------- MODULE ClusterView -----------------------------
(***************************************************************************)
(* What the dashboard shows of the clusters' guests: the list of the       *)
(* selected cluster and the sidebar's cache of the others, fed by polling, *)
(* by live events and by the optimistic update of a guest action.          *)
(*                                                                         *)
(* A cluster has one guest and its data is the guest's status.  Metrics,   *)
(* pools, datastores and networks take the same way as this list.          *)
(*                                                                         *)
(* A selection and the effects it triggers are one step: they run before   *)
(* any other callback of the page can see the new selection.  A request is *)
(* in the state once the server has read what it will answer; one that     *)
(* fails and changes nothing is not there at all.                          *)
(***************************************************************************)
EXTENDS FiniteSets, Naturals

CONSTANTS
  Clusters,
  NoCluster,  \* the overview of all clusters is selected
  Twins,      \* guests of different clusters have the same vmid and node name
  MaxFetches, \* bound: answers to requests for data under way
  MaxEvents,  \* bound: live events under way
  MaxActions  \* bound: guest actions

ASSUME ClustersAssumption == NoCluster \notin Clusters /\ Twins \in BOOLEAN
ASSUME BoundsAssumption == MaxFetches \in Nat /\ MaxEvents \in Nat /\ MaxActions \in Nat

VARIABLES
  truth,    \* [Clusters -> Status]: the guests
  selected, \* the selected cluster, and the reference the callbacks read
  view,     \* clusterResources: whose list it is, and what it says
  cache,    \* sidebarClusterData
  fetches,  \* answers on their way to the page
  stream,   \* live events on their way to the page
  actions   \* how many actions there have been

vars == <<truth, selected, view, cache, fetches, stream, actions>>

Status == {"running", "stopped"}

\* an empty list, whoever's it is
Empty == [of |-> NoCluster, status |-> "none"]

\* by: fetchClusterResources or fetchSidebarClusterData
Fetch == [by : {"resources", "sidebar"}, of : Clusters, data : Status]
           \cup [by : {"sidebar"}, of : Clusters, data : {"failed"}]
Event == [type : {"resources", "action"}, of : Clusters, status : Status]

TypeOK ==
  /\ truth \in [Clusters -> Status]
  /\ selected \in Clusters \cup {NoCluster}
  /\ view \in [of : Clusters, status : Status] \cup {Empty}
  /\ cache \in [Clusters -> Status \cup {"none", "empty"}]
  /\ fetches \subseteq Fetch
  /\ stream \subseteq Event
  /\ actions \in 0 .. MaxActions

Init ==
  /\ truth \in [Clusters -> Status]
  /\ selected = NoCluster /\ view = Empty
  /\ cache = [c \in Clusters |-> "none"]
  /\ fetches = {} /\ stream = {} /\ actions = 0

-----------------------------------------------------------------------------
(* Requests for data *)

\* The server answers a request; each of the two may be under way with
\* different data, and they arrive in any order.
Answered(by, c, data) ==
  /\ fetches' = fetches \cup {[by |-> by, of |-> c, data |-> data]}
  /\ Cardinality(fetches') <= MaxFetches

FetchResources(c) == Answered("resources", c, truth[c]) \/ UNCHANGED fetches
FetchSidebar(c) == \E data \in {truth[c], "failed"} : Answered("sidebar", c, data)

\* Mutant: an answer is shown whatever has been selected since.
ResourcesAlways(f) ==
  /\ cache' = [cache EXCEPT ![f.of] = f.data]
  /\ view' = [of |-> f.of, status |-> f.data]

\* fetchClusterResources goes on with an answer: the cache, and the list
\* if its cluster is still the selected one.
Resources(f) ==
  /\ cache' = [cache EXCEPT ![f.of] = f.data]
  /\ view' = IF selected = f.of THEN [of |-> f.of, status |-> f.data] ELSE view

\* fetchSidebarClusterData: whatever could not be fetched counts as empty.
Sidebar(f) ==
  /\ cache' = [cache EXCEPT ![f.of] = IF f.data = "failed" THEN "empty" ELSE f.data]
  /\ UNCHANGED view

Receive(f) ==
  /\ f \in fetches
  /\ fetches' = fetches \ {f}
  /\ IF f.by = "sidebar" THEN Sidebar(f) ELSE Resources(f)
  /\ UNCHANGED <<truth, selected, stream, actions>>

-----------------------------------------------------------------------------
(* The user *)

\* what the sidebar's cache says of a cluster, as a list
Cached(c) == IF c # NoCluster /\ cache[c] \in Status
             THEN [of |-> c, status |-> cache[c]] ELSE Empty

\* Another cluster, or the overview, is selected: the list starts as the cached
\* one and is asked for.
Select(c) ==
  /\ c # selected
  /\ selected' = c
  /\ view' = Cached(c)
  /\ IF c = NoCluster THEN UNCHANGED fetches ELSE FetchResources(c)
  /\ UNCHANGED <<truth, cache, stream, actions>>

\* Mutant: the interval only polls while there is nothing to show.
PollWhileEmpty ==
  /\ selected # NoCluster /\ view = Empty
  /\ Answered("resources", selected, truth[selected])
  /\ UNCHANGED <<truth, selected, view, cache, stream, actions>>

\* resourceInterval: every 15 s, whether the stream is open or not
Poll ==
  /\ selected # NoCluster
  /\ Answered("resources", selected, truth[selected])
  /\ UNCHANGED <<truth, selected, view, cache, stream, actions>>

\* A cluster that is not selected is expanded in the sidebar. (No callback asks
\* whether it still is.)
ToggleSidebarCluster(c) ==
  /\ c # selected
  /\ FetchSidebar(c)
  /\ UNCHANGED <<truth, selected, view, cache, stream, actions>>

\* the clusters whose guests the user sees and can act on
Visible == ({view.of} \cup {c \in Clusters \ {selected} : cache[c] \in Status}) \ {NoCluster}

\* A guest action (start, stop, reboot) and its answer. The expected status is
\* shown at once, on the row of the list with this vmid and node. An accepted
\* action is announced to every page before the guest has changed, if it ever
\* does. A failed one asks for the list of the selected cluster; where
\* none is selected that throws.
HandleVmAction(c, to) ==
  /\ c \in Visible
  /\ actions < MaxActions /\ actions' = actions + 1
  /\ view' = IF view # Empty /\ (c = view.of \/ Twins) THEN [view EXCEPT !.status = to]
                                                       ELSE view
  /\ \/ /\ stream' = stream \cup {[type |-> "action", of |-> c, status |-> to]}
        /\ Cardinality(stream') <= MaxEvents
        /\ UNCHANGED fetches
     \/ /\ UNCHANGED stream
        /\ IF selected = NoCluster THEN UNCHANGED fetches ELSE FetchResources(selected)
  /\ UNCHANGED <<truth, selected, cache>>

-----------------------------------------------------------------------------
(* Live events *)

\* A guest starts or stops, by an action or by itself.
GuestChanges(c) ==
  /\ \E s \in Status : s # truth[c] /\ truth' = [truth EXCEPT ![c] = s]
  /\ UNCHANGED <<selected, view, cache, fetches, stream, actions>>

\* The broadcast loop reads a cluster and sends its guests. A thread per cluster
\* and round does it, and a slow one may come after a later round: events are
\* not in order.
Broadcast(c) ==
  /\ stream' = stream \cup {[type |-> "resources", of |-> c, status |-> truth[c]]}
  /\ Cardinality(stream') <= MaxEvents
  /\ UNCHANGED <<truth, selected, view, cache, fetches, actions>>

\* Mutant: live events only feed the list of the selected cluster.
ToSidebarNever(e) == UNCHANGED cache

\* A cluster that is not selected: its cache entry, if there is one. An
\* action changes a row, so it needs one.
ToSidebar(e) ==
  cache' = [cache EXCEPT ![e.of] =
              IF @ = "none" \/ (e.type = "action" /\ @ = "empty") THEN @ ELSE e.status]

\* The selected cluster: the list, or its row.
ToView(e) ==
  view' = IF e.type = "action" /\ view = Empty THEN view
          ELSE [of |-> e.of, status |-> e.status]

\* onmessage for the types resources and action
OnMessage(e) ==
  /\ e \in stream
  /\ stream' = stream \ {e}
  /\ IF e.of = selected THEN ToView(e) /\ UNCHANGED cache
                        ELSE ToSidebar(e) /\ UNCHANGED view
  /\ UNCHANGED <<truth, selected, fetches, actions>>

\* The queue of this client is full, or the stream is down.
Lost(e) ==
  /\ e \in stream
  /\ stream' = stream \ {e}
  /\ UNCHANGED <<truth, selected, view, cache, fetches, actions>>

-----------------------------------------------------------------------------

Next ==
  \/ \E f \in fetches : Receive(f)
  \/ \E c \in Clusters \cup {NoCluster} : Select(c)
  \/ Poll
  \/ \E c \in Clusters : ToggleSidebarCluster(c) \/ GuestChanges(c) \/ Broadcast(c)
  \/ \E c \in Clusters, to \in Status : HandleVmAction(c, to)
  \/ \E e \in stream : OnMessage(e) \/ Lost(e)

\* The interval ticks, and its requests are answered again and again; an answer
\* arrives. Live events owe nothing.
Fairness ==
  /\ SF_vars(Poll)
  /\ WF_vars(\E f \in fetches : Receive(f))
  /\ \A c \in Clusters :
       WF_vars(\E f \in fetches : f.by = "resources" /\ f.of = c /\ Receive(f))

Spec == Init /\ [][Next]_vars /\ Fairness

-----------------------------------------------------------------------------
(* Properties *)

\* The list is always one of the selected cluster: no late answer, event
\* or optimistic update brings the guests of a cluster the user has left.
OwnData == view # Empty => view.of = selected

\* The guests and the user's choices come to rest.
Settled == <>[][UNCHANGED <<truth, selected>>]_vars

\* Whatever arrived late, out of order or not at all, and whatever an action
\* promised in vain or on the wrong row, the list ends up with what is true,
\* and with polling alone.
ShowsTruth ==
  Settled => <>[](selected # NoCluster
                    => view = [of |-> selected, status |-> truth[selected]])

EventsArrive(c) ==
  []<><<\E e \in stream : e.type = "resources" /\ e.of = c /\ OnMessage(e)>>_vars

\* The sidebar does not poll: an expanded cluster follows its guests as long as
\* its events get through and no more requests for it are made, if an
\* answer has ever created its entry.
SidebarFollows ==
  \A c \in Clusters :
    Settled /\ EventsArrive(c) /\ <>[](\A f \in fetches : f.by = "sidebar" => f.of # c) =>
      <>[](c # selected /\ cache[c] # "none" => cache[c] = truth[c])
=============================================================================
