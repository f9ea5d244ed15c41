--------------------------- MODULE ClusterViewProofs ---------------------------
(* Theorems about ClusterView, for every set of clusters and any number of      *)
(* answers, events and actions.                                                 *)
EXTENDS ClusterView, TLAPS

Lists == [of : Clusters, status : Status] \cup {Empty}
Entries == Status \cup {"none", "empty"}

LEMMA AnsweredType ==
  ASSUME TypeOK, NEW by, NEW c, NEW data, [by |-> by, of |-> c, data |-> data] \in Fetch,
         Answered(by, c, data)
  PROVE  fetches' \subseteq Fetch
BY DEF TypeOK, Answered

LEMMA FetchResourcesType ==
  ASSUME TypeOK, NEW c \in Clusters, FetchResources(c)
  PROVE  fetches' \subseteq Fetch
<1>1. [by |-> "resources", of |-> c, data |-> truth[c]] \in Fetch
  BY DEF TypeOK, Fetch
<1> QED
  BY <1>1, AnsweredType DEF FetchResources, TypeOK

LEMMA FetchSidebarType ==
  ASSUME TypeOK, NEW c \in Clusters, FetchSidebar(c)
  PROVE  fetches' \subseteq Fetch
<1>1. PICK data \in {truth[c], "failed"} : Answered("sidebar", c, data)
  BY DEF FetchSidebar
<1>2. [by |-> "sidebar", of |-> c, data |-> data] \in Fetch
  BY <1>1 DEF TypeOK, Fetch
<1> QED
  BY <1>1, <1>2, AnsweredType

LEMMA ReceiveType == ASSUME TypeOK, NEW f \in fetches, Receive(f) PROVE TypeOK'
<1>0. f \in Fetch
  BY DEF TypeOK
<1>1. CASE f.by = "sidebar"
  <2>1. cache' \in [Clusters -> Entries]
    BY <1>0, <1>1 DEF Receive, Sidebar, TypeOK, Fetch, Entries
  <2> QED
    BY <1>1, <2>1 DEF Receive, Sidebar, TypeOK, Entries
<1>2. CASE f.by # "sidebar"
  <2>1. f.of \in Clusters /\ f.data \in Status
    BY <1>0, <1>2 DEF Fetch
  <2>2. cache' \in [Clusters -> Entries]
    BY <1>2, <2>1 DEF Receive, Resources, TypeOK, Entries
  <2>3. view' \in Lists
    BY <1>2, <2>1 DEF Receive, Resources, TypeOK, Lists
  <2> QED
    BY <1>2, <2>2, <2>3 DEF Receive, TypeOK, Lists, Entries
<1> QED
  BY <1>1, <1>2

LEMMA SelectType ==
  ASSUME TypeOK, NEW c \in Clusters \cup {NoCluster}, Select(c)
  PROVE  TypeOK'
<1>1. view' \in Lists
  BY DEF Select, Cached, TypeOK, Lists
<1>2. fetches' \subseteq Fetch
  <2>1. CASE c = NoCluster
    BY <2>1 DEF Select, TypeOK
  <2>2. CASE c # NoCluster
    BY <2>2, FetchResourcesType DEF Select
  <2> QED
    BY <2>1, <2>2
<1> QED
  BY <1>1, <1>2 DEF Select, TypeOK, Lists

LEMMA ActionType ==
  ASSUME TypeOK, NEW c \in Clusters, NEW to \in Status, HandleVmAction(c, to)
  PROVE  TypeOK'
<1>1. view' \in Lists
  BY DEF HandleVmAction, TypeOK, Lists, Empty
<1>2. actions' \in 0 .. MaxActions
  BY BoundsAssumption DEF HandleVmAction, TypeOK
<1>3. [type |-> "action", of |-> c, status |-> to] \in Event
  BY DEF Event
<1>4. fetches' \subseteq Fetch /\ stream' \subseteq Event
  <2>1. CASE UNCHANGED fetches
    BY <1>3, <2>1 DEF HandleVmAction, TypeOK
  <2>2. CASE UNCHANGED stream /\ selected # NoCluster /\ FetchResources(selected)
    BY <2>2, FetchResourcesType DEF TypeOK
  <2> QED
    BY <2>1, <2>2 DEF HandleVmAction
<1> QED
  BY <1>1, <1>2, <1>4 DEF HandleVmAction, TypeOK, Lists

LEMMA OnMessageType == ASSUME TypeOK, NEW e \in stream, OnMessage(e) PROVE TypeOK'
<1>0. e \in Event /\ e.of \in Clusters /\ e.status \in Status
  BY DEF TypeOK, Event
<1>1. view' \in Lists
  BY <1>0 DEF OnMessage, ToView, TypeOK, Lists
<1>2. cache' \in [Clusters -> Entries]
  BY <1>0 DEF OnMessage, ToSidebar, TypeOK, Entries
<1> QED
  BY <1>1, <1>2 DEF OnMessage, TypeOK, Lists, Entries

LEMMA InitType == ASSUME Init PROVE TypeOK
BY BoundsAssumption DEF Init, TypeOK

LEMMA NextType == ASSUME TypeOK, [Next]_vars PROVE TypeOK'
<1>1. CASE UNCHANGED vars
  BY <1>1 DEF vars, TypeOK
<1>2. ASSUME NEW f \in fetches, Receive(f) PROVE TypeOK'
  BY <1>2, ReceiveType
<1>3. ASSUME NEW c \in Clusters \cup {NoCluster}, Select(c) PROVE TypeOK'
  BY <1>3, SelectType
<1>4. CASE Poll
  <2>1. [by |-> "resources", of |-> selected, data |-> truth[selected]] \in Fetch
    BY <1>4 DEF Poll, TypeOK, Fetch
  <2>2. fetches' \subseteq Fetch
    BY <1>4, <2>1, AnsweredType DEF Poll
  <2> QED
    BY <1>4, <2>2 DEF Poll, TypeOK
<1>5. ASSUME NEW c \in Clusters, ToggleSidebarCluster(c) PROVE TypeOK'
  BY <1>5, FetchSidebarType DEF ToggleSidebarCluster, TypeOK
<1>6. ASSUME NEW c \in Clusters, GuestChanges(c) PROVE TypeOK'
  BY <1>6 DEF GuestChanges, TypeOK
<1>7. ASSUME NEW c \in Clusters, Broadcast(c) PROVE TypeOK'
  <2>1. [type |-> "resources", of |-> c, status |-> truth[c]] \in Event
    BY DEF TypeOK, Event
  <2> QED
    BY <1>7, <2>1 DEF Broadcast, TypeOK
<1>8. ASSUME NEW c \in Clusters, NEW to \in Status, HandleVmAction(c, to) PROVE TypeOK'
  BY <1>8, ActionType
<1>9. ASSUME NEW e \in stream, OnMessage(e) \/ Lost(e) PROVE TypeOK'
  <2>1. CASE Lost(e)
    BY <2>1 DEF Lost, TypeOK
  <2> QED
    BY <1>9, <2>1, OnMessageType
<1> QED
  BY <1>1, <1>2, <1>3, <1>4, <1>5, <1>6, <1>7, <1>8, <1>9 DEF Next

\* Every variable keeps its type: the sidebar never takes a failed answer for data.
THEOREM Typing == Spec => []TypeOK
BY InitType, NextType, PTL DEF Spec

LEMMA OwnNext == ASSUME TypeOK, OwnData, [Next]_vars PROVE OwnData'
<1>1. CASE UNCHANGED <<view, selected>>
  BY <1>1 DEF OwnData
<1>2. ASSUME NEW f \in fetches, Receive(f) PROVE OwnData'
  BY <1>2 DEF Receive, Sidebar, Resources, OwnData
<1>3. ASSUME NEW c \in Clusters \cup {NoCluster}, Select(c) PROVE OwnData'
  BY <1>3 DEF Select, Cached, OwnData
<1>4. ASSUME NEW c \in Clusters, NEW to \in Status, HandleVmAction(c, to) PROVE OwnData'
  <2>1. CASE view' = view
    BY <1>4, <2>1 DEF HandleVmAction, OwnData
  <2>2. CASE view # Empty /\ view' = [view EXCEPT !.status = to]
    <3>1. view'.of = view.of
      BY <2>2 DEF TypeOK
    <3> QED
      BY <1>4, <2>2, <3>1 DEF HandleVmAction, OwnData
  <2> QED
    BY <1>4, <2>1, <2>2 DEF HandleVmAction
<1>5. ASSUME NEW e \in stream, OnMessage(e) PROVE OwnData'
  BY <1>5 DEF OnMessage, ToView, OwnData
<1> QED
  BY <1>1, <1>2, <1>3, <1>4, <1>5
     DEF Next, vars, Poll, ToggleSidebarCluster, GuestChanges, Broadcast, Lost

\* The list is always one of the selected cluster, however many clusters are
\* selected, polled and expanded in whatever order the answers come.
THEOREM AlwaysOwnData == Spec => []OwnData
<1>1. Init => OwnData
  BY DEF Init, OwnData
<1>2. TypeOK /\ OwnData /\ [Next]_vars => OwnData'
  BY OwnNext
<1> QED
  BY <1>1, <1>2, Typing, PTL DEF Spec
================================================================================
