--------------------------- MODULE HARecoveryProofs ---------------------------
(* Theorems about HARecovery, for every set of instances, nodes, guests and   *)
(* workers, every threshold and every configuration.                          *)
EXTENDS HARecovery, FiniteSetTheorems, TLAPS

LEMMA AnyType == AnyInst \in Inst /\ AnyNode \in Node
  BY HAAssumption DEF AnyInst, AnyNode

LEMMA InitType == Init => TypeOK
<1> SUFFICES ASSUME Init PROVE TypeOK
  OBVIOUS
<1>1. /\ 0 \in 0..Threshold
      /\ HomeOf \in [VM -> Node]
  BY HAAssumption DEF HAAssumption
<1>2. runs \in [VM -> SUBSET Node] /\ conf \in [VM -> Node]
  BY <1>1 DEF Init
<1>3. /\ failures \in [Inst -> [Node -> 0..Threshold]]
      /\ status \in [Inst -> [Node -> {"untracked", "online", "offline"}]]
  BY <1>1 DEF Init
<1> QED
  BY <1>2, <1>3, AnyType DEF Init, TypeOK, PCs

(* Steps of nodes, operators and the monitor keep every variable in its type. *)
LEMMA MonitorType ==
    ASSUME TypeOK,
           \/ EnvStep
           \/ \E i \in Inst : MonitorStep(i) \/ OperatorStep(i) \/ Crash(i)
    PROVE  TypeOK'
<1> USE HAAssumption DEF TypeOK, PCs, vars, monVars, knowVars, jobVars,
                         workVars, lockVars, envVars
<1>1. ASSUME NEW n \in Node, NodeFails(n) PROVE TypeOK'
  <2>1. state' \in [Node -> {"up", "down", "split"}]
    <3>1. \E s \in {"down", "split"} : state' = [state EXCEPT ![n] = s]
      BY <1>1, Zenon DEF NodeFails, PowerOff
    <3> QED
      BY <3>1
  <2>2. runs' \in [VM -> SUBSET Node]
    <3>1. \/ runs' = [v \in VM |-> runs[v] \ {n}]
          \/ runs' = runs
      BY <1>1 DEF NodeFails, PowerOff
    <3> QED
      BY <3>1
  <2> QED
    BY <1>1, <2>1, <2>2 DEF NodeFails
<1>2. ASSUME NEW n \in Node, NodeReturns(n) PROVE TypeOK'
  BY <1>2 DEF NodeReturns
<1>3. ASSUME NEW n \in Node, LockAges(n) PROVE TypeOK'
  BY <1>3 DEF LockAges
<1>4. ASSUME NEW i \in Inst, StartHA(i) PROVE TypeOK'
  <2>1. CASE thread[i]
    BY <1>4, <2>1 DEF StartHA
  <2>2. CASE ~thread[i]
    BY <1>4, <2>2 DEF StartHA
  <2> QED
    BY <2>1, <2>2
<1>14. ASSUME NEW i \in Inst, StartMonitor(i) PROVE TypeOK'
  BY <1>14 DEF StartMonitor
<1>5. ASSUME NEW i \in Inst, StopHA(i) PROVE TypeOK'
  BY <1>5 DEF StopHA
<1>6. ASSUME NEW i \in Inst, NEW n \in Node, ToggleMaintenance(i, n) PROVE TypeOK'
  BY <1>6 DEF ToggleMaintenance
<1>7. ASSUME NEW i \in Inst, LoopEnds(i) PROVE TypeOK'
  BY <1>7 DEF LoopEnds
<1>8. ASSUME NEW i \in Inst, BeginPoll(i) PROVE TypeOK'
  BY <1>8 DEF BeginPoll
<1>9. ASSUME NEW i \in Inst, NEW n \in Node, SeenOnline(i, n) PROVE TypeOK'
  <2>1. RestoreQuorum(i, n) => forced' \in BOOLEAN
    BY DEF RestoreQuorum
  <2>2. /\ forced' \in BOOLEAN
        /\ recovering' \in [Inst -> SUBSET Node]
        /\ outlived' \in [Worker -> BOOLEAN]
    <3>1. CASE Prev(i, n) = "offline"
      <4>1. /\ recovering' = [recovering EXCEPT ![i] = @ \ {n}]
            /\ outlived' = [w \in Worker |-> outlived[w] \/ w \in WorkersOf(i, n)]
            /\ RestoreQuorum(i, n)
        BY <1>9, <3>1, Zenon DEF SeenOnline
      <4>2. recovering' \in [Inst -> SUBSET Node]
        BY <4>1
      <4>3. outlived' \in [Worker -> BOOLEAN]
        BY <4>1, Zenon
      <4> QED
        BY <2>1, <4>1, <4>2, <4>3
    <3>2. CASE Prev(i, n) # "offline"
      <4>1. UNCHANGED <<recovering, outlived, forced>>
        BY <1>9, <3>2, Zenon DEF SeenOnline
      <4> QED
        BY <4>1
    <3> QED
      BY <3>1, <3>2
  <2>3. /\ failures' \in [Inst -> [Node -> 0..Threshold]]
        /\ status' \in [Inst -> [Node -> {"untracked", "online", "offline"}]]
        /\ pending' \in [Inst -> SUBSET Node]
    BY <1>9 DEF SeenOnline, Handled
  <2> QED
    BY <1>9, <2>2, <2>3 DEF SeenOnline, Handled
<1>10. ASSUME NEW i \in Inst, NEW n \in Node, CountMiss(i, n) PROVE TypeOK'
  BY <1>10 DEF CountMiss, Missed, Handled, Prev
<1>11. ASSUME NEW i \in Inst, NEW n \in Node, DeclareOnly(i, n) PROVE TypeOK'
  BY <1>11 DEF DeclareOnly, Declare, Missed, Handled
<1>12. ASSUME NEW i \in Inst, NEW n \in Node, NEW w \in Worker,
              TriggerRecovery(i, n, w)
       PROVE  TypeOK'
  BY <1>12 DEF TriggerRecovery, Declare, Missed, Handled
<1>13. ASSUME NEW i \in Inst, Crash(i) PROVE TypeOK'
  <2>1. /\ on' \in [Worker -> Inst] /\ of' \in [Worker -> Node]
        /\ vm' \in [Worker -> VM \cup {NoVM}] /\ dest' \in [Worker -> Node \cup {NoNode}]
    BY <1>13, AnyType DEF Crash
  <2>2. /\ todo' \in [Worker -> SUBSET VM] /\ avail' \in [Worker -> SUBSET Node]
        /\ outlived' \in [Worker -> BOOLEAN] /\ pc' \in [Worker -> PCs]
    BY <1>13 DEF Crash
  <2>3. /\ failures' \in [Inst -> [Node -> 0..Threshold]]
        /\ status' \in [Inst -> [Node -> {"untracked", "online", "offline"}]]
    <3>1. 0 \in 0..Threshold
      BY HAAssumption DEF HAAssumption
    <3> QED
      BY <1>13, <3>1 DEF Crash
  <2>4. /\ enabled' \in [Inst -> BOOLEAN] /\ thread' \in [Inst -> BOOLEAN]
        /\ pending' \in [Inst -> SUBSET Node] /\ recovering' \in [Inst -> SUBSET Node]
        /\ maint' \in [Inst -> SUBSET Node]
    BY <1>13 DEF Crash
  <2> QED
    BY <1>13, <2>1, <2>2, <2>3, <2>4 DEF Crash
<1> HIDE DEF TypeOK, PCs, vars, monVars, knowVars, jobVars, workVars, lockVars, envVars
<1> QED
  BY <1>1, <1>2, <1>3, <1>4, <1>5, <1>6, <1>7, <1>8, <1>9, <1>10, <1>11, <1>12, <1>13,
     <1>14
     DEF EnvStep, MonitorStep, OperatorStep

LEMMA FenceType ==
    ASSUME TypeOK, NEW n \in Node, Fence(n)
    PROVE  /\ state' \in [Node -> {"up", "down", "split"}]
           /\ runs' \in [VM -> SUBSET Node]
<1>1. CASE PowerOff(n)
  BY <1>1 DEF TypeOK, PowerOff
<1>2. CASE UNCHANGED <<state, runs>>
  BY <1>2 DEF TypeOK
<1> QED
  BY <1>1, <1>2 DEF Fence

LEMMA ReleaseType ==
    ASSUME TypeOK, NEW n \in Node, Release(n)
    PROVE  /\ lockFile' \in [Node -> Holder \cup {NoHolder}]
           /\ lockFresh' \in [Node -> BOOLEAN]
  BY DEF TypeOK, Release

(* A worker that moves or starts a guest has a guest and a target in hand. *)
InHand ==
    \A w \in Worker : pc[w] \in {"move", "start"} => vm[w] \in VM /\ dest[w] \in Node

(* The steps of a recovery worker keep every variable in its type. *)
LEMMA WorkerType ==
    ASSUME TypeOK, InHand, NEW w \in Worker, WorkerStep(w)
    PROVE  TypeOK'
<1> USE HAAssumption DEF TypeOK, vars, monVars, knowVars, jobVars,
                         workVars, lockVars, envVars
<1> of[w] \in Node /\ on[w] \in Inst
  OBVIOUS
<1>1. CASE LockStep(w)
  <2>1. CASE LockRefused(w) \/ LockFree(w)
    <3>1. /\ \E p \in PCs : pc' = [pc EXCEPT ![w] = p]
          /\ UNCHANGED <<monVars, knowVars, jobVars, outlived, lockVars, envVars>>
      BY <2>1 DEF LockRefused, LockFree, GoTo, PCs
    <3>2. pc' \in [Worker -> PCs]
      BY <3>1
    <3> QED
      BY <3>1, <3>2
  <2>2. CASE LockWrite(w)
    <3>1. HolderOf[on[w]] \in Holder
      BY HAAssumption DEF HAAssumption
    <3> QED
      BY <2>2, <3>1 DEF LockWrite, GoTo, PCs
  <2> QED
    BY <1>1, <2>1, <2>2 DEF LockStep
<1>2. CASE CancelRecovery(w)
  BY <1>2, ReleaseType DEF CancelRecovery, GoTo, PCs
<1>3. CASE DelayOver(w)
  BY <1>3 DEF DelayOver, GoTo, PCs
<1>4. CASE CheckStep(w)
  <2>1. CASE FoundNothingRunning(w)
    BY <2>1 DEF FoundNothingRunning, Running, GoTo, PCs
  <2>2. CASE StoppedGuests(w)
    BY <2>2 DEF StoppedGuests, GoTo, PCs
  <2>3. CASE CouldNotStop(w)
    <3>1. runs' \in [VM -> SUBSET Node]
      BY <2>3 DEF CouldNotStop
    <3>2. \/ GoTo(w, "check", "final") /\ Release(of[w]) /\ UNCHANGED unstopped
          \/ /\ GoTo(w, "check", "list") /\ UNCHANGED <<lockFile, lockFresh>>
             /\ \E left \in SUBSET Running(of[w]) : unstopped' = unstopped \cup left
      BY <2>3, Zenon DEF CouldNotStop, lockVars
    <3>3. /\ lockFile' \in [Node -> Holder \cup {NoHolder}]
          /\ lockFresh' \in [Node -> BOOLEAN]
      BY <3>2, ReleaseType
    <3>4. pc' \in [Worker -> PCs]
      <4>1. \E p \in {"final", "list"} : pc' = [pc EXCEPT ![w] = p]
        BY <3>2, Zenon DEF GoTo
      <4> QED
        BY <4>1 DEF PCs
    <3>5. unstopped' \subseteq VM
      BY <3>2 DEF Running
    <3> QED
      BY <2>3, <3>1, <3>3, <3>4, <3>5 DEF CouldNotStop
  <2>4. CASE GiveUp(w)
    BY <2>4, ReleaseType DEF GiveUp, GoTo, PCs
  <2>5. CASE NoGuests(w)
    BY <2>5, ReleaseType, FenceType DEF NoGuests, GoTo, PCs
  <2>6. CASE NoTargets(w)
    BY <2>6, FenceType DEF NoTargets, GoTo, PCs
  <2>7. CASE ListGuests(w)
    <3>1. Listed(of[w]) \in SUBSET VM /\ Targets(w) \in SUBSET Node
      BY DEF Listed, Targets
    <3> QED
      BY <2>7, <3>1, FenceType DEF ListGuests, GoTo, PCs
  <2> QED
    BY <1>4, <2>1, <2>2, <2>3, <2>4, <2>5, <2>6, <2>7 DEF CheckStep
<1>5. CASE GuestStep(w)
  <2>1. CASE SkipLocal(w)
    BY <2>1 DEF SkipLocal
  <2>2. CASE PickGuest(w)
    <3>1. PICK v \in todo[w] \ LocalVMs, t \in avail[w] :
            /\ vm' = [vm EXCEPT ![w] = v]
            /\ dest' = [dest EXCEPT ![w] = t]
            /\ todo' = [todo EXCEPT ![w] = @ \ {v}]
            /\ forced' \in IF ~ForceQuorum \/ state[t] # "up" THEN {forced}
                            ELSE IF Reliable THEN {TRUE} ELSE {TRUE, forced}
      BY <2>2 DEF PickGuest
    <3>2. /\ vm' \in [Worker -> VM \cup {NoVM}] /\ dest' \in [Worker -> Node \cup {NoNode}]
          /\ todo' \in [Worker -> SUBSET VM] /\ forced' \in BOOLEAN
      BY <3>1
    <3> QED
      BY <2>2, <3>2, FenceType DEF PickGuest, GoTo, PCs
  <2>3. CASE MoveConfig(w)
    <3>1. vm[w] \in VM /\ dest[w] \in Node
      BY <2>3 DEF MoveConfig, GoTo, InHand
    <3>2. conf' \in [VM -> Node]
      <4>1. \/ conf' = [conf EXCEPT ![vm[w]] = dest[w]]
            \/ conf' = conf
        BY <2>3, Zenon DEF MoveConfig
      <4> QED
        BY <3>1, <4>1
    <3>3. pc' \in [Worker -> PCs]
      BY <2>3 DEF MoveConfig, GoTo, PCs
    <3> QED
      BY <2>3, <3>2, <3>3 DEF MoveConfig
  <2>4. CASE StartGuest(w)
    <3>1. vm[w] \in VM /\ dest[w] \in Node
      BY <2>4 DEF StartGuest, GoTo, InHand
    <3>2. runs' \in [VM -> SUBSET Node]
      <4>1. CASE runs' = [runs EXCEPT ![vm[w]] = @ \cup {dest[w]}]
        BY <3>1, <4>1
      <4>2. CASE UNCHANGED runs
        BY <4>2
      <4> QED
        BY <2>4, <4>1, <4>2, Zenon DEF StartGuest
    <3> QED
      BY <2>4, <3>2 DEF StartGuest, GoTo, PCs
  <2>5. CASE RecoveryDone(w)
    BY <2>5 DEF RecoveryDone, GoTo, PCs
  <2> QED
    BY <1>5, <2>1, <2>2, <2>3, <2>4, <2>5 DEF GuestStep
<1>6. CASE EndStep(w)
  <2>1. CASE Raises(w)
    BY <2>1 DEF Raises, GoTo, PCs
  <2>2. CASE Finally(w)
    BY <2>2, ReleaseType DEF Finally, GoTo, PCs
  <2>3. CASE CooldownOver(w)
    BY <2>3, AnyType DEF CooldownOver, Forget, GoTo, PCs
  <2> QED
    BY <1>6, <2>1, <2>2, <2>3 DEF EndStep
<1> HIDE DEF TypeOK
<1> QED
  BY <1>1, <1>2, <1>3, <1>4, <1>5, <1>6 DEF WorkerStep

(* Only PickGuest enters "move", with a guest and a target. *)
LEMMA InHandStep ==
    ASSUME TypeOK, InHand, Next
    PROVE  InHand'
<1> USE DEF InHand, TypeOK, vars, monVars, knowVars, jobVars, workVars, lockVars, envVars
<1>1. CASE UNCHANGED <<pc, vm, dest>>
  BY <1>1
<1>2. ASSUME NEW i \in Inst, NEW n \in Node, NEW u \in Worker, TriggerRecovery(i, n, u)
      PROVE  InHand'
  BY <1>2 DEF TriggerRecovery
<1>3. ASSUME NEW i \in Inst, Crash(i)
      PROVE  InHand'
  BY <1>3 DEF Crash
<1>4. ASSUME NEW w \in Worker, WorkerStep(w)
      PROVE  InHand'
  <2>1. CASE LockStep(w) \/ CancelRecovery(w) \/ DelayOver(w)
    BY <2>1 DEF LockStep, LockRefused, LockFree, LockWrite, CancelRecovery, DelayOver, GoTo
  <2>2. CASE CheckStep(w)
    <3>1. /\ \E p \in {"list", "final", "pick"} : pc' = [pc EXCEPT ![w] = p]
          /\ UNCHANGED <<vm, dest>>
      BY <2>2 DEF CheckStep, FoundNothingRunning, StoppedGuests, CouldNotStop,
                  GiveUp, NoGuests, NoTargets, ListGuests, GoTo
    <3> QED
      BY <3>1
  <2>3. CASE SkipLocal(w) \/ RecoveryDone(w)
    BY <2>3 DEF SkipLocal, RecoveryDone, GoTo
  <2>4. CASE PickGuest(w)
    <3>1. \E v \in VM, t \in Node : /\ vm' = [vm EXCEPT ![w] = v]
                                   /\ dest' = [dest EXCEPT ![w] = t]
      BY <2>4 DEF PickGuest
    <3>2. pc' = [pc EXCEPT ![w] = "move"]
      BY <2>4 DEF PickGuest, GoTo
    <3> QED
      BY <3>1, <3>2
  <2>5. CASE MoveConfig(w)
    BY <2>5 DEF MoveConfig, GoTo
  <2>6. CASE StartGuest(w)
    BY <2>6 DEF StartGuest, GoTo
  <2>7. CASE EndStep(w)
    BY <2>7 DEF EndStep, Raises, Finally, CooldownOver, Forget, GoTo
  <2> QED
    BY <1>4, <2>1, <2>2, <2>3, <2>4, <2>5, <2>6, <2>7 DEF WorkerStep, GuestStep
<1>5. EnvStep => UNCHANGED <<pc, vm, dest>>
  BY DEF EnvStep, NodeFails, NodeReturns, LockAges
<1>6. \A i \in Inst : OperatorStep(i) => UNCHANGED <<pc, vm, dest>>
  BY DEF OperatorStep, StartHA, StartMonitor, StopHA, ToggleMaintenance
<1>7. \A i \in Inst : MonitorStep(i) => \/ UNCHANGED <<pc, vm, dest>>
                                        \/ \E n \in Node, u \in Worker : TriggerRecovery(i, n, u)
  BY DEF MonitorStep, LoopEnds, BeginPoll, SeenOnline, CountMiss, DeclareOnly
<1> HIDE DEF InHand, TypeOK
<1> QED
  BY <1>1, <1>2, <1>3, <1>4, <1>5, <1>6, <1>7 DEF Next

TypeInv == TypeOK /\ InHand

LEMMA TypeStep ==
    ASSUME TypeInv, [Next]_vars
    PROVE  TypeInv'
<1>1. CASE Next
  <2>1. TypeOK'
    BY <1>1, MonitorType, WorkerType DEF Next, TypeInv
  <2> QED
    BY <1>1, <2>1, InHandStep DEF TypeInv
<1>2. CASE UNCHANGED vars
  BY <1>2 DEF TypeInv, TypeOK, InHand, vars, monVars, knowVars, jobVars,
              workVars, lockVars, envVars
<1> QED
  BY <1>1, <1>2

(* Every variable of the monitors, the workers, the lock files and the        *)
(* cluster keeps its type in every behaviour of the recovery code.            *)
THEOREM Typing == Spec => []TypeOK
<1>1. Init => TypeInv
  BY InitType DEF TypeInv, InHand, Init
<1>2. TypeInv /\ [Next]_vars => TypeInv'
  BY TypeStep
<1>3. TypeInv => TypeOK
  BY DEF TypeInv
<1> QED
  BY <1>1, <1>2, <1>3, PTL DEF Spec

--------------------------------------------------------------------------------

(* A worker step either ends the worker and drops the flag of its node, or    *)
(* leaves flags, assignments and the other workers alone and the worker alive.*)
LEMMA WorkerStepEffect ==
    ASSUME TypeOK, NEW w \in Worker, WorkerStep(w)
    PROVE  /\ pc[w] # "idle"
           /\ status' = status
           /\ \/ /\ \E q \in PCs \ {"idle"} : pc' = [pc EXCEPT ![w] = q]
                 /\ UNCHANGED <<recovering, on, of, outlived>>
              \/ /\ pc' = [pc EXCEPT ![w] = "idle"]
                 /\ recovering' = [recovering EXCEPT ![on[w]] = @ \ {of[w]}]
                 /\ outlived' = [outlived EXCEPT ![w] = FALSE]
                 /\ on' = [on EXCEPT ![w] = AnyInst]
                 /\ of' = [of EXCEPT ![w] = AnyNode]
<1> USE DEF GoTo, PCs, vars, monVars, knowVars, jobVars, workVars, lockVars, envVars
<1>1. CASE LockStep(w) \/ CancelRecovery(w) \/ DelayOver(w)
  BY <1>1 DEF LockStep, LockRefused, LockFree, LockWrite, CancelRecovery, DelayOver
<1>2. CASE CheckStep(w)
  BY <1>2 DEF CheckStep, FoundNothingRunning, StoppedGuests, CouldNotStop,
              GiveUp, NoGuests, NoTargets, ListGuests
<1>3. CASE GuestStep(w)
  <2>1. CASE SkipLocal(w)
    <3>1. pc[w] = "pick" /\ pc' = [pc EXCEPT ![w] = "pick"]
      BY <2>1 DEF SkipLocal, TypeOK
    <3> QED
      BY <2>1, <3>1 DEF SkipLocal
  <2>2. CASE PickGuest(w) \/ MoveConfig(w) \/ StartGuest(w) \/ RecoveryDone(w)
    BY <2>2 DEF PickGuest, MoveConfig, StartGuest, RecoveryDone
  <2> QED
    BY <1>3, <2>1, <2>2 DEF GuestStep
<1>4. CASE Raises(w) \/ Finally(w)
  BY <1>4 DEF Raises, Finally
<1>5. CASE CooldownOver(w)
  BY <1>5 DEF CooldownOver, Forget
<1> QED
  BY <1>1, <1>2, <1>3, <1>4, <1>5 DEF WorkerStep, EndStep

(* What a monitor step does to the flags and the workers.                     *)
LEMMA MonitorStepEffect ==
    ASSUME NEW i \in Inst, MonitorStep(i)
    PROVE  \/ UNCHANGED <<recovering, status, pc, on, of, outlived>>
           \/ \E n \in Node : SeenOnline(i, n)
           \/ \E n \in Node : CountMiss(i, n)
           \/ \E n \in Node : DeclareOnly(i, n)
           \/ \E n \in Node, w \in Worker : TriggerRecovery(i, n, w)
  BY DEF MonitorStep, LoopEnds, BeginPoll, knowVars, workVars, jobVars

(* Steps that touch neither flags nor workers.                                *)
LEMMA OtherStepEffect ==
    ASSUME EnvStep \/ \E i \in Inst : OperatorStep(i)
    PROVE  UNCHANGED <<recovering, status, pc, on, of, outlived>>
  BY DEF EnvStep, NodeFails, NodeReturns, LockAges, OperatorStep, StartHA, StartMonitor, StopHA,
         ToggleMaintenance, knowVars, workVars, jobVars

(* A node flagged as being recovered has a worker that will drop the flag:    *)
(* no path through _ha_recovery_worker leaves a flag behind.                  *)
THEOREM FlagsHaveWorkers == Spec => []FlagHasWorker
<1>1. Init => FlagHasWorker
  BY DEF Init, FlagHasWorker
<1>2. ASSUME TypeOK, FlagHasWorker, [Next]_vars
      PROVE  FlagHasWorker'
  <2> USE DEF FlagHasWorker, WorkersOf, Active
  <2>1. CASE UNCHANGED <<recovering, pc, on, of>>
    BY <1>2, <2>1
  <2>2. ASSUME NEW w \in Worker, WorkerStep(w)
        PROVE  FlagHasWorker'
    <3>1. CASE /\ \E q \in PCs \ {"idle"} : pc' = [pc EXCEPT ![w] = q]
               /\ UNCHANGED <<recovering, on, of, outlived>>
      BY <1>2, <3>1 DEF TypeOK
    <3>2. CASE /\ pc' = [pc EXCEPT ![w] = "idle"]
               /\ recovering' = [recovering EXCEPT ![on[w]] = @ \ {of[w]}]
               /\ on' = [on EXCEPT ![w] = AnyInst]
               /\ of' = [of EXCEPT ![w] = AnyNode]
      <4> SUFFICES ASSUME NEW i \in Inst, NEW n \in recovering'[i]
                   PROVE  \E u \in Worker : pc'[u] # "idle" /\ on'[u] = i /\ of'[u] = n
        OBVIOUS
      <4>1. n \in recovering[i] /\ ~(i = on[w] /\ n = of[w])
        BY <1>2, <3>2 DEF TypeOK
      <4>2. PICK u \in Worker : pc[u] # "idle" /\ on[u] = i /\ of[u] = n
        BY <1>2, <4>1
      <4>3. u # w
        BY <4>1, <4>2
      <4> QED
        BY <1>2, <3>2, <4>2, <4>3 DEF TypeOK
    <3> QED
      BY <1>2, <2>2, <3>1, <3>2, WorkerStepEffect
  <2>3. ASSUME NEW i \in Inst, NEW n \in Node, SeenOnline(i, n)
        PROVE  FlagHasWorker'
    <3>1. UNCHANGED <<pc, on, of>>
      BY <2>3 DEF SeenOnline, jobVars
    <3>2. \A j \in Inst : recovering'[j] \subseteq recovering[j]
      <4>1. CASE recovering' = [recovering EXCEPT ![i] = @ \ {n}]
        BY <1>2, <4>1 DEF TypeOK
      <4>2. CASE recovering' = recovering
        BY <4>2
      <4>3. \/ recovering' = [recovering EXCEPT ![i] = @ \ {n}]
            \/ UNCHANGED <<recovering, outlived, forced>>
        BY <2>3, Zenon DEF SeenOnline
      <4> QED
        BY <4>1, <4>2, <4>3
    <3> QED
      BY <1>2, <3>1, <3>2
  <2>4. ASSUME NEW i \in Inst, NEW n \in Node, CountMiss(i, n) \/ DeclareOnly(i, n)
        PROVE  FlagHasWorker'
    BY <1>2, <2>4, <2>1 DEF CountMiss, DeclareOnly, workVars, jobVars
  <2>5. ASSUME NEW i \in Inst, NEW n \in Node, NEW w \in Worker, TriggerRecovery(i, n, w)
        PROVE  FlagHasWorker'
    <3>1. /\ pc[w] = "idle"
          /\ \E q \in {"lock", "delay"} : pc' = [pc EXCEPT ![w] = q]
          /\ on' = [on EXCEPT ![w] = i] /\ of' = [of EXCEPT ![w] = n]
          /\ recovering' = [recovering EXCEPT ![i] = @ \cup {n}]
      BY <2>5 DEF TriggerRecovery
    <3> SUFFICES ASSUME NEW j \in Inst, NEW m \in recovering'[j]
                 PROVE  \E u \in Worker : pc'[u] # "idle" /\ on'[u] = j /\ of'[u] = m
      OBVIOUS
    <3>2. CASE j = i /\ m = n
      BY <1>2, <3>1, <3>2 DEF TypeOK
    <3>3. CASE ~(j = i /\ m = n)
      <4>1. m \in recovering[j]
        BY <1>2, <3>1, <3>3 DEF TypeOK
      <4>2. PICK u \in Worker : pc[u] # "idle" /\ on[u] = j /\ of[u] = m
        BY <1>2, <4>1
      <4> QED
        BY <1>2, <3>1, <4>2 DEF TypeOK
    <3> QED
      BY <3>2, <3>3
  <2>6. ASSUME NEW i \in Inst, Crash(i)
        PROVE  FlagHasWorker'
    BY <1>2, <2>6 DEF Crash, TypeOK
  <2> QED
    BY <1>2, <2>1, <2>2, <2>3, <2>4, <2>5, <2>6, MonitorStepEffect, OtherStepEffect
       DEF Next, vars, knowVars, workVars, jobVars
<1> QED
  BY <1>1, <1>2, Typing, PTL DEF Spec

--------------------------------------------------------------------------------

(* The node's return marks its workers; nothing else makes it online again.   *)
LEMMA SeenOnlineEffect ==
    ASSUME TypeOK, NEW i \in Inst, NEW n \in Node, SeenOnline(i, n)
    PROVE  /\ UNCHANGED <<pc, on, of>>
           /\ status' = [status EXCEPT ![i][n] = "online"]
           /\ \A w \in Worker : outlived[w] => outlived'[w]
           /\ status[i][n] = "offline" =>
                \A w \in Worker : Active(w) /\ on[w] = i /\ of[w] = n => outlived'[w]
<1>1. /\ UNCHANGED <<pc, on, of>>
      /\ status' = [status EXCEPT ![i][n] = "online"]
  BY DEF SeenOnline, jobVars
<1>2. CASE Prev(i, n) = "offline"
  <2>1. outlived' = [w \in Worker |-> outlived[w] \/ w \in WorkersOf(i, n)]
    BY <1>2, Zenon DEF SeenOnline
  <2>2. \A w \in Worker : outlived[w] => outlived'[w]
    BY <2>1, Zenon
  <2>3. ASSUME NEW w \in Worker, Active(w), on[w] = i, of[w] = n
        PROVE  outlived'[w]
    <3>1. w \in WorkersOf(i, n)
      BY <2>3 DEF WorkersOf
    <3> QED
      BY <2>1, <3>1, Zenon
  <2> QED
    BY <1>1, <2>2, <2>3
<1>3. CASE Prev(i, n) # "offline"
  <2>1. UNCHANGED <<recovering, outlived, forced>>
    BY <1>3, Zenon DEF SeenOnline
  <2>2. status[i][n] # "offline"
    BY <1>3 DEF Prev, TypeOK
  <2> QED
    BY <1>1, <2>1, <2>2
<1> QED
  BY <1>2, <1>3

(* A miss makes no node online that was offline, and touches no worker.       *)
LEMMA MissEffect ==
    ASSUME TypeOK, NEW i \in Inst, NEW n \in Node, CountMiss(i, n) \/ DeclareOnly(i, n)
    PROVE  /\ UNCHANGED <<pc, on, of, outlived>>
           /\ \A j \in Inst, m \in Node : status[j][m] = "offline" => status'[j][m] = "offline"
<1>1. UNCHANGED <<pc, on, of, outlived>>
  BY DEF CountMiss, DeclareOnly, workVars, jobVars
<1>2. CASE CountMiss(i, n)
  <2>1. status' = [status EXCEPT ![i][n] = Prev(i, n)]
    BY <1>2 DEF CountMiss
  <2> QED
    BY <1>1, <2>1 DEF Prev, TypeOK
<1>3. CASE DeclareOnly(i, n)
  <2>1. status' = [status EXCEPT ![i][n] = "offline"]
    BY <1>3 DEF DeclareOnly, Declare
  <2> QED
    BY <1>1, <2>1 DEF TypeOK
<1> QED
  BY <1>2, <1>3

LEMMA TriggerEffect ==
    ASSUME TypeOK, NEW i \in Inst, NEW n \in Node, NEW w \in Worker, TriggerRecovery(i, n, w)
    PROVE  /\ pc[w] = "idle"
           /\ \E q \in {"lock", "delay"} : pc' = [pc EXCEPT ![w] = q]
           /\ on' = [on EXCEPT ![w] = i]
           /\ of' = [of EXCEPT ![w] = n]
           /\ outlived' = [outlived EXCEPT ![w] = FALSE]
           /\ status' = [status EXCEPT ![i][n] = "offline"]
           /\ status[i][n] # "offline"
  BY DEF TriggerRecovery, Declare, Active, Prev, TypeOK

(* A second recovery of an outage cannot start: of the workers of one         *)
(* instance on one node, at most one has not seen the node return since it    *)
(* was spawned, and that one works on a node still held for offline.  The     *)
(* first half is inductive because a spawn needs a node held for online.      *)
THEOREM OneRecovery == Spec => []OneRecoveryPerOutage
<1>1. Init => OneRecoveryPerOutage
  BY DEF Init, OneRecoveryPerOutage, CurrentWorkerNodeOffline, OneCurrentWorker, Active
<1>2. ASSUME TypeOK, OneRecoveryPerOutage, [Next]_vars
      PROVE  OneRecoveryPerOutage'
  <2> USE DEF OneRecoveryPerOutage, CurrentWorkerNodeOffline, OneCurrentWorker, Active
  <2>1. CASE UNCHANGED <<status, pc, on, of, outlived>>
    BY <1>2, <2>1
  <2>2. ASSUME NEW w \in Worker, WorkerStep(w)
        PROVE  OneRecoveryPerOutage'
    <3>1. CASE /\ \E q \in PCs \ {"idle"} : pc' = [pc EXCEPT ![w] = q]
               /\ UNCHANGED <<recovering, on, of, outlived>>
      <4>1. pc[w] # "idle" /\ status' = status
        BY <1>2, <2>2, WorkerStepEffect
      <4>2. \A u \in Worker : pc'[u] # "idle" => pc[u] # "idle"
        BY <1>2, <3>1, <4>1 DEF TypeOK
      <4> QED
        BY <1>2, <3>1, <4>1, <4>2
    <3>2. CASE /\ pc' = [pc EXCEPT ![w] = "idle"]
               /\ outlived' = [outlived EXCEPT ![w] = FALSE]
               /\ on' = [on EXCEPT ![w] = AnyInst]
               /\ of' = [of EXCEPT ![w] = AnyNode]
      <4>1. \A u \in Worker : pc'[u] # "idle" =>
              u # w /\ pc'[u] = pc[u] /\ on'[u] = on[u] /\ of'[u] = of[u]
                    /\ outlived'[u] = outlived[u]
        BY <1>2, <3>2 DEF TypeOK
      <4>2. status' = status
        BY <1>2, <2>2, WorkerStepEffect
      <4> QED
        BY <1>2, <4>1, <4>2
    <3> QED
      BY <1>2, <2>2, <3>1, <3>2, WorkerStepEffect
  <2>3. ASSUME NEW i \in Inst, NEW n \in Node, SeenOnline(i, n)
        PROVE  OneRecoveryPerOutage'
    <3>1. /\ UNCHANGED <<pc, on, of>>
          /\ \A w \in Worker : outlived[w] => outlived'[w]
      BY <1>2, <2>3, SeenOnlineEffect
    <3>2. ASSUME NEW w \in Worker, Active(w), ~outlived'[w]
          PROVE  status'[on[w]][of[w]] = "offline"
      <4>1. status[on[w]][of[w]] = "offline"
        BY <1>2, <3>1, <3>2
      <4>2. on[w] # i \/ of[w] # n
        BY <1>2, <2>3, <3>2, <4>1, SeenOnlineEffect
      <4>3. status' = [status EXCEPT ![i][n] = "online"]
        BY <1>2, <2>3, SeenOnlineEffect
      <4> QED
        BY <1>2, <4>1, <4>2, <4>3 DEF TypeOK
    <3> QED
      BY <1>2, <3>1, <3>2
  <2>4. ASSUME NEW i \in Inst, NEW n \in Node, CountMiss(i, n) \/ DeclareOnly(i, n)
        PROVE  OneRecoveryPerOutage'
    BY <1>2, <2>4, MissEffect DEF TypeOK
  <2>5. ASSUME NEW i \in Inst, NEW n \in Node, NEW w \in Worker, TriggerRecovery(i, n, w)
        PROVE  OneRecoveryPerOutage'
    <3>1. \A u \in Worker : pc[u] # "idle" /\ ~outlived[u] => on[u] # i \/ of[u] # n
      BY <1>2, <2>5, TriggerEffect
    <3>2. \A u \in Worker \ {w} : /\ pc'[u] = pc[u] /\ on'[u] = on[u] /\ of'[u] = of[u]
                                  /\ outlived'[u] = outlived[u]
      <4>1. /\ pc' = [pc EXCEPT ![w] = pc'[w]]
            /\ on' = [on EXCEPT ![w] = i] /\ of' = [of EXCEPT ![w] = n]
            /\ outlived' = [outlived EXCEPT ![w] = FALSE]
        BY <1>2, <2>5, TriggerEffect DEF TypeOK
      <4> QED
        BY <1>2, <4>1 DEF TypeOK
    <3>3. on'[w] = i /\ of'[w] = n
      BY <1>2, <2>5, TriggerEffect DEF TypeOK
    <3>4. \A j \in Inst, m \in Node : status[j][m] = "offline" \/ (j = i /\ m = n)
                                        => status'[j][m] = "offline"
      BY <1>2, <2>5, TriggerEffect DEF TypeOK
    <3>5. CurrentWorkerNodeOffline'
      <4>1. ASSUME NEW u \in Worker, pc'[u] # "idle", ~outlived'[u]
            PROVE  status'[on'[u]][of'[u]] = "offline"
        <5>1. CASE u = w
          BY <3>3, <3>4, <5>1
        <5>2. CASE u # w
          <6>1. status[on[u]][of[u]] = "offline"
            BY <1>2, <3>2, <4>1, <5>2
          <6> QED
            BY <1>2, <3>2, <3>4, <5>2, <6>1 DEF TypeOK
        <5> QED
          BY <5>1, <5>2
      <4> QED
        BY <4>1
    <3>6. OneCurrentWorker'
      <4>1. ASSUME NEW u \in Worker, NEW x \in Worker, u # x,
                   pc'[u] # "idle", pc'[x] # "idle",
                   on'[u] = on'[x], of'[u] = of'[x], ~outlived'[u], ~outlived'[x]
            PROVE  FALSE
        <5>1. CASE u = w
          BY <3>1, <3>2, <3>3, <4>1, <5>1
        <5>2. CASE x = w
          BY <3>1, <3>2, <3>3, <4>1, <5>2
        <5>3. CASE u # w /\ x # w
          BY <1>2, <3>2, <4>1, <5>3
        <5> QED
          BY <5>1, <5>2, <5>3
      <4> QED
        BY <4>1
    <3> QED
      BY <3>5, <3>6
  <2>6. ASSUME NEW i \in Inst, Crash(i)
        PROVE  OneRecoveryPerOutage'
    <3>1. \A u \in Worker : pc'[u] # "idle" =>
              /\ on[u] # i
              /\ pc'[u] = pc[u] /\ on'[u] = on[u] /\ of'[u] = of[u] /\ outlived'[u] = outlived[u]
      BY <1>2, <2>6 DEF Crash, TypeOK
    <3>2. \A j \in Inst \ {i} : status'[j] = status[j]
      BY <1>2, <2>6 DEF Crash, TypeOK
    <3> QED
      BY <1>2, <3>1, <3>2 DEF TypeOK
  <2> QED
    BY <1>2, <2>1, <2>2, <2>3, <2>4, <2>5, <2>6, MonitorStepEffect, OtherStepEffect
       DEF Next, vars, knowVars, workVars, jobVars
<1> QED
  BY <1>1, <1>2, Typing, PTL DEF Spec

--------------------------------------------------------------------------------
(* The lock files.                                                            *)

Owns(w, n) ==
    /\ of[w] = n /\ HolderOf[on[w]] = lockFile[n]
    /\ pc[w] \notin {"idle", "lock", "write", "cooldown"}

(* Without the lock no worker is on its way to write a file.                  *)
NoLock ==
    ~UseLock => /\ \A n \in Node : lockFile[n] = NoHolder
                /\ \A w \in Worker : pc[w] \notin {"lock", "write"}

LockInv == TypeOK /\ LockHasOwner /\ NoLock

(* What a worker's step does to the lock files: it leaves them alone and the  *)
(* worker an owner if it was one, writes its own, or removes that of its node.*)
LEMMA LockStepEffect ==
    ASSUME TypeOK, NEW w \in Worker, WorkerStep(w)
    PROVE  \/ /\ UNCHANGED lockFile
              /\ pc[w] \in {"idle", "lock", "write", "cooldown"}
                   \/ pc'[w] \notin {"idle", "lock", "write", "cooldown"}
              /\ pc'[w] \in {"lock", "write"} => pc[w] \in {"lock", "write"}
           \/ LockWrite(w)
           \/ Release(of[w]) /\ pc'[w] \notin {"lock", "write"}
<1> USE DEF GoTo, TypeOK, vars, monVars, knowVars, jobVars, workVars, lockVars, envVars
<1>1. CASE LockStep(w) \/ CancelRecovery(w) \/ DelayOver(w)
  BY <1>1 DEF LockStep, LockRefused, LockFree, CancelRecovery, DelayOver
<1>2. CASE CheckStep(w)
  BY <1>2 DEF CheckStep, FoundNothingRunning, StoppedGuests, CouldNotStop,
              GiveUp, NoGuests, NoTargets, ListGuests
<1>3. CASE GuestStep(w)
  <2>1. UNCHANGED lockFile /\ pc'[w] \in {"pick", "move", "start", "final"}
    BY <1>3 DEF GuestStep, SkipLocal, PickGuest, MoveConfig, StartGuest, RecoveryDone
  <2> QED
    BY <2>1
<1>4. CASE EndStep(w)
  BY <1>4 DEF EndStep, Raises, Finally, CooldownOver
<1> QED
  BY <1>1, <1>2, <1>3, <1>4 DEF WorkerStep

LEMMA LockInvWorker ==
    ASSUME LockInv, TypeOK', NEW w \in Worker, WorkerStep(w)
    PROVE  LockInv'
<1>1. TypeOK /\ of[w] \in Node
  BY DEF LockInv, TypeOK
<1>2. /\ \A u \in Worker : u # w => pc'[u] = pc[u] /\ on'[u] = on[u] /\ of'[u] = of[u]
      /\ pc'[w] # "idle" => on'[w] = on[w] /\ of'[w] = of[w]
  <2>1. CASE /\ \E q \in PCs \ {"idle"} : pc' = [pc EXCEPT ![w] = q]
             /\ UNCHANGED <<on, of>>
    BY <1>1, <2>1 DEF TypeOK
  <2>2. CASE /\ pc' = [pc EXCEPT ![w] = "idle"]
             /\ on' = [on EXCEPT ![w] = AnyInst]
             /\ of' = [of EXCEPT ![w] = AnyNode]
    BY <1>1, <2>2 DEF TypeOK
  <2> QED
    BY <1>1, <2>1, <2>2, WorkerStepEffect
<1>3. pc'[w] # "idle" => on'[w] = on[w] /\ of'[w] = of[w]
  BY <1>2
<1>4. CASE /\ UNCHANGED lockFile
           /\ \/ pc[w] \in {"idle", "lock", "write", "cooldown"}
              \/ pc'[w] \notin {"idle", "lock", "write", "cooldown"}
           /\ pc'[w] \in {"lock", "write"} => pc[w] \in {"lock", "write"}
  <2>1. ASSUME NEW u \in Worker, NEW n \in Node, Owns(u, n) PROVE Owns(u, n)'
    BY <1>2, <1>3, <1>4, <2>1 DEF Owns
  <2>2. LockHasOwner'
    BY <1>4, <2>1 DEF LockInv, LockHasOwner, Owns
  <2>3. NoLock'
    BY <1>2, <1>4 DEF LockInv, NoLock
  <2> QED
    BY <2>2, <2>3 DEF LockInv
<1>5. CASE LockWrite(w)
  <2>1. /\ pc[w] = "write" /\ pc'[w] = "delay" /\ UseLock
        /\ lockFile' = [lockFile EXCEPT ![of[w]] = HolderOf[on[w]]]
    BY <1>1, <1>5 DEF LockWrite, GoTo, LockInv, NoLock, TypeOK
  <2>2. Owns(w, of[w])'
    BY <1>1, <1>3, <2>1 DEF Owns, TypeOK
  <2>3. ASSUME NEW n \in Node, n # of[w], lockFile'[n] # NoHolder
        PROVE  \E u \in Worker : Owns(u, n)'
    <3>1. lockFile'[n] = lockFile[n]
      BY <2>1, <2>3 DEF LockInv, TypeOK
    <3>2. PICK u \in Worker : Owns(u, n)
      BY <2>3, <3>1 DEF LockInv, LockHasOwner, Owns
    <3> QED
      BY <1>2, <2>3, <3>1, <3>2 DEF Owns
  <2>4. of'[w] = of[w]
    BY <1>3, <2>1
  <2> QED
    BY <2>1, <2>2, <2>3, <2>4 DEF LockInv, LockHasOwner, NoLock, Owns
<1>6. CASE Release(of[w]) /\ pc'[w] \notin {"lock", "write"}
  <2>1. CASE ~UseLock
    BY <1>2, <1>6, <2>1 DEF Release, LockInv, LockHasOwner, NoLock
  <2>2. CASE UseLock
    <3>1. lockFile' = [lockFile EXCEPT ![of[w]] = NoHolder]
      BY <1>6, <2>2 DEF Release
    <3>2. ASSUME NEW n \in Node, lockFile'[n] # NoHolder
          PROVE  \E u \in Worker : Owns(u, n)'
      <4>1. n # of[w] /\ lockFile'[n] = lockFile[n]
        BY <3>1, <3>2 DEF LockInv, TypeOK
      <4>2. PICK u \in Worker : Owns(u, n)
        BY <3>2, <4>1 DEF LockInv, LockHasOwner, Owns
      <4> QED
        BY <1>2, <4>1, <4>2 DEF Owns
    <3> QED
      BY <2>2, <3>2 DEF LockInv, LockHasOwner, NoLock, Owns
  <2> QED
    BY <2>1, <2>2
<1> QED
  BY <1>1, <1>4, <1>5, <1>6, LockStepEffect

(* Where no instance crashes, every lock file names an instance with a worker *)
(* on the node that will remove it: no path through the recovery leaves one.  *)
THEOREM LocksHaveOwners == ASSUME ~Crashes PROVE Spec => []LockHasOwner
<1>1. Init => LockInv
  BY InitType DEF Init, LockInv, LockHasOwner, NoLock
<1>2. ASSUME LockInv, TypeOK', [Next]_vars PROVE LockInv'
  <2>1. CASE UNCHANGED <<lockFile, pc, on, of>>
    BY <1>2, <2>1 DEF LockInv, LockHasOwner, NoLock
  <2>2. CASE EnvStep \/ \E i \in Inst : OperatorStep(i)
    <3>1. UNCHANGED <<lockFile, pc, on, of>>
      BY <2>2 DEF EnvStep, NodeFails, NodeReturns, LockAges, OperatorStep, StartHA, StartMonitor, StopHA,
                  ToggleMaintenance, workVars, jobVars, lockVars
    <3> QED
      BY <2>1, <3>1
  <2>3. CASE \E i \in Inst : MonitorStep(i)
    <3> PICK i \in Inst : MonitorStep(i)
      BY <2>3
    <3>1. CASE \E n \in Node, w \in Worker : TriggerRecovery(i, n, w)
      <4> PICK n \in Node, w \in Worker : TriggerRecovery(i, n, w)
        BY <3>1
      <4>1. /\ UNCHANGED lockFile /\ pc[w] = "idle"
            /\ pc'[w] = IF UseLock THEN "lock" ELSE "delay"
            /\ \A u \in Worker : u # w => pc'[u] = pc[u] /\ on'[u] = on[u] /\ of'[u] = of[u]
        BY <1>2 DEF TriggerRecovery, Active, LockInv, TypeOK, lockVars
      <4> QED
        BY <1>2, <4>1 DEF LockInv, LockHasOwner, NoLock
    <3>2. CASE ~\E n \in Node, w \in Worker : TriggerRecovery(i, n, w)
      <4>1. UNCHANGED <<lockFile, pc, on, of>>
        BY <3>2 DEF MonitorStep, LoopEnds, BeginPoll, SeenOnline, CountMiss, DeclareOnly,
                    workVars, jobVars, lockVars
      <4> QED
        BY <2>1, <4>1
    <3> QED
      BY <3>1, <3>2
  <2>4. CASE \E w \in Worker : WorkerStep(w)
    BY <1>2, <2>4, LockInvWorker
  <2> QED
    BY <1>2, <2>1, <2>2, <2>3, <2>4 DEF Next, Crash, vars, workVars, jobVars, lockVars
<1>3. LockInv => LockHasOwner
  BY DEF LockInv
<1> QED
  BY <1>1, <1>2, <1>3, Typing, PTL DEF Spec

--------------------------------------------------------------------------------
(* Who moves configurations.                                                 *)

(* The target in hand is one of those listed when the recovery began.         *)
TargetListed == \A w \in Worker : pc[w] = "move" => dest[w] \in avail[w]

LEMMA TargetListedStep ==
    ASSUME TypeOK, TargetListed, Next
    PROVE  TargetListed'
<1> USE DEF TargetListed, TypeOK, vars, monVars, knowVars, jobVars, workVars, lockVars, envVars
<1>1. CASE UNCHANGED <<pc, dest, avail>>
  BY <1>1
<1>2. ASSUME NEW i \in Inst, NEW n \in Node, NEW u \in Worker, TriggerRecovery(i, n, u)
      PROVE  TargetListed'
  BY <1>2 DEF TriggerRecovery
<1>3. ASSUME NEW i \in Inst, Crash(i)
      PROVE  TargetListed'
  BY <1>3 DEF Crash
<1>4. ASSUME NEW w \in Worker, WorkerStep(w)
      PROVE  TargetListed'
  <2>1. CASE PickGuest(w)
    <3>1. \E t \in avail[w] : dest' = [dest EXCEPT ![w] = t]
      BY <2>1 DEF PickGuest
    <3>2. pc' = [pc EXCEPT ![w] = "move"] /\ avail' = avail
      BY <2>1 DEF PickGuest, GoTo
    <3> QED
      BY <3>1, <3>2
  <2>2. CASE /\ \E p \in PCs \ {"move"} : pc' = [pc EXCEPT ![w] = p]
             /\ \A u \in Worker : u # w => dest'[u] = dest[u] /\ avail'[u] = avail[u]
    BY <2>2
  <2>3. CASE LockStep(w) \/ CancelRecovery(w) \/ DelayOver(w)
    BY <2>2, <2>3 DEF LockStep, LockRefused, LockFree, LockWrite, CancelRecovery, DelayOver,
                      GoTo, PCs
  <2>4. CASE CheckStep(w)
    BY <2>2, <2>4 DEF CheckStep, FoundNothingRunning, StoppedGuests, CouldNotStop,
                      GiveUp, NoGuests, NoTargets, ListGuests, GoTo, PCs
  <2>5. CASE SkipLocal(w)
    BY <2>5 DEF SkipLocal
  <2>6. CASE MoveConfig(w) \/ StartGuest(w) \/ RecoveryDone(w)
    BY <2>2, <2>6 DEF MoveConfig, StartGuest, RecoveryDone, GoTo, PCs
  <2>7. CASE EndStep(w)
    BY <2>2, <2>7 DEF EndStep, Raises, Finally, CooldownOver, Forget, GoTo, PCs
  <2> QED
    BY <1>4, <2>1, <2>3, <2>4, <2>5, <2>6, <2>7 DEF WorkerStep, GuestStep
<1>5. EnvStep => UNCHANGED <<pc, dest, avail>>
  BY DEF EnvStep, NodeFails, NodeReturns, LockAges
<1>6. \A i \in Inst : OperatorStep(i) => UNCHANGED <<pc, dest, avail>>
  BY DEF OperatorStep, StartHA, StartMonitor, StopHA, ToggleMaintenance
<1>7. \A i \in Inst : MonitorStep(i) => \/ UNCHANGED <<pc, dest, avail>>
                                        \/ \E n \in Node, u \in Worker : TriggerRecovery(i, n, u)
  BY DEF MonitorStep, LoopEnds, BeginPoll, SeenOnline, CountMiss, DeclareOnly
<1> HIDE DEF TargetListed, TypeOK
<1> QED
  BY <1>1, <1>2, <1>3, <1>4, <1>5, <1>6, <1>7 DEF Next

(* Only MoveConfig writes a configuration, and only that of the guest in hand. *)
LEMMA ConfStep ==
    ASSUME TypeInv, TargetListed, [Next]_vars, NEW v \in VM, conf'[v] # conf[v]
    PROVE  \E w \in Worker : /\ pc[w] = "move" /\ vm[w] = v
                             /\ conf[v] = of[w] /\ conf'[v] \in avail[w]
<1>1. PICK w \in Worker : MoveConfig(w)
  <2>1. conf' # conf
    OBVIOUS
  <2>2. \A w \in Worker : WorkerStep(w) => UNCHANGED conf \/ MoveConfig(w)
    BY DEF WorkerStep, LockStep, LockRefused, LockFree, LockWrite, CancelRecovery, DelayOver,
           CheckStep, FoundNothingRunning, StoppedGuests, CouldNotStop, GiveUp, NoGuests,
           NoTargets, ListGuests, GuestStep, SkipLocal, PickGuest, StartGuest,
           RecoveryDone, EndStep, Raises, Finally, CooldownOver, envVars
  <2>3. EnvStep \/ (\E i \in Inst : OperatorStep(i) \/ Crash(i)) => UNCHANGED conf
    BY DEF EnvStep, NodeFails, NodeReturns, LockAges, OperatorStep, StartHA, StartMonitor, StopHA,
           ToggleMaintenance, Crash, envVars
  <2>4. \A i \in Inst : MonitorStep(i) => UNCHANGED conf
    BY DEF MonitorStep, LoopEnds, BeginPoll, SeenOnline, CountMiss, DeclareOnly,
           TriggerRecovery, envVars
  <2>5. UNCHANGED vars => UNCHANGED conf
    BY DEF vars, envVars
  <2> QED
    BY <2>1, <2>2, <2>3, <2>4, <2>5 DEF Next
<1>2. pc[w] = "move" /\ vm[w] \in VM /\ dest[w] \in avail[w]
  BY <1>1 DEF MoveConfig, GoTo, TypeInv, InHand, TargetListed
<1>3. conf[vm[w]] = of[w] /\ conf' = [conf EXCEPT ![vm[w]] = dest[w]]
  BY <1>1, Zenon DEF MoveConfig, CanMove
<1>4. vm[w] = v /\ conf'[v] = dest[w]
  BY <1>2, <1>3 DEF TypeInv, TypeOK
<1> QED
  BY <1>2, <1>3, <1>4

(* Whatever fails, crashes, comes back or is lost, a guest's configuration is *)
(* moved only by a worker that recovers the node which holds it, to a node    *)
(* that the worker listed as online and in service: workers that are late, or *)
(* of another instance, cannot move it back or on.                            *)
THEOREM MovesOffFailedNode == Spec => MovesOnlyOffFailedNode
<1> DEFINE P == \A v \in VM : conf'[v] # conf[v] =>
                  \E w \in Worker : /\ pc[w] = "move" /\ vm[w] = v
                                    /\ conf[v] = of[w] /\ conf'[v] \in avail[w]
<1>1. Init => TypeInv /\ TargetListed
  BY InitType DEF TypeInv, InHand, TargetListed, Init
<1>2. TypeInv /\ TargetListed /\ [Next]_vars => (TypeInv /\ TargetListed)'
  <2>1. TypeInv /\ TargetListed /\ Next => TargetListed'
    BY TargetListedStep DEF TypeInv
  <2>2. TargetListed /\ UNCHANGED vars => TargetListed'
    BY DEF TargetListed, vars, workVars, jobVars
  <2> QED
    BY <2>1, <2>2, TypeStep
<1>3. TypeInv /\ TargetListed /\ [Next]_vars => [P]_vars
  BY ConfStep
<1> HIDE DEF P
<1>4. [][P]_vars <=> MovesOnlyOffFailedNode
  BY DEF P, MovesOnlyOffFailedNode
<1> QED
  BY <1>1, <1>2, <1>3, <1>4, PTL DEF Spec

--------------------------------------------------------------------------------
(* When the recovery code does prevent split brain: if a node that failed does *)
(* not come back, a guest runs twice only after a worker went on although it    *)
(* still ran.  Instances, workers, races for the lock file, failing operations  *)
(* and crashes of PegaProx do not matter.                                       *)

(* A powered-off node runs nothing. *)
DownRunsNothing == \A n \in Node : state[n] = "down" => Running(n) = {}

(* What the monitor takes for gone is gone. *)
ReportsTrue ==
    \A i \in Inst, n \in Node :
        /\ n \in pending[i] \ seen[i] => state[n] # "up"
        /\ status[i][n] = "offline" => state[n] # "up"

Checked == {"list", "pick", "move", "start"}

(* A worker works on a node that failed; what runs there past the check has     *)
(* been given up on.                                                            *)
WorkersRight ==
    \A w \in Worker :
        /\ Active(w) => state[of[w]] # "up"
        /\ pc[w] \in Checked => Running(of[w]) \subseteq unstopped

(* Any other guest runs at most where its configuration is. *)
RunsAtHome == \A v \in VM \ unstopped : runs[v] \subseteq {conf[v]}

SafeInv == DownRunsNothing /\ ReportsTrue /\ WorkersRight /\ RunsAtHome

LEMMA HomeGivesSingle ==
    ASSUME TypeOK, RunsAtHome
    PROVE  OnlyUnstoppedRunTwice
<1>1. ASSUME NEW v \in VM \ unstopped PROVE Cardinality(runs[v]) <= 1
  <2>1. IsFiniteSet({conf[v]}) /\ Cardinality({conf[v]}) = 1
    BY FS_Singleton
  <2>2. Cardinality(runs[v]) <= Cardinality({conf[v]})
    BY <2>1, FS_Subset DEF RunsAtHome
  <2> QED
    BY <2>1, <2>2
<1> QED
  BY <1>1 DEF OnlyUnstoppedRunTwice

(* A step that lets guests only stop, nodes only fail and configurations alone *)
(* keeps what is said of nodes and guests.                                     *)
LEMMA Decay ==
    ASSUME TypeOK, SafeInv,
           conf' = conf,
           \A v \in VM : runs'[v] \subseteq runs[v],
           \A n \in Node : state[n] # "up" => state'[n] # "up",
           \A n \in Node : state'[n] = "down" => state[n] = "down" \/ Running(n)' = {},
           unstopped \subseteq unstopped',
           UNCHANGED <<pending, seen, status>>
    PROVE  /\ DownRunsNothing' /\ ReportsTrue' /\ RunsAtHome'
           /\ \A n \in Node : Running(n)' \subseteq Running(n)
<1>1. \A n \in Node : Running(n)' \subseteq Running(n)
  BY DEF Running
<1>2. DownRunsNothing'
  BY <1>1 DEF SafeInv, DownRunsNothing
<1>3. ReportsTrue'
  BY DEF SafeInv, ReportsTrue, TypeOK
<1>4. RunsAtHome'
  BY DEF SafeInv, RunsAtHome
<1> QED
  BY <1>1, <1>2, <1>3, <1>4

(* What is said of workers survives, if no node comes up, nothing starts on a  *)
(* node that has failed, and a worker that passes the check has reason to.     *)
LEMMA WorkersKeep ==
    ASSUME TypeOK, WorkersRight,
           \A n \in Node : state[n] # "up" => state'[n] # "up",
           \A n \in Node : state[n] # "up" => Running(n)' \subseteq Running(n),
           unstopped \subseteq unstopped',
           \A u \in Worker : pc'[u] # "idle" =>
              /\ pc[u] # "idle" /\ of'[u] = of[u]
              /\ pc'[u] \in Checked => pc[u] \in Checked \/ Running(of[u])' \subseteq unstopped'
    PROVE  WorkersRight'
<1> DEFINE Right(p, n) == /\ state'[n] # "up"
                          /\ p \in Checked => \A v \in VM \ unstopped' : n \notin runs'[v]
<1>1. ASSUME NEW u \in Worker, pc'[u] # "idle" PROVE Right(pc'[u], of'[u])
  <2>1. pc[u] # "idle" /\ of'[u] = of[u] /\ of[u] \in Node
    BY <1>1 DEF TypeOK
  <2>2. state[of[u]] # "up" /\ state'[of[u]] # "up"
    BY <2>1 DEF WorkersRight, Active
  <2>3. ASSUME pc'[u] \in Checked PROVE Running(of[u])' \subseteq unstopped'
    <3>1. CASE pc[u] \in Checked
      BY <2>1, <2>2, <3>1 DEF WorkersRight
    <3>2. CASE pc[u] \notin Checked
      BY <1>1, <2>3, <3>2
    <3> QED
      BY <3>1, <3>2
  <2>4. pc'[u] \in Checked => \A v \in VM \ unstopped' : of'[u] \notin runs'[v]
    BY <2>1, <2>3 DEF Running
  <2> QED
    BY <2>1, <2>2, <2>4
<1>2. ASSUME NEW u \in Worker, pc'[u] \in Checked PROVE pc'[u] # "idle"
  BY <1>2 DEF Checked
<1> QED
  BY <1>1, <1>2 DEF WorkersRight, Active, Running, Checked

(* Fencing a node is a decay. *)
LEMMA FenceDecay ==
    ASSUME TypeOK, NEW n \in Node, Fence(n)
    PROVE  /\ \A v \in VM : runs'[v] \subseteq runs[v]
           /\ \A m \in Node : state[m] # "up" => state'[m] # "up"
           /\ \A m \in Node : state'[m] = "down" => state[m] = "down" \/ Running(m)' = {}
<1>1. CASE PowerOff(n)
  BY <1>1 DEF PowerOff, Running, TypeOK
<1>2. CASE UNCHANGED <<state, runs>>
  BY <1>2
<1> QED
  BY <1>1, <1>2 DEF Fence

LEMMA DecayStep ==
    ASSUME TypeOK, SafeInv,
           conf' = conf,
           \A v \in VM : runs'[v] \subseteq runs[v],
           \A n \in Node : state[n] # "up" => state'[n] # "up",
           \A n \in Node : state'[n] = "down" => state[n] = "down" \/ Running(n)' = {},
           unstopped \subseteq unstopped',
           UNCHANGED <<pending, seen, status>>,
           \A u \in Worker : pc'[u] # "idle" =>
              /\ pc[u] # "idle" /\ of'[u] = of[u]
              /\ pc'[u] \in Checked => pc[u] \in Checked \/ Running(of[u])' \subseteq unstopped'
    PROVE  SafeInv'
<1>1. /\ DownRunsNothing' /\ ReportsTrue' /\ RunsAtHome'
      /\ \A n \in Node : Running(n)' \subseteq Running(n)
  BY Decay
<1>2. WorkersRight'
  BY <1>1, WorkersKeep DEF SafeInv
<1> QED
  BY <1>1, <1>2 DEF SafeInv

LEMMA WorkerSafe ==
    ASSUME TypeOK, InHand, SafeInv, NEW w \in Worker, WorkerStep(w)
    PROVE  SafeInv'
<1> of[w] \in Node /\ on[w] \in Inst
  BY DEF TypeOK
<1>0. UNCHANGED <<pending, seen, status>>
  BY DEF WorkerStep, LockStep, LockRefused, LockFree, LockWrite, CancelRecovery, DelayOver,
         CheckStep, FoundNothingRunning, StoppedGuests, CouldNotStop, GiveUp, NoGuests,
         NoTargets, ListGuests, GuestStep, SkipLocal, PickGuest, MoveConfig, StartGuest,
         RecoveryDone, EndStep, Raises, Finally, CooldownOver, monVars, knowVars
<1>1. CASE /\ UNCHANGED <<state, conf, runs>> /\ unstopped \subseteq unstopped'
           /\ \A u \in Worker : pc'[u] # "idle" =>
                 /\ pc[u] # "idle" /\ of'[u] = of[u]
                 /\ pc'[u] \in Checked => pc[u] \in Checked \/ Running(of[u]) \subseteq unstopped'
  <2>1. \A n \in Node : Running(n)' = Running(n)
    BY <1>1 DEF Running
  <2>2. DownRunsNothing' /\ ReportsTrue' /\ RunsAtHome'
    BY <1>0, <1>1, <2>1 DEF SafeInv, DownRunsNothing, ReportsTrue, RunsAtHome
  <2>3. \A u \in Worker : of[u] \in Node
    BY DEF TypeOK
  <2>4. WorkersRight'
    BY <1>1, <2>1, <2>3, WorkersKeep DEF SafeInv
  <2> QED
    BY <2>2, <2>4 DEF SafeInv
<1>2. CASE LockStep(w) \/ CancelRecovery(w) \/ DelayOver(w) \/ GiveUp(w)
           \/ RecoveryDone(w) \/ Raises(w) \/ Finally(w)
  <2>1. /\ UNCHANGED <<state, conf, runs, of, unstopped>>
        /\ pc[w] # "idle"
        /\ \E q \in {"final", "write", "delay", "check", "cooldown"} : pc' = [pc EXCEPT ![w] = q]
    BY <1>2 DEF LockStep, LockRefused, LockFree, LockWrite, CancelRecovery, DelayOver,
                GiveUp, RecoveryDone, Raises, Finally, GoTo, jobVars, envVars
  <2> QED
    BY <1>1, <2>1 DEF TypeOK, Checked
<1>3. CASE SkipLocal(w)
  BY <1>1, <1>3 DEF SkipLocal, TypeOK, envVars
<1>4. CASE CooldownOver(w)
  <2>1. /\ UNCHANGED <<state, conf, runs, unstopped>>
        /\ pc' = [pc EXCEPT ![w] = "idle"]
        /\ of' = [of EXCEPT ![w] = AnyNode]
    BY <1>4 DEF CooldownOver, Forget, GoTo, envVars
  <2> QED
    BY <1>1, <2>1 DEF TypeOK
<1>5. CASE FoundNothingRunning(w)
  <2>1. /\ UNCHANGED <<state, conf, runs, of>>
        /\ pc[w] = "check" /\ pc' = [pc EXCEPT ![w] = "list"]
        /\ unstopped' = unstopped \cup Running(of[w])
    BY <1>5 DEF FoundNothingRunning, GoTo, jobVars
  <2> QED
    BY <1>1, <2>1 DEF TypeOK
<1>6. CASE StoppedGuests(w)
  <2>1. /\ UNCHANGED <<state, conf, of, unstopped>>
        /\ pc[w] = "check" /\ pc' = [pc EXCEPT ![w] = "list"]
        /\ runs' = [v \in VM |-> runs[v] \ {of[w]}]
    BY <1>6 DEF StoppedGuests, GoTo, jobVars
  <2>2. Running(of[w])' = {}
    BY <2>1 DEF Running
  <2>3. \A v \in VM : runs'[v] \subseteq runs[v]
    BY <2>1
  <2>4. \A u \in Worker : pc'[u] # "idle" =>
              /\ pc[u] # "idle" /\ of'[u] = of[u]
              /\ pc'[u] \in Checked => pc[u] \in Checked \/ Running(of[u])' \subseteq unstopped'
    BY <2>1, <2>2 DEF TypeOK
  <2> QED
    BY <1>0, <2>1, <2>3, <2>4, DecayStep
<1>7. CASE CouldNotStop(w)
  <2>1. PICK left \in SUBSET Running(of[w]) :
          /\ runs' = [v \in VM |-> IF v \in left THEN runs[v] ELSE runs[v] \ {of[w]}]
          /\ \/ pc' = [pc EXCEPT ![w] = "final"] /\ unstopped' = unstopped
             \/ pc' = [pc EXCEPT ![w] = "list"] /\ unstopped' = unstopped \cup left
    BY <1>7 DEF CouldNotStop, GoTo
  <2>2. UNCHANGED <<state, conf, of>> /\ pc[w] = "check"
    BY <1>7 DEF CouldNotStop, GoTo, jobVars
  <2>3. \A v \in VM : runs'[v] \subseteq runs[v]
    BY <2>1 DEF TypeOK
  <2>4. Running(of[w])' \subseteq left
    BY <2>1, <2>2 DEF Running
  <2>5. \A u \in Worker : pc'[u] # "idle" =>
              /\ pc[u] # "idle" /\ of'[u] = of[u]
              /\ pc'[u] \in Checked => pc[u] \in Checked \/ Running(of[u])' \subseteq unstopped'
    BY <2>1, <2>2, <2>4 DEF TypeOK, Checked
  <2>6. unstopped \subseteq unstopped'
    BY <2>1
  <2> QED
    BY <1>0, <2>2, <2>3, <2>5, <2>6, DecayStep
<1>8. CASE NoGuests(w) \/ NoTargets(w) \/ ListGuests(w) \/ PickGuest(w)
  <2>1. /\ UNCHANGED <<conf, of, unstopped>>
        /\ pc[w] \in Checked
        /\ \E q \in PCs : pc' = [pc EXCEPT ![w] = q]
        /\ Fence(of[w])
    BY <1>8 DEF NoGuests, NoTargets, ListGuests, PickGuest, GoTo, jobVars, Checked, PCs
  <2>2. \A u \in Worker : pc'[u] # "idle" =>
              /\ pc[u] # "idle" /\ of'[u] = of[u]
              /\ pc'[u] \in Checked => pc[u] \in Checked
    BY <2>1 DEF TypeOK, Checked
  <2> QED
    BY <1>0, <2>1, <2>2, FenceDecay, DecayStep
<1>9. CASE MoveConfig(w)
  <2>1. /\ pc[w] = "move" /\ pc' = [pc EXCEPT ![w] = "start"]
        /\ UNCHANGED <<of, state, runs, unstopped>>
    BY <1>9 DEF MoveConfig, GoTo, jobVars
  <2>2. vm[w] \in VM /\ dest[w] \in Node /\ Running(of[w]) \subseteq unstopped
    BY <2>1 DEF InHand, SafeInv, WorkersRight, Checked
  <2>3. \A n \in Node : Running(n)' = Running(n)
    BY <2>1 DEF Running
  <2>4. DownRunsNothing' /\ ReportsTrue'
    BY <1>0, <2>1, <2>3 DEF SafeInv, DownRunsNothing, ReportsTrue
  <2>5. \A u \in Worker : of[u] \in Node
    BY DEF TypeOK
  <2>6. \A u \in Worker : pc'[u] # "idle" =>
              /\ pc[u] # "idle" /\ of'[u] = of[u]
              /\ pc'[u] \in Checked => pc[u] \in Checked
    BY <2>1 DEF TypeOK, Checked
  <2>7. WorkersRight'
    BY <2>1, <2>3, <2>5, <2>6, WorkersKeep DEF SafeInv
  <2>8. RunsAtHome'
    <3>1. CASE UNCHANGED conf
      BY <2>1, <3>1 DEF SafeInv, RunsAtHome
    <3>2. CASE CanMove(w) /\ conf' = [conf EXCEPT ![vm[w]] = dest[w]]
      <4>1. vm[w] \in unstopped \/ runs[vm[w]] = {}
        BY <2>2, <3>2 DEF CanMove, SafeInv, RunsAtHome, Running
      <4> QED
        BY <2>1, <2>2, <3>2, <4>1 DEF SafeInv, RunsAtHome, TypeOK
    <3> QED
      BY <1>9, <3>1, <3>2 DEF MoveConfig
  <2> QED
    BY <2>4, <2>7, <2>8 DEF SafeInv
<1>10. CASE StartGuest(w)
  <2>1. /\ pc[w] = "start" /\ pc' = [pc EXCEPT ![w] = "pick"]
        /\ UNCHANGED <<of, state, conf, unstopped>>
    BY <1>10 DEF StartGuest, GoTo
  <2>2. vm[w] \in VM /\ dest[w] \in Node
    BY <2>1 DEF InHand
  <2>3. CASE UNCHANGED runs
    BY <1>1, <2>1, <2>3 DEF TypeOK, Checked
  <2>4. CASE CanStart(w) /\ runs' = [runs EXCEPT ![vm[w]] = @ \cup {dest[w]}]
    <3>1. \A n \in Node : state[n] # "up" => Running(n)' = Running(n)
      BY <2>2, <2>4 DEF CanStart, Running, TypeOK
    <3>2. DownRunsNothing' /\ ReportsTrue'
      BY <1>0, <2>1, <3>1 DEF SafeInv, DownRunsNothing, ReportsTrue
    <3>3. RunsAtHome'
      BY <2>1, <2>2, <2>4 DEF CanStart, SafeInv, RunsAtHome, TypeOK
    <3>4. \A u \in Worker : pc'[u] # "idle" =>
              /\ pc[u] # "idle" /\ of'[u] = of[u]
              /\ pc'[u] \in Checked => pc[u] \in Checked
      BY <2>1 DEF TypeOK, Checked
    <3>5. WorkersRight'
      BY <2>1, <3>1, <3>4, WorkersKeep DEF SafeInv
    <3> QED
      BY <3>2, <3>3, <3>5 DEF SafeInv
  <2> QED
    BY <1>10, <2>3, <2>4 DEF StartGuest
<1> QED
  BY <1>2, <1>3, <1>4, <1>5, <1>6, <1>7, <1>8, <1>9, <1>10
     DEF WorkerStep, CheckStep, GuestStep, EndStep

(* The monitor changes nothing in the cluster, and declares only nodes offline *)
(* that its report misses: they failed, and do not come back.                  *)
LEMMA MonitorSafe ==
    ASSUME TypeOK, SafeInv, NEW i \in Inst, MonitorStep(i)
    PROVE  SafeInv'
<1>1. UNCHANGED <<state, conf, runs, unstopped>>
  BY DEF MonitorStep, LoopEnds, BeginPoll, SeenOnline, CountMiss, DeclareOnly,
         TriggerRecovery, envVars
<1>2. DownRunsNothing' /\ RunsAtHome'
  BY <1>1 DEF SafeInv, DownRunsNothing, RunsAtHome, Running
<1>3. CASE UNCHANGED <<pc, of>> /\ ReportsTrue'
  <2>1. \A n \in Node : Running(n)' = Running(n)
    BY <1>1 DEF Running
  <2>2. WorkersRight'
    BY <1>1, <1>3, <2>1, WorkersKeep DEF SafeInv, TypeOK
  <2> QED
    BY <1>2, <1>3, <2>2 DEF SafeInv
<1>4. CASE LoopEnds(i)
  BY <1>1, <1>3, <1>4 DEF LoopEnds, SafeInv, ReportsTrue, knowVars, workVars, jobVars
<1>5. CASE BeginPoll(i)
  <2>1. ReportsTrue'
    BY <1>1, <1>5 DEF BeginPoll, SafeInv, ReportsTrue, knowVars, TypeOK
  <2> QED
    BY <1>3, <1>5, <2>1 DEF BeginPoll, workVars, jobVars
<1>6. ASSUME NEW n \in Node, SeenOnline(i, n)
      PROVE  SafeInv'
  <2>1. /\ pending' = [pending EXCEPT ![i] = @ \ {n}] /\ seen' = seen
        /\ status' = [status EXCEPT ![i][n] = "online"]
    BY <1>6 DEF SeenOnline, Handled
  <2>2. ReportsTrue'
    BY <1>1, <2>1 DEF SafeInv, ReportsTrue, TypeOK
  <2> QED
    BY <1>3, <1>6, <2>2, SeenOnlineEffect
<1>7. ASSUME NEW n \in Node, Missed(i, n),
             \E q \in {"untracked", "online", "offline"} : status' = [status EXCEPT ![i][n] = q]
      PROVE  ReportsTrue' /\ state[n] # "up"
  <2>1. /\ pending' = [pending EXCEPT ![i] = @ \ {n}] /\ seen' = seen
        /\ n \in pending[i] \ seen[i]
    BY <1>7 DEF Missed, Handled
  <2> QED
    BY <1>1, <1>7, <2>1 DEF SafeInv, ReportsTrue, TypeOK
<1>8. ASSUME NEW n \in Node, CountMiss(i, n) \/ DeclareOnly(i, n)
      PROVE  SafeInv'
  <2>1. /\ Missed(i, n)
        /\ \E q \in {"untracked", "online", "offline"} : status' = [status EXCEPT ![i][n] = q]
    BY <1>8 DEF CountMiss, DeclareOnly, Declare, Prev, TypeOK
  <2> QED
    BY <1>3, <1>7, <1>8, <2>1, MissEffect
<1>9. ASSUME NEW n \in Node, NEW w \in Worker, TriggerRecovery(i, n, w)
      PROVE  SafeInv'
  <2>1. Missed(i, n) /\ status' = [status EXCEPT ![i][n] = "offline"]
    BY <1>9 DEF TriggerRecovery, Declare
  <2>2. ReportsTrue' /\ state[n] # "up"
    BY <1>7, <2>1
  <2>3. /\ \E q \in {"lock", "delay"} : pc' = [pc EXCEPT ![w] = q]
        /\ of' = [of EXCEPT ![w] = n]
    BY <1>9, TriggerEffect
  <2>4. \A u \in Worker : pc'[u] # "idle" =>
            \/ pc'[u] \notin Checked /\ of'[u] = n
            \/ pc'[u] = pc[u] /\ of'[u] = of[u]
    BY <2>3 DEF TypeOK, Checked
  <2>5. \A u \in Worker : of[u] \in Node
    BY DEF TypeOK
  <2>6. WorkersRight'
    BY <1>1, <2>2, <2>4, <2>5 DEF SafeInv, WorkersRight, Active, Running, Checked
  <2> QED
    BY <1>2, <2>2, <2>6 DEF SafeInv
<1> QED
  BY <1>4, <1>5, <1>6, <1>8, <1>9 DEF MonitorStep

(* Failures, operators and restarts of PegaProx do no harm either. *)
LEMMA OtherSafe ==
    ASSUME TypeOK, SafeInv, ~Returns,
           EnvStep \/ \E i \in Inst : OperatorStep(i) \/ Crash(i)
    PROVE  SafeInv'
<1>1. ASSUME NEW n \in Node, NodeFails(n)
      PROVE  SafeInv'
  <2>1. UNCHANGED <<pending, seen, status, pc, of, conf, unstopped>>
    BY <1>1 DEF NodeFails, monVars, knowVars, workVars, jobVars
  <2>2. /\ \A v \in VM : runs'[v] \subseteq runs[v]
        /\ \A m \in Node : state[m] # "up" => state'[m] # "up"
        /\ \A m \in Node : state'[m] = "down" => state[m] = "down" \/ Running(m)' = {}
    <3>1. CASE PowerOff(n)
      BY <3>1 DEF PowerOff, Running, TypeOK
    <3>2. CASE state' = [state EXCEPT ![n] = "split"] /\ UNCHANGED runs
      BY <3>2 DEF TypeOK
    <3> QED
      BY <1>1, <3>1, <3>2 DEF NodeFails
  <2> QED
    BY <2>1, <2>2, DecayStep
<1>2. \A n \in Node : ~NodeReturns(n)
  BY DEF NodeReturns
<1>3. CASE UNCHANGED <<pending, seen, status, pc, of, state, conf, runs, unstopped>>
  BY <1>3 DEF SafeInv, DownRunsNothing, ReportsTrue, WorkersRight, RunsAtHome,
              Active, Checked, Running
<1>4. ASSUME NEW n \in Node, LockAges(n)
      PROVE  SafeInv'
  BY <1>3, <1>4 DEF LockAges, monVars, knowVars, workVars, jobVars, envVars
<1>5. ASSUME NEW i \in Inst, OperatorStep(i)
      PROVE  SafeInv'
  BY <1>3, <1>5 DEF OperatorStep, StartHA, StartMonitor, StopHA, ToggleMaintenance, monVars, knowVars,
                    workVars, jobVars, envVars
<1>6. ASSUME NEW i \in Inst, Crash(i)
      PROVE  SafeInv'
  <2>1. /\ UNCHANGED <<seen, state, conf, runs, unstopped>>
        /\ pending' = [pending EXCEPT ![i] = {}]
        /\ status' = [status EXCEPT ![i] = [n \in Node |-> "untracked"]]
    BY <1>6 DEF Crash, envVars
  <2>2. \A u \in Worker : pc'[u] # "idle" => pc'[u] = pc[u] /\ of'[u] = of[u]
    BY <1>6 DEF Crash, TypeOK
  <2>3. ReportsTrue'
    BY <2>1 DEF SafeInv, ReportsTrue, TypeOK
  <2>4. DownRunsNothing' /\ RunsAtHome'
    BY <2>1 DEF SafeInv, DownRunsNothing, RunsAtHome, Running
  <2>5. \A n \in Node : Running(n)' = Running(n)
    BY <2>1 DEF Running
  <2>6. \A u \in Worker : of[u] \in Node
    BY DEF TypeOK
  <2>7. WorkersRight'
    BY <2>1, <2>2, <2>5, <2>6, WorkersKeep DEF SafeInv
  <2> QED
    BY <2>3, <2>4, <2>7 DEF SafeInv
<1> QED
  BY <1>1, <1>2, <1>4, <1>5, <1>6 DEF EnvStep

LEMMA SafeInvHolds ==
    ASSUME ~Returns
    PROVE  Spec => [](TypeInv /\ SafeInv)
<1>1. Init => TypeInv /\ SafeInv
  <2>1. Init => TypeInv
    BY InitType DEF TypeInv, InHand, Init
  <2>2. Init => SafeInv
    BY HAAssumption DEF HAAssumption, Init, SafeInv, DownRunsNothing, ReportsTrue,
       WorkersRight, RunsAtHome, Active, Checked, Running
  <2> QED
    BY <2>1, <2>2
<1>2. ASSUME TypeInv, SafeInv, [Next]_vars
      PROVE  TypeInv' /\ SafeInv'
  <2>1. TypeOK /\ InHand /\ TypeInv'
    BY <1>2, TypeStep DEF TypeInv
  <2>2. CASE Next
    BY <1>2, <2>1, <2>2, WorkerSafe, MonitorSafe, OtherSafe DEF Next
  <2>3. CASE UNCHANGED vars
    BY <1>2, <2>1, <2>3 DEF SafeInv, DownRunsNothing, ReportsTrue, WorkersRight, RunsAtHome,
       Active, Checked, Running, vars, monVars, knowVars, workVars, jobVars, envVars
  <2> QED
    BY <1>2, <2>2, <2>3
<1> QED
  BY <1>1, <1>2, PTL DEF Spec

(* For any number of PegaProx instances, nodes, guests and workers and every   *)
(* configuration: if no node comes back while it is being recovered, only       *)
(* guests that a worker of _ha_recovery_worker went on with although they still *)
(* ran on the failed node ever run on two nodes.                                *)
THEOREM NoSplitBrain ==
    ASSUME ~Returns
    PROVE  Spec => []OnlyUnstoppedRunTwice
<1>1. TypeInv /\ SafeInv => OnlyUnstoppedRunTwice
  BY HomeGivesSingle DEF TypeInv, SafeInv
<1> QED
  BY <1>1, SafeInvHolds, PTL

(* What it takes that no worker goes on with such a guest: strict fencing, an   *)
(* SSH or heartbeat check that sees every node that is alive, and no storage    *)
(* heartbeat, or one that lists no guest after a poison pill only if none runs. *)
StopsAreTrue == Strict /\ AliveSeen /\ ~TakenForStopped

NoneUnstopped == unstopped = {}

LEMMA AllStopped ==
    ASSUME TypeOK, StopsAreTrue, DownRunsNothing, unstopped = {}, Next
    PROVE  unstopped' = {}
<1>1. EnvStep => unstopped' = unstopped
  BY DEF EnvStep, NodeFails, NodeReturns, LockAges, envVars
<1>2. \A i \in Inst : MonitorStep(i) => unstopped' = unstopped
  BY DEF MonitorStep, LoopEnds, BeginPoll, SeenOnline, CountMiss, DeclareOnly,
         TriggerRecovery, envVars
<1>3. \A i \in Inst : OperatorStep(i) \/ Crash(i) => unstopped' = unstopped
  BY DEF OperatorStep, StartHA, StartMonitor, StopHA, ToggleMaintenance, Crash, envVars
<1>4. ASSUME NEW w \in Worker, WorkerStep(w)
      PROVE  unstopped' = {}
  <2>1. CASE FoundNothingRunning(w)
    <3>1. Running(of[w]) = {}
      BY <2>1 DEF FoundNothingRunning, StopsAreTrue, DownRunsNothing, TypeOK
    <3> QED
      BY <2>1, <3>1 DEF FoundNothingRunning
  <2>2. CASE CouldNotStop(w)
    BY <2>2 DEF CouldNotStop, StopsAreTrue
  <2>3. CASE ~FoundNothingRunning(w) /\ ~CouldNotStop(w)
    BY <1>4, <2>3 DEF WorkerStep, LockStep, LockRefused, LockFree, LockWrite, CancelRecovery,
       DelayOver, CheckStep, StoppedGuests, GiveUp, NoGuests, NoTargets, ListGuests,
       GuestStep, SkipLocal, PickGuest, MoveConfig, StartGuest, RecoveryDone, EndStep,
       Raises, Finally, CooldownOver, envVars
  <2> QED
    BY <2>1, <2>2, <2>3
<1> QED
  BY <1>1, <1>2, <1>3, <1>4 DEF Next

(* Then no guest at all runs on two nodes, whatever instances, workers, lock    *)
(* files and restarts do.                                                       *)
THEOREM NoSplitBrainIfStopped ==
    ASSUME ~Returns, StopsAreTrue
    PROVE  Spec => []NoDoubleRun
<1>1. Init => NoneUnstopped
  BY DEF Init, NoneUnstopped
<1>2. TypeInv /\ SafeInv /\ NoneUnstopped /\ [Next]_vars => NoneUnstopped'
  <2>1. TypeInv /\ SafeInv => TypeOK /\ DownRunsNothing
    BY DEF TypeInv, SafeInv
  <2> QED
    BY <2>1, AllStopped DEF NoneUnstopped, vars, envVars
<1>3. OnlyUnstoppedRunTwice /\ NoneUnstopped => NoDoubleRun
  BY DEF NoneUnstopped, OnlyUnstoppedRunTwice, NoDoubleRun
<1> QED
  BY <1>1, <1>2, <1>3, SafeInvHolds, NoSplitBrain, PTL DEF Spec

--------------------------------------------------------------------------------
(* The abstract specification.                                                *)

Failed == {n \in Node : state[n] # "up"}

(* What a step that leaves the configurations alone, lets no node return and   *)
(* starts nothing is to GuestPlacement, by the nodes and guests it concerns.   *)
LEMMA StopsOrFails ==
    ASSUME NEW n \in Node,
           conf' = conf,
           \E S \in SUBSET VM : runs' = G!Without(n, S),
           \E T \in SUBSET Running(n) : unstopped' = unstopped \cup T,
           \/ state[n] # "up" /\ Failed' = Failed
           \/ /\ state[n] = "up" /\ Failed' = Failed \cup {n}
              /\ runs' \in {runs, G!Without(n, VM)}
              /\ unstopped' = unstopped
    PROVE  G!Next
<1>1. CASE state[n] # "up" /\ Failed' = Failed
  <2>1. n \in Failed
    BY <1>1 DEF Failed
  <2>2. PICK S \in SUBSET VM : runs' = G!Without(n, S)
    OBVIOUS
  <2>3. PICK T \in SUBSET Running(n) : unstopped' = unstopped \cup T
    OBVIOUS
  <2>4. T \in SUBSET VM /\ \A v \in T : n \in runs[v]
    BY <2>3 DEF Running
  <2>5. G!Stop(n)
    BY <1>1, <2>1, <2>2, <2>3, <2>4 DEF G!Stop, Failed
  <2> QED
    BY <2>5 DEF G!Next
<1>2. CASE /\ state[n] = "up" /\ Failed' = Failed \cup {n}
           /\ runs' \in {runs, G!Without(n, VM)}
           /\ unstopped' = unstopped
  BY <1>2 DEF G!Next, G!Fail, Failed
<1> QED
  BY <1>1, <1>2

LEMMA Rests ==
    ASSUME Failed' = Failed, conf' = conf, runs' = runs, unstopped' = unstopped
    PROVE  UNCHANGED G!vars
  BY DEF Failed, G!vars

(* Fencing powers off a node that has failed: whatever was given up on there   *)
(* stops too.                                                                  *)
LEMMA FencePlaces ==
    ASSUME TypeOK, NEW n \in Node, state[n] # "up", Fence(n), UNCHANGED <<conf, unstopped>>
    PROVE  [G!Next]_(G!vars)
<1>1. CASE PowerOff(n)
  <2>1. Failed' = Failed
    BY <1>1 DEF PowerOff, Failed, TypeOK
  <2>2. runs' = G!Without(n, VM)
    BY <1>1 DEF PowerOff, G!Without
  <2>3. unstopped' = unstopped \cup {} /\ {} \in SUBSET Running(n)
    OBVIOUS
  <2> QED
    BY <2>1, <2>2, <2>3, StopsOrFails
<1>2. CASE UNCHANGED <<state, runs>>
  BY <1>2, Rests DEF Failed
<1> QED
  BY <1>1, <1>2 DEF Fence

LEMMA WorkerPlaces ==
    ASSUME TypeOK, InHand, SafeInv, NEW w \in Worker, WorkerStep(w)
    PROVE  [G!Next]_(G!vars)
<1> of[w] \in Node
  BY DEF TypeOK
<1>1. ASSUME UNCHANGED <<state, conf, runs, unstopped>> PROVE [G!Next]_(G!vars)
  BY <1>1, Rests DEF Failed
<1>2. CASE LockStep(w) \/ CancelRecovery(w) \/ DelayOver(w) \/ GiveUp(w)
           \/ SkipLocal(w) \/ RecoveryDone(w) \/ EndStep(w)
  <2>1. UNCHANGED <<state, conf, runs, unstopped>>
    BY <1>2 DEF LockStep, LockRefused, LockFree, LockWrite, CancelRecovery, DelayOver,
                GiveUp, SkipLocal, RecoveryDone, EndStep, Raises,
                Finally, CooldownOver, envVars
  <2> QED
    BY <1>1, <2>1
<1>3. CASE FoundNothingRunning(w) \/ StoppedGuests(w) \/ CouldNotStop(w)
  <2>1. pc[w] = "check" /\ UNCHANGED <<state, conf>>
    BY <1>3 DEF FoundNothingRunning, StoppedGuests, CouldNotStop, GoTo
  <2>2. \E T \in SUBSET Running(of[w]) : unstopped' = unstopped \cup T
    <3>1. {} \in SUBSET Running(of[w]) /\ unstopped = unstopped \cup {}
      OBVIOUS
    <3> QED
      BY <1>3, <3>1 DEF FoundNothingRunning, StoppedGuests, CouldNotStop
  <2>3. \E left \in SUBSET VM :
           runs' = [v \in VM |-> IF v \in left THEN runs[v] ELSE runs[v] \ {of[w]}]
    <3>1. CASE FoundNothingRunning(w)
      <4>1. runs' = [v \in VM |-> IF v \in VM THEN runs[v] ELSE runs[v] \ {of[w]}]
        BY <3>1 DEF FoundNothingRunning, TypeOK
      <4>2. VM \in SUBSET VM
        OBVIOUS
      <4> QED
        BY <4>1, <4>2, Zenon
    <3>2. CASE StoppedGuests(w)
      <4>1. runs' = [v \in VM |-> IF v \in {} THEN runs[v] ELSE runs[v] \ {of[w]}]
        BY <3>2 DEF StoppedGuests
      <4>2. {} \in SUBSET VM
        OBVIOUS
      <4> QED
        BY <4>1, <4>2, Zenon
    <3>3. CASE CouldNotStop(w)
      BY <3>3 DEF CouldNotStop, Running
    <3> QED
      BY <1>3, <3>1, <3>2, <3>3
  <2>4. PICK left \in SUBSET VM :
          runs' = [v \in VM |-> IF v \in left THEN runs[v] ELSE runs[v] \ {of[w]}]
    BY <2>3
  <2>5. runs' = G!Without(of[w], VM \ left) /\ VM \ left \in SUBSET VM
    BY <2>4 DEF G!Without
  <2>6. state[of[w]] # "up"
    BY <2>1 DEF SafeInv, WorkersRight, Active
  <2>7. Failed' = Failed
    BY <2>1 DEF Failed
  <2> QED
    BY <2>1, <2>2, <2>5, <2>6, <2>7, StopsOrFails
<1>4. CASE NoGuests(w) \/ NoTargets(w) \/ ListGuests(w) \/ PickGuest(w)
  <2>1. pc[w] \in Checked /\ UNCHANGED <<conf, unstopped>> /\ Fence(of[w])
    BY <1>4 DEF NoGuests, NoTargets, ListGuests, PickGuest, GoTo, Checked
  <2>2. state[of[w]] # "up"
    BY <2>1 DEF SafeInv, WorkersRight, Active, Checked
  <2> QED
    BY <2>1, <2>2, FencePlaces
<1>5. CASE MoveConfig(w)
  <2>1. pc[w] = "move" /\ UNCHANGED <<state, runs, unstopped>>
    BY <1>5 DEF MoveConfig, GoTo
  <2>2. /\ vm[w] \in VM /\ dest[w] \in Node
        /\ state[of[w]] # "up" /\ Running(of[w]) \subseteq unstopped
    BY <2>1 DEF InHand, SafeInv, WorkersRight, Active, Checked
  <2>3. CASE UNCHANGED conf
    BY <1>1, <2>1, <2>3
  <2>4. CASE CanMove(w) /\ conf' = [conf EXCEPT ![vm[w]] = dest[w]]
    <3>1. runs[vm[w]] = {} \/ vm[w] \in unstopped
      BY <2>2, <2>4 DEF CanMove, SafeInv, RunsAtHome, Running
    <3>2. conf[vm[w]] \in Failed /\ dest[w] \notin Failed /\ Failed' = Failed
      BY <2>1, <2>2, <2>4 DEF CanMove, Failed
    <3>3. G!Move(vm[w], dest[w])
      BY <2>1, <2>4, <3>1, <3>2 DEF G!Move, G!Free, Failed
    <3> QED
      BY <2>2, <3>3 DEF G!Next
  <2> QED
    BY <1>5, <2>3, <2>4 DEF MoveConfig
<1>6. CASE StartGuest(w)
  <2>1. pc[w] = "start" /\ UNCHANGED <<state, conf, unstopped>>
    BY <1>6 DEF StartGuest, GoTo
  <2>2. vm[w] \in VM /\ dest[w] \in Node
    BY <2>1 DEF InHand
  <2>3. CASE UNCHANGED runs
    BY <1>1, <2>1, <2>3
  <2>4. CASE CanStart(w) /\ runs' = [runs EXCEPT ![vm[w]] = @ \cup {dest[w]}]
    <3>1. conf[vm[w]] = dest[w] /\ dest[w] \notin Failed /\ Failed' = Failed
      BY <2>1, <2>4 DEF CanStart, Failed
    <3>2. \/ vm[w] \in unstopped \/ runs[vm[w]] = {}
          \/ runs[vm[w]] = {dest[w]}
      BY <2>2, <3>1 DEF SafeInv, RunsAtHome
    <3>3. CASE runs[vm[w]] = {dest[w]}
      <4>1. runs' = runs
        BY <2>2, <2>4, <3>3 DEF TypeOK
      <4> QED
        BY <1>1, <2>1, <4>1
    <3>4. CASE vm[w] \in unstopped \/ runs[vm[w]] = {}
      <4>1. runs' = [runs EXCEPT ![vm[w]] = @ \cup {conf[vm[w]]}]
        BY <2>4, <3>1
      <4>2. G!Start(vm[w])
        BY <2>1, <3>1, <3>4, <4>1 DEF G!Start, G!Free, Failed
      <4> QED
        BY <2>2, <4>2 DEF G!Next
    <3> QED
      BY <3>2, <3>3, <3>4
  <2> QED
    BY <1>6, <2>3, <2>4 DEF StartGuest
<1> QED
  BY <1>2, <1>3, <1>4, <1>5, <1>6 DEF WorkerStep, CheckStep, GuestStep

LEMMA OtherPlaces ==
    ASSUME TypeOK, SafeInv, ~Returns,
           EnvStep \/ \E i \in Inst : MonitorStep(i) \/ OperatorStep(i) \/ Crash(i)
    PROVE  [G!Next]_(G!vars)
<1>1. ASSUME UNCHANGED <<state, conf, runs, unstopped>> PROVE [G!Next]_(G!vars)
  BY <1>1, Rests DEF Failed
<1>2. ASSUME NEW n \in Node, NodeFails(n) PROVE [G!Next]_(G!vars)
  <2>1. /\ conf' = conf /\ state[n] = "up"
        /\ unstopped' = unstopped \cup {} /\ {} \in SUBSET Running(n)
    BY <1>2 DEF NodeFails
  <2>2. CASE PowerOff(n)
    <3>1. Failed' = Failed \cup {n}
      BY <2>1, <2>2 DEF PowerOff, Failed, TypeOK
    <3>2. runs' = G!Without(n, VM)
      BY <2>2 DEF PowerOff, G!Without
    <3> QED
      BY <2>1, <3>1, <3>2, StopsOrFails
  <2>3. CASE state' = [state EXCEPT ![n] = "split"] /\ UNCHANGED runs
    <3>1. Failed' = Failed \cup {n}
      BY <2>1, <2>3 DEF Failed, TypeOK
    <3>2. runs' = G!Without(n, {})
      BY <2>3 DEF G!Without, TypeOK
    <3> QED
      BY <2>1, <2>3, <3>1, <3>2, StopsOrFails
  <2> QED
    BY <1>2, <2>2, <2>3 DEF NodeFails
<1>3. \A n \in Node : ~NodeReturns(n)
  BY DEF NodeReturns
<1>4. \A n \in Node : LockAges(n) => UNCHANGED <<state, conf, runs, unstopped>>
  BY DEF LockAges, envVars
<1>5. \A i \in Inst : MonitorStep(i) => UNCHANGED <<state, conf, runs, unstopped>>
  BY DEF MonitorStep, LoopEnds, BeginPoll, SeenOnline, CountMiss, DeclareOnly,
         TriggerRecovery, envVars
<1>6. \A i \in Inst : OperatorStep(i) \/ Crash(i) => UNCHANGED <<state, conf, runs, unstopped>>
  BY DEF OperatorStep, StartHA, StartMonitor, StopHA, ToggleMaintenance, Crash, envVars
<1> QED
  BY <1>1, <1>2, <1>3, <1>4, <1>5, <1>6 DEF EnvStep

(* Under the assumption of NoSplitBrain the recovery code implements           *)
(* GuestPlacement: every step of every worker, of any instance, moves a guest  *)
(* off a failed node on which it does not run, starts a guest that runs        *)
(* nowhere on the node that has its configuration, stops guests of a failed    *)
(* node or gives up on guests that still run there, or leaves guests alone.    *)
(* Only a guest that was given up on is moved or started while it runs.        *)
THEOREM ImplementsPlacement ==
    ASSUME ~Returns
    PROVE  Spec => PlacesGuests
<1>1. Init => G!Init
  <2>1. Init => Failed = {}
    BY DEF Init, Failed
  <2> QED
    BY <2>1, HAAssumption DEF HAAssumption, Init, G!Init, Failed
<1>2. TypeOK /\ InHand /\ SafeInv /\ [Next]_vars => [G!Next]_(G!vars)
  <2>1. UNCHANGED vars => UNCHANGED G!vars
    BY Rests DEF vars, envVars, Failed
  <2> QED
    BY <2>1, WorkerPlaces, OtherPlaces DEF Next
<1>3. TypeInv /\ SafeInv => TypeOK /\ InHand
  BY DEF TypeInv
<1> QED
  BY <1>1, <1>2, <1>3, SafeInvHolds, PTL DEF Spec, PlacesGuests, G!Spec
================================================================================
