--------------------------- MODULE ReplicationProofs ---------------------------
(* Theorems about Replication, for every set of guests, every pool of runs and *)
(* every behaviour of the clusters.                                            *)
EXTENDS Replication, TLAPS

Owners == Run \cup {Stray, Free}

LEMMA GotoType ==
    ASSUME TypeOK, NEW r \in Run, NEW l \in PCs, Goto(r, l)
    PROVE  pc' \in [Run -> PCs]
  BY DEF TypeOK, Goto

LEMMA ReportType ==
    ASSUME TypeOK, NEW r \in Run, NEW s \in {"ok", "error"}, Report(r, s)
    PROVE  /\ repl' \in [Guest -> {"ok", "error"}] /\ due' \in [Guest -> BOOLEAN]
           /\ latest' \in [Guest -> {"alone", "shared", "lost"}]
  BY DEF TypeOK, Report, Written, NotWritten

LEMMA EndsType ==
    ASSUME TypeOK, NEW r \in Run, NEW s, s \subseteq Run \cup {Stray, Asked}, Ends(r, s)
    PROVE  /\ pc' \in [Run -> PCs]
           /\ snaps' \subseteq Run \cup {Stray, Asked}
           /\ clone' \in [Ids -> Owners]
<1>1. pc' \in [Run -> PCs]
  BY GotoType DEF Ends, PCs
<1>2. snaps' \subseteq Run \cup {Stray, Asked}
  BY DEF Ends
<1>3. clone' \in [Ids -> Owners]
  BY DEF Ends, Disowned, TypeOK, Owners
<1> QED
  BY <1>1, <1>2, <1>3

LEMMA RunStepType == ASSUME TypeOK, NEW r \in Run, RunStep(r) PROVE TypeOK'
<1> USE DEF runVars, rowVars
<1>0. clone \in [Ids -> Owners] /\ r \in Owners /\ Free \in Owners
  BY DEF TypeOK, Owners
<1>1. CASE Begin(r)
  <2>1. CASE up["source"] /\ up["target"]
    BY <1>1, <2>1, GotoType DEF Begin, TypeOK, PCs
  <2>2. CASE ~(up["source"] /\ up["target"])
    BY <1>1, <2>2, GotoType, ReportType DEF Begin, TypeOK, PCs
  <2> QED
    BY <2>1, <2>2
<1>2. CASE TakeSnapshot(r)
  BY <1>2, GotoType DEF TakeSnapshot, TypeOK, PCs
<1>3. CASE SnapshotFails(r)
  <2>1. PICK s \in {snaps} \cup (IF Losses THEN {snaps \cup {r}} ELSE {}) : Ends(r, s)
    BY <1>3 DEF SnapshotFails
  <2>2. s \subseteq Run \cup {Stray, Asked}
    BY <2>1 DEF TypeOK
  <2> QED
    BY <1>3, <2>1, <2>2, EndsType, ReportType DEF SnapshotFails, TypeOK, Owners
<1>4. CASE NextId(r)
  <2>1. id' \in [Run -> Ids]
    BY <1>4 DEF NextId, TypeOK
  <2> QED
    BY <1>4, <2>1, GotoType DEF NextId, TypeOK, PCs
<1>5. CASE NextIdFails(r)
  <2>1. CASE Goto(r, "dropsnap") /\ UNCHANGED <<rowVars, snaps, clone>>
    BY <1>5, <2>1, GotoType DEF NextIdFails, TypeOK, PCs
  <2>2. CASE Ends(r, snaps) /\ Report(r, "error")
    BY <1>5, <2>2, EndsType, ReportType DEF NextIdFails, TypeOK, Owners
  <2> QED
    BY <1>5, <2>1, <2>2 DEF NextIdFails
<1>6. CASE Clone(r)
  <2>1. clone' \in [Ids -> Owners]
    BY <1>0, <1>6 DEF Clone
  <2> QED
    BY <1>6, <2>1, GotoType DEF Clone, TypeOK, PCs, Owners
<1>7. CASE CloneFails(r)
  <2>1. clone' \in [Ids -> Owners]
    BY <1>0, <1>7 DEF CloneFails
  <2>2. CASE Goto(r, "dropsnap") /\ UNCHANGED rowVars
    BY <1>7, <2>1, <2>2, GotoType DEF CloneFails, TypeOK, PCs, Owners
  <2>3. CASE Goto(r, "tidyclone") /\ Report(r, "error")
    BY <1>7, <2>1, <2>3, GotoType, ReportType DEF CloneFails, TypeOK, PCs, Owners
  <2> QED
    BY <1>7, <2>2, <2>3 DEF CloneFails
<1>8. CASE TokenFails(r)
  <2>1. CASE Goto(r, "dropclone") /\ UNCHANGED rowVars
    BY <1>8, <2>1, GotoType DEF TokenFails, TypeOK, PCs
  <2>2. CASE Report(r, "error") /\ (Goto(r, "tidyclone") \/ Goto(r, "tidy"))
    BY <1>8, <2>2, GotoType, ReportType DEF TokenFails, TypeOK, PCs
  <2> QED
    BY <1>8, <2>1, <2>2 DEF TokenFails
<1>9. CASE RemoveReplica(r)
  BY <1>9, GotoType DEF RemoveReplica, TypeOK, PCs, OnTarget
<1>10. CASE RemoveFails(r)
  <2>1. guest' \in [Guest -> OnTarget]
    BY <1>10 DEF RemoveFails, TypeOK, OnTarget
  <2> QED
    BY <1>10, <2>1, GotoType DEF RemoveFails, TypeOK, PCs
<1>11. CASE OverlooksReplica(r)
  BY <1>11, GotoType DEF OverlooksReplica, TypeOK, PCs
<1>12. ASSUME Arrives(r)
       PROVE  /\ guest' \in [Guest -> OnTarget]
              /\ clone' \in [Ids -> Owners]
  BY <1>0, <1>12 DEF Arrives, TypeOK, OnTarget
<1>13. CASE Migrate(r)
  BY <1>12, <1>13, GotoType DEF Migrate, TypeOK, PCs, Owners
<1>14. CASE MigrateFails(r)
  BY <1>0, <1>12, <1>14, GotoType, ReportType DEF MigrateFails, TypeOK, PCs, Owners
<1>15. CASE ReportOk(r)
  BY <1>15, GotoType, ReportType DEF ReportOk, TypeOK, PCs
<1>16. CASE DeleteClone(r)
  <2>1. clone' \in [Ids -> Owners]
    BY <1>0, <1>16 DEF DeleteClone
  <2>2. pc' \in [Run -> PCs]
    BY <1>16, GotoType DEF DeleteClone, PCs
  <2> QED
    BY <1>16, <2>1, <2>2 DEF DeleteClone, TypeOK, Owners
<1>17. CASE DeleteSnapshot(r)
  <2>0. snaps \ {r} \subseteq Run \cup {Stray, Asked}
        /\ (IF r \in snaps THEN (snaps \ {r}) \cup {Asked} ELSE snaps)
              \subseteq Run \cup {Stray, Asked}
    BY DEF TypeOK
  <2>1. /\ pc' \in [Run -> PCs]
        /\ snaps' \subseteq Run \cup {Stray, Asked}
        /\ clone' \in [Ids -> Owners]
    BY <1>17, <2>0, EndsType DEF DeleteSnapshot
  <2>2. /\ repl' \in [Guest -> {"ok", "error"}] /\ due' \in [Guest -> BOOLEAN]
        /\ latest' \in [Guest -> {"alone", "shared", "lost"}]
    <3>1. CASE pc[r] = "dropsnap"
      BY <1>17, <3>1, ReportType DEF DeleteSnapshot
    <3>2. CASE pc[r] # "dropsnap"
      BY <1>17, <3>2 DEF DeleteSnapshot, TypeOK
    <3> QED
      BY <3>1, <3>2
  <2> QED
    BY <1>17, <2>1, <2>2 DEF DeleteSnapshot, TypeOK, Owners
<1> QED
  BY <1>1, <1>2, <1>3, <1>4, <1>5, <1>6, <1>7, <1>8, <1>9, <1>10, <1>11, <1>13,
     <1>14, <1>15, <1>16, <1>17 DEF RunStep

LEMMA NextType == ASSUME TypeOK, [Next]_vars PROVE TypeOK'
<1> USE DEF runVars, rowVars
<1>1. CASE UNCHANGED vars
  BY <1>1 DEF vars, TypeOK
<1>2. ASSUME NEW r \in Run, NEW g \in Guest, Schedule(r, g) PROVE TypeOK'
  <2>1. latest' \in [Guest -> {"alone", "shared", "lost"}]
    BY <1>2 DEF Schedule, TypeOK
  <2> QED
    BY <1>2, <2>1 DEF Schedule, TypeOK, PCs
<1>3. ASSUME NEW g \in Guest, IntervalPasses(g) PROVE TypeOK'
  BY <1>3 DEF IntervalPasses, TypeOK
<1>4. ASSUME NEW s \in Site, ConnectionChanges(s) PROVE TypeOK'
  BY <1>4 DEF ConnectionChanges, TypeOK
<1>5. CASE Restart
  <2>1. clone' \in [Ids -> Run \cup {Stray, Free}]
    BY <1>5 DEF Restart
  <2>2. pc' \in [Run -> PCs]
    BY <1>5 DEF Restart, PCs
  <2>3. snaps' \subseteq Run \cup {Stray, Asked}
    BY <1>5 DEF Restart, TypeOK
  <2>4. latest' \in [Guest -> {"alone", "shared", "lost"}]
    BY <1>5 DEF Restart, TypeOK
  <2> QED
    BY <1>5, <2>1, <2>2, <2>3, <2>4 DEF Restart, TypeOK
<1> QED
  BY <1>1, <1>2, <1>3, <1>4, <1>5, RunStepType DEF Next, JobStep

LEMMA InitType == ASSUME Init PROVE TypeOK
<1>1. AnyGuest \in Guest
  BY ReplicationAssumption DEF ReplicationAssumption, AnyGuest
<1>2. 1 \in Ids
  BY ReplicationAssumption DEF ReplicationAssumption, Ids
<1> QED
  BY <1>1, <1>2 DEF Init, TypeOK, PCs, OnTarget

(* Every variable keeps its type. *)
THEOREM Typing == Spec => []TypeOK
<1>1. Init => TypeOK
  BY InitType
<1>2. TypeOK /\ [Next]_vars => TypeOK'
  BY NextType
<1> QED
  BY <1>1, <1>2, PTL DEF Spec

-------------------------------------------------------------------------------
(* Between runs, 'ok' means that there is a replica.                           *)

Kept(g) == repl[g] = "ok" => guest[g] # "none"

(* A run that has the job for itself reports before it ends; once it has, 'ok' *)
(* means a replica, and it comes to report 'ok' only after the migration.      *)
Keeping(r) ==
    latest[job[r]] = "alone" =>
        /\ pc[r] \in {"tidy", "tidyclone"} => Kept(job[r])
        /\ pc[r] = "report" => guest[job[r]] # "none"

OneRun ==
    \A r, q \in Run :
        pc[r] # "idle" /\ pc[q] # "idle" /\ job[r] = job[q] /\ latest[job[r]] = "alone"
            => r = q

OkInv ==
    /\ TypeOK
    /\ OneRun
    /\ \A r \in Run : Keeping(r)
    /\ OkMeansReplica

(* A run touches its own job and guest only.                                   *)
LEMMA OwnGuest ==
    ASSUME TypeOK, NEW r \in Run, RunStep(r)
    PROVE  /\ pc[r] # "idle" /\ job' = job
           /\ \A q \in Run : q # r => pc'[q] = pc[q]
           /\ \A g \in Guest : g # job[r] =>
                 repl'[g] = repl[g] /\ guest'[g] = guest[g] /\ latest'[g] = latest[g]
           /\ latest'[job[r]] \in {latest[job[r]], "lost"}
<1> USE DEF rowVars
<1>1. pc[r] # "idle" /\ job' = job
  BY DEF RunStep, Begin, TakeSnapshot, SnapshotFails, NextId, NextIdFails, Clone,
         CloneFails, TokenFails, RemoveReplica, RemoveFails, OverlooksReplica,
         Migrate, MigrateFails, ReportOk, DeleteClone, DeleteSnapshot
<1>2. \E l \in PCs : Goto(r, l)
  BY DEF RunStep, Begin, TakeSnapshot, SnapshotFails, NextId, NextIdFails, Clone,
         CloneFails, TokenFails, RemoveReplica, RemoveFails, OverlooksReplica,
         Migrate, MigrateFails, ReportOk, DeleteClone, DeleteSnapshot, Ends, PCs
<1>3. UNCHANGED <<repl, latest>> \/ \E s \in {"ok", "error"} : Report(r, s)
  BY DEF RunStep, Begin, TakeSnapshot, SnapshotFails, NextId, NextIdFails, Clone,
         CloneFails, TokenFails, RemoveReplica, RemoveFails, OverlooksReplica,
         Migrate, MigrateFails, ReportOk, DeleteClone, DeleteSnapshot
<1>4. UNCHANGED guest \/ \E x : guest' = [guest EXCEPT ![job[r]] = x]
  BY DEF RunStep, Begin, TakeSnapshot, SnapshotFails, NextId, NextIdFails, Clone,
         CloneFails, TokenFails, RemoveReplica, RemoveFails, OverlooksReplica,
         Migrate, MigrateFails, ReportOk, DeleteClone, DeleteSnapshot, Arrives
<1>5. \A q \in Run : q # r => pc'[q] = pc[q]
  BY <1>2 DEF Goto, TypeOK
<1>6. \A g \in Guest : g # job[r] => repl'[g] = repl[g] /\ latest'[g] = latest[g]
  BY <1>3 DEF Report, Written, NotWritten, TypeOK
<1>7. \A g \in Guest : g # job[r] => guest'[g] = guest[g]
  BY <1>4 DEF TypeOK
<1>8. latest'[job[r]] \in {latest[job[r]], "lost"}
  BY <1>3 DEF Report, Written, NotWritten, TypeOK
<1> QED
  BY <1>1, <1>5, <1>6, <1>7, <1>8

(* A run that goes on keeps its promise, and one that ends leaves it kept.     *)
KeepsOn(r) ==
    Keeping(r)' /\ (pc'[r] = "idle" /\ latest'[job[r]] = "alone" => Kept(job[r])')

LEMMA RunKeeps == ASSUME OkInv, NEW r \in Run, RunStep(r) PROVE KeepsOn(r)
<1> DEFINE g == job[r]
<1> USE DEF rowVars
<1>0. g \in Guest /\ job' = job /\ Keeping(r) /\ latest'[g] \in {latest[g], "lost"}
  BY OwnGuest DEF OkInv, TypeOK
<1>00. CASE latest'[g] # "alone"
  BY <1>0, <1>00 DEF KeepsOn, Keeping
<1>01. SUFFICES ASSUME latest'[g] = "alone", latest[g] = "alone" PROVE KeepsOn(r)
  BY <1>0, <1>00
<1>1. ASSUME Report(r, "error") PROVE repl'[g] = "error"
  BY <1>0, <1>01, <1>1 DEF Report, Written, NotWritten, OkInv, TypeOK
<1>2. ASSUME NEW l \in PCs, Goto(r, l) PROVE pc'[r] = l
  BY <1>2 DEF Goto, OkInv, TypeOK
<1>3. ASSUME NEW s, Ends(r, s) PROVE pc'[r] = "idle"
  BY <1>3, <1>2 DEF Ends, PCs
<1>4. ASSUME repl'[g] = "error", pc'[r] # "report" PROVE KeepsOn(r)
  BY <1>0, <1>4 DEF KeepsOn, Keeping, Kept
<1>5. ASSUME pc'[r] \notin {"tidy", "tidyclone", "report", "idle"} PROVE KeepsOn(r)
  BY <1>0, <1>5 DEF KeepsOn, Keeping
<1>6. ASSUME repl' = repl, guest' = guest, Kept(g), pc'[r] # "report" PROVE KeepsOn(r)
  BY <1>0, <1>6 DEF KeepsOn, Keeping, Kept
<1>7. CASE Begin(r)
  <2>1. CASE up["source"] /\ up["target"]
    BY <1>2, <1>5, <1>7, <2>1 DEF Begin, PCs
  <2>2. CASE ~(up["source"] /\ up["target"])
    BY <1>1, <1>2, <1>4, <1>7, <2>2 DEF Begin, PCs
  <2> QED
    BY <2>1, <2>2
<1>8. CASE TakeSnapshot(r) \/ NextId(r) \/ Clone(r)
  BY <1>2, <1>5, <1>8 DEF TakeSnapshot, NextId, Clone, PCs
<1>9. CASE SnapshotFails(r)
  BY <1>1, <1>3, <1>4, <1>9 DEF SnapshotFails
<1>10. CASE NextIdFails(r)
  BY <1>1, <1>2, <1>3, <1>4, <1>5, <1>10 DEF NextIdFails, PCs
<1>11. CASE CloneFails(r)
  BY <1>1, <1>2, <1>4, <1>5, <1>11 DEF CloneFails, PCs
<1>12. CASE TokenFails(r)
  BY <1>1, <1>2, <1>4, <1>5, <1>12 DEF TokenFails, PCs
<1>13. CASE RemoveReplica(r) \/ RemoveFails(r) \/ OverlooksReplica(r)
  BY <1>2, <1>5, <1>13 DEF RemoveReplica, RemoveFails, OverlooksReplica, PCs
<1>14. CASE Migrate(r)
  <2>1. guest'[g] = "replica" /\ pc'[r] = "report"
    BY <1>0, <1>2, <1>14 DEF Migrate, Arrives, OkInv, TypeOK, PCs
  <2> QED
    BY <1>0, <2>1 DEF Keeping, Kept, KeepsOn
<1>15. CASE MigrateFails(r)
  BY <1>1, <1>2, <1>4, <1>15 DEF MigrateFails, PCs
<1>16. CASE ReportOk(r)
  <2>1. guest'[g] # "none" /\ pc'[r] = "tidy"
    BY <1>0, <1>01, <1>2, <1>16 DEF ReportOk, Keeping, PCs
  <2> QED
    BY <1>0, <2>1 DEF Keeping, Kept, KeepsOn
<1>17. CASE DeleteClone(r)
  <2>1. CASE pc[r] = "dropclone"
    BY <1>2, <1>5, <1>17, <2>1 DEF DeleteClone, PCs
  <2>2. CASE pc[r] = "tidyclone"
    <3>1. Kept(g) /\ pc'[r] = "tidy"
      BY <1>0, <1>01, <1>2, <1>17, <2>2 DEF DeleteClone, Keeping, PCs
    <3> QED
      BY <1>6, <1>17, <3>1 DEF DeleteClone
  <2> QED
    BY <1>17, <2>1, <2>2 DEF DeleteClone
<1>18. CASE DeleteSnapshot(r)
  <2>1. pc'[r] = "idle"
    BY <1>3, <1>18 DEF DeleteSnapshot
  <2>2. CASE pc[r] = "dropsnap"
    BY <1>1, <1>4, <1>18, <2>1, <2>2 DEF DeleteSnapshot
  <2>3. CASE pc[r] = "tidy"
    <3>1. Kept(g)
      BY <1>0, <1>01, <2>3 DEF Keeping
    <3> QED
      BY <1>6, <1>18, <2>1, <2>3, <3>1 DEF DeleteSnapshot
  <2> QED
    BY <1>18, <2>2, <2>3 DEF DeleteSnapshot
<1> QED
  BY <1>7, <1>8, <1>9, <1>10, <1>11, <1>12, <1>13, <1>14, <1>15, <1>16, <1>17, <1>18
  DEF RunStep

LEMMA OkJobStep ==
    ASSUME OkInv, JobStep \/ (\E s \in Site : ConnectionChanges(s)) \/ UNCHANGED vars
    PROVE  OneRun' /\ (\A r \in Run : Keeping(r)') /\ OkMeansReplica'
<1> USE DEF runVars, rowVars
<1>1. ASSUME UNCHANGED <<repl, latest, pc, job, guest>>
      PROVE  OneRun' /\ (\A r \in Run : Keeping(r)') /\ OkMeansReplica'
  BY <1>1 DEF OkInv, OneRun, Keeping, Kept, OkMeansReplica, AtWork
<1>2. ASSUME NEW r \in Run, RunStep(r)
      PROVE  OneRun' /\ (\A q \in Run : Keeping(q)') /\ OkMeansReplica'
  <2>1. /\ pc[r] # "idle" /\ job' = job
        /\ \A q \in Run : q # r => pc'[q] = pc[q]
        /\ \A g \in Guest : g # job[r] =>
              repl'[g] = repl[g] /\ guest'[g] = guest[g] /\ latest'[g] = latest[g]
        /\ latest'[job[r]] \in {latest[job[r]], "lost"}
        /\ \A q \in Run : job[q] \in Guest
    BY <1>2, OwnGuest DEF OkInv, TypeOK
  <2>2. Keeping(r)' /\ (pc'[r] = "idle" /\ latest'[job[r]] = "alone" => Kept(job[r])')
    BY <1>2, RunKeeps DEF KeepsOn
  <2>3. OneRun'
    <3>1. \A g \in Guest : latest'[g] = "alone" => latest[g] = "alone"
      BY <2>1
    <3> QED
      BY <2>1, <3>1 DEF OkInv, OneRun
  <2>4. ASSUME NEW q \in Run PROVE Keeping(q)'
    <3>1. CASE q = r
      BY <2>2, <3>1
    <3>2. CASE q # r /\ pc[q] = "idle"
      BY <2>1, <3>2 DEF Keeping
    <3>3. CASE q # r /\ pc[q] # "idle" /\ job[q] # job[r]
      BY <2>1, <3>3 DEF OkInv, Keeping, Kept
    <3>4. CASE q # r /\ pc[q] # "idle" /\ job[q] = job[r]
      <4>1. latest[job[r]] # "alone"
        BY <2>1, <3>4 DEF OkInv, OneRun
      <4> QED
        BY <2>1, <3>4, <4>1 DEF Keeping
    <3> QED
      BY <3>1, <3>2, <3>3, <3>4
  <2>5. ASSUME NEW g \in Guest, repl'[g] = "ok", ~AtWork(g)', latest'[g] = "alone"
        PROVE  guest'[g] # "none"
    <3>1. CASE g = job[r]
      <4>1. pc'[r] = "idle"
        BY <2>1, <2>5, <3>1 DEF AtWork
      <4> QED
        BY <2>1, <2>2, <2>5, <3>1, <4>1 DEF Kept
    <3>2. CASE g # job[r]
      <4>1. ~AtWork(g)
        BY <2>1, <2>5, <3>2 DEF AtWork
      <4> QED
        BY <2>1, <2>5, <3>2, <4>1 DEF OkInv, OkMeansReplica
    <3> QED
      BY <3>1, <3>2
  <2> QED
    BY <2>3, <2>4, <2>5 DEF OkMeansReplica
<1>3. ASSUME NEW r \in Run, NEW g \in Guest, Schedule(r, g)
      PROVE  OneRun' /\ (\A q \in Run : Keeping(q)') /\ OkMeansReplica'
  <2>1. /\ repl' = repl /\ guest' = guest /\ pc[r] = "idle"
        /\ \A h \in Guest : latest'[h] = IF h # g THEN latest[h]
                                         ELSE IF AtWork(g) THEN "shared" ELSE "alone"
        /\ \A q \in Run : job[q] \in Guest
    BY <1>3 DEF Schedule, OkInv, TypeOK
  <2>2. \A q \in Run : /\ pc'[q] = IF q = r THEN "begin" ELSE pc[q]
                       /\ job'[q] = IF q = r THEN g ELSE job[q]
    BY <1>3 DEF Schedule, OkInv, TypeOK
  <2>3. OneRun'
    BY <2>1, <2>2 DEF OkInv, OneRun, AtWork
  <2>4. ASSUME NEW q \in Run PROVE Keeping(q)'
    <3>1. CASE q = r \/ pc[q] = "idle"
      BY <2>1, <2>2, <3>1 DEF Keeping
    <3>2. CASE q # r /\ pc[q] # "idle" /\ job[q] = g
      BY <2>1, <2>2, <3>2 DEF Keeping, AtWork
    <3>3. CASE q # r /\ job[q] # g
      BY <2>1, <2>2, <3>3 DEF OkInv, Keeping, Kept
    <3> QED
      BY <3>1, <3>2, <3>3
  <2>5. \A h \in Guest : ~AtWork(h)' => ~AtWork(h) /\ h # g
    BY <2>1, <2>2 DEF AtWork
  <2> QED
    BY <2>1, <2>3, <2>4, <2>5 DEF OkInv, OkMeansReplica
<1>4. CASE UNCHANGED vars
  BY <1>1, <1>4 DEF vars
<1>5. ASSUME NEW g \in Guest, IntervalPasses(g) PROVE UNCHANGED <<repl, latest, pc, job, guest>>
  BY <1>5 DEF IntervalPasses
<1>6. ASSUME NEW s \in Site, ConnectionChanges(s)
      PROVE  UNCHANGED <<repl, latest, pc, job, guest>>
  BY <1>6 DEF ConnectionChanges
<1> QED
  BY <1>1, <1>2, <1>3, <1>4, <1>5, <1>6 DEF JobStep

LEMMA OkStep ==
    ASSUME OkInv, [Next]_vars
    PROVE  OneRun' /\ (\A r \in Run : Keeping(r)') /\ OkMeansReplica'
<1>1. CASE Restart
  <2>1. /\ \A r \in Run : pc'[r] = "idle"
        /\ \A g \in Guest : latest'[g] = "alone" => latest[g] = "alone" /\ ~AtWork(g)
        /\ repl' = repl /\ guest' = guest
    BY <1>1 DEF Restart
  <2>2. OneRun' /\ \A r \in Run : Keeping(r)'
    BY <2>1 DEF OneRun, Keeping
  <2>3. OkMeansReplica'
    BY <2>1 DEF OkInv, OkMeansReplica
  <2> QED
    BY <2>2, <2>3
<1> QED
  BY <1>1, OkJobStep DEF Next

LEMMA OkInit == ASSUME Init PROVE OkInv
<1>1. TypeOK
  BY InitType
<1>2. (\A r \in Run : pc[r] = "idle") /\ (\A g \in Guest : repl[g] = "error")
  BY DEF Init
<1> QED
  BY <1>1, <1>2 DEF OkInv, OneRun, Keeping, OkMeansReplica

(* Whatever runs overlap, calls and reports are lost, steps fail and restarts  *)
(* cut runs off: the next run that has the job for itself and gets its report  *)
(* written makes 'ok' mean a replica again.  Of other runs it is not so: see   *)
(* the departures in the README.                                               *)
THEOREM OkIsReplica == Spec => []OkMeansReplica
<1>1. Init => OkInv
  BY OkInit
<1>2. OkInv /\ [Next]_vars => OkInv'
  BY NextType, OkStep DEF OkInv
<1>3. OkInv => OkMeansReplica
  BY DEF OkInv
<1> QED
  BY <1>1, <1>2, <1>3, PTL DEF Spec

-------------------------------------------------------------------------------
(* What runs leave on the source.                                              *)

(* From the clone's task to its migration or deletion the id is the run's.     *)
Cloned ==
    \A r \in Run : /\ pc[r] \in {"remove", "migrate", "dropclone"} => clone[id[r]] = r
                   /\ pc[r] # "tidyclone"

(* The steps of a run where no call is lost: all but these leave the clones    *)
(* alone, and the run keeps or gives up its clone.                             *)
LEMMA ClonedStep ==
    ASSUME ~Losses, TypeOK, TypeOK', Cloned, NEW r \in Run, RunStep(r)
    PROVE  Cloned'
<1> USE DEF TypeOK, Goto
<1>1. /\ \A q \in Run : q # r => pc'[q] = pc[q] /\ id'[q] = id[q]
      /\ id[r] \in Ids /\ r # Free /\ r # Stray
  <2>1. /\ \E l \in PCs : pc' = [pc EXCEPT ![r] = l]
        /\ id' = id \/ \E i \in Ids : id' = [id EXCEPT ![r] = i]
    BY DEF RunStep, Begin, TakeSnapshot, SnapshotFails, NextId, NextIdFails, Clone,
           CloneFails, TokenFails, RemoveReplica, RemoveFails, OverlooksReplica, Migrate,
           MigrateFails, ReportOk, DeleteClone, DeleteSnapshot, Ends, PCs
  <2> QED
    BY <2>1, ReplicationAssumption
<1>2. CASE UNCHANGED clone /\ UNCHANGED id /\ pc'[r] # "tidyclone"
           /\ (pc'[r] \in {"remove", "migrate", "dropclone"}
                 => pc[r] \in {"remove", "migrate", "dropclone"})
  BY <1>1, <1>2 DEF Cloned
<1>3. CASE NextId(r)
  <2>1. pc'[r] = "clone" /\ UNCHANGED clone
    BY <1>3 DEF NextId
  <2> QED
    BY <1>1, <2>1 DEF Cloned
<1>4. CASE Clone(r)
  <2>1. /\ pc'[r] = "remove" /\ UNCHANGED id /\ clone[id[r]] = Free
        /\ clone' = [clone EXCEPT ![id[r]] = r]
    BY <1>4 DEF Clone
  <2>2. \A q \in Run : clone[id[r]] # q
    BY <2>1, ReplicationAssumption
  <2> QED
    BY <1>1, <2>1, <2>2 DEF Cloned
<1>5. CASE Migrate(r)
  <2>1. /\ pc'[r] = "report" /\ UNCHANGED id /\ clone[id[r]] = r
        /\ clone' = [clone EXCEPT ![id[r]] = Free]
    BY <1>5 DEF Migrate, CanMigrate, Arrives
  <2> QED
    BY <1>1, <2>1 DEF Cloned
<1>6. CASE DeleteClone(r)
  <2>1. /\ pc'[r] = "dropsnap" /\ UNCHANGED id /\ clone[id[r]] = r
        /\ clone' = [clone EXCEPT ![id[r]] = Free] \/ clone' = clone
    BY <1>6 DEF DeleteClone, Cloned
  <2> QED
    BY <1>1, <2>1 DEF Cloned
<1>7. CASE SnapshotFails(r) \/ DeleteSnapshot(r)
  <2>1. /\ pc'[r] = "idle" /\ UNCHANGED id
        /\ clone' = [i \in Ids |-> IF clone[i] = r THEN Stray ELSE clone[i]]
    BY <1>7 DEF SnapshotFails, DeleteSnapshot, Ends, Disowned
  <2> QED
    BY <1>1, <2>1 DEF Cloned
<1>8. CASE \/ Begin(r) \/ TakeSnapshot(r) \/ NextIdFails(r) \/ CloneFails(r)
           \/ TokenFails(r) \/ RemoveReplica(r) \/ RemoveFails(r)
           \/ OverlooksReplica(r) \/ MigrateFails(r) \/ ReportOk(r)
  <2>1. CASE Begin(r) \/ TakeSnapshot(r) \/ NextIdFails(r) \/ CloneFails(r)
    BY <1>2, <2>1 DEF Begin, TakeSnapshot, NextIdFails, CloneFails
  <2>2. CASE TokenFails(r) \/ RemoveReplica(r) \/ RemoveFails(r) \/ OverlooksReplica(r)
    BY <1>2, <2>2 DEF TokenFails, RemoveReplica, RemoveFails, OverlooksReplica
  <2>3. CASE MigrateFails(r) \/ ReportOk(r)
    BY <1>2, <2>3 DEF MigrateFails, ReportOk
  <2> QED
    BY <1>8, <2>1, <2>2, <2>3
<1> QED
  BY <1>3, <1>4, <1>5, <1>6, <1>7, <1>8 DEF RunStep

LEMMA ClonedNext ==
    ASSUME ~Losses, TypeOK, TypeOK', Cloned, [Next]_vars
    PROVE  Cloned'
<1>1. CASE \E r \in Run : RunStep(r)
  BY <1>1, ClonedStep
<1>2. CASE \E r \in Run, g \in Guest : Schedule(r, g)
  BY <1>2 DEF Schedule, Cloned, TypeOK
<1>3. CASE Restart
  BY <1>3 DEF Restart, Cloned
<1>4. CASE (\E g \in Guest : IntervalPasses(g)) \/ \E s \in Site : ConnectionChanges(s)
  BY <1>4 DEF IntervalPasses, ConnectionChanges, Cloned, runVars
<1>5. CASE UNCHANGED vars
  BY <1>5 DEF vars, runVars, Cloned
<1> QED
  BY <1>1, <1>2, <1>3, <1>4, <1>5 DEF Next, JobStep

(* Where no call is lost, runs that were given the same id never delete each   *)
(* other's clone, however many overlap and whichever the ids are.              *)
THEOREM OthersClonesStay == ASSUME ~Losses PROVE Spec => DeletesOwnClone
<1> DEFINE P == \A r \in Run : DeleteClone(r) /\ clone' # clone => clone[id[r]] = r
<1>1. Init => TypeOK /\ Cloned
  BY InitType DEF Init, Cloned
<1>2. TypeOK /\ Cloned /\ [Next]_vars => (TypeOK /\ Cloned)'
  BY NextType, ClonedNext
<1>3. TypeOK /\ Cloned => P
  BY DEF Cloned, DeleteClone
<1>4. P => [P]_vars
  OBVIOUS
<1> HIDE DEF P
<1>5. [][P]_vars <=> DeletesOwnClone
  BY DEF P, DeletesOwnClone
<1> QED
  BY <1>1, <1>2, <1>3, <1>4, <1>5, PTL DEF Spec

(* A run has a snapshot only from the step that takes it to its last.          *)
Snapped == \A r \in Run : pc[r] \in {"idle", "begin", "snapshot"} => r \notin snaps

Abandons(r) == Stray \in snaps' \ snaps

LEMMA SnappedRun ==
    ASSUME TypeOK, Snapped, NEW r \in Run, RunStep(r)
    PROVE  Snapped' /\ (Abandons(r) => Losses /\ pc[r] \in {"snapshot", "nextid"})
<1> USE DEF TypeOK, Goto, Snapped, Abandons
<1>1. /\ \A q \in Run : q # r => pc'[q] = pc[q]
      /\ \A q \in Run : q # Stray /\ q # Asked
      /\ Stray # Asked
  <2>1. \E l \in PCs : pc' = [pc EXCEPT ![r] = l]
    BY DEF RunStep, Begin, TakeSnapshot, SnapshotFails, NextId, NextIdFails, Clone,
           CloneFails, TokenFails, RemoveReplica, RemoveFails, OverlooksReplica, Migrate,
           MigrateFails, ReportOk, DeleteClone, DeleteSnapshot, Ends, PCs
  <2> QED
    BY <2>1, ReplicationAssumption
<1>2. CASE TakeSnapshot(r)
  <2>1. snaps' = snaps \cup {r} /\ pc'[r] = "nextid"
    BY <1>2 DEF TakeSnapshot
  <2> QED
    BY <1>1, <2>1
<1>3. CASE SnapshotFails(r)
  <2>1. PICK s \in {snaps} \cup (IF Losses THEN {snaps \cup {r}} ELSE {}) : Ends(r, s)
    BY <1>3 DEF SnapshotFails
  <2>2. /\ pc[r] = "snapshot" /\ pc'[r] = "idle"
        /\ snaps' = IF r \in s THEN (s \ {r}) \cup {Stray} ELSE s
    BY <1>3, <2>1 DEF SnapshotFails, Ends
  <2> QED
    BY <1>1, <2>1, <2>2
<1>4. CASE NextIdFails(r)
  <2>1. CASE Goto(r, "dropsnap") /\ UNCHANGED snaps
    BY <1>1, <2>1
  <2>2. CASE Losses /\ Ends(r, snaps)
    <3>1. /\ pc[r] = "nextid"
          /\ snaps' = IF r \in snaps THEN (snaps \ {r}) \cup {Stray} ELSE snaps
      BY <1>4, <2>2 DEF NextIdFails, Ends
    <3> QED
      BY <1>1, <2>2, <3>1
  <2> QED
    BY <1>4, <2>1, <2>2 DEF NextIdFails
<1>5. CASE DeleteSnapshot(r)
  <2>1. CASE Ends(r, snaps \ {r})
    <3>1. snaps' = snaps \ {r}
      BY <2>1 DEF Ends
    <3> QED
      BY <1>1, <3>1
  <2>2. CASE Ends(r, IF r \in snaps THEN (snaps \ {r}) \cup {Asked} ELSE snaps)
    <3>1. snaps' = IF r \in snaps THEN (snaps \ {r}) \cup {Asked} ELSE snaps
      BY <1>1, <2>2 DEF Ends
    <3> QED
      BY <1>1, <3>1
  <2> QED
    BY <1>5, <2>1, <2>2 DEF DeleteSnapshot
<1>6. CASE /\ UNCHANGED snaps
           /\ pc'[r] \in {"idle", "begin", "snapshot"} => pc[r] \in {"idle", "begin", "snapshot"}
  BY <1>1, <1>6
<1>7. CASE \/ Begin(r) \/ NextId(r) \/ Clone(r) \/ CloneFails(r)
           \/ TokenFails(r) \/ RemoveReplica(r) \/ RemoveFails(r) \/ OverlooksReplica(r)
           \/ Migrate(r) \/ MigrateFails(r) \/ ReportOk(r) \/ DeleteClone(r)
  <2>1. CASE Begin(r) \/ NextId(r) \/ Clone(r) \/ CloneFails(r)
    BY <1>6, <2>1 DEF Begin, NextId, Clone, CloneFails
  <2>2. CASE TokenFails(r) \/ RemoveReplica(r) \/ RemoveFails(r) \/ OverlooksReplica(r)
    BY <1>6, <2>2 DEF TokenFails, RemoveReplica, RemoveFails, OverlooksReplica
  <2>3. CASE Migrate(r) \/ MigrateFails(r) \/ ReportOk(r) \/ DeleteClone(r)
    BY <1>6, <2>3 DEF Migrate, MigrateFails, ReportOk, DeleteClone
  <2> QED
    BY <1>7, <2>1, <2>2, <2>3
<1> QED
  BY <1>2, <1>3, <1>4, <1>5, <1>7 DEF RunStep

(* However runs overlap, fail and are cut off, no way a run can end forgets    *)
(* its snapshot, apart from the two calls that may raise before its handler    *)
(* knows of a clone.  (That the source then removes it is not said.)           *)
THEOREM SnapshotsAskedFor == Spec => SnapshotAskedFor
<1> DEFINE P == \A r \in Run : RunStep(r) /\ Stray \in snaps' \ snaps
                                 => Losses /\ pc[r] \in {"snapshot", "nextid"}
<1>1. Init => TypeOK /\ Snapped
  BY InitType DEF Init, Snapped
<1>2. ASSUME TypeOK, Snapped, [Next]_vars PROVE Snapped'
  <2>1. CASE \E r \in Run : RunStep(r)
    BY <1>2, <2>1, SnappedRun
  <2>2. CASE \E r \in Run, g \in Guest : Schedule(r, g)
    BY <1>2, <2>2 DEF Schedule, Snapped, TypeOK
  <2>3. CASE Restart
    BY <1>2, <2>3, ReplicationAssumption DEF Restart, Snapped
  <2>4. CASE (\E g \in Guest : IntervalPasses(g)) \/ \E s \in Site : ConnectionChanges(s)
    BY <1>2, <2>4 DEF IntervalPasses, ConnectionChanges, Snapped, runVars
  <2>5. CASE UNCHANGED vars
    BY <1>2, <2>5 DEF vars, runVars, Snapped
  <2> QED
    BY <1>2, <2>1, <2>2, <2>3, <2>4, <2>5 DEF Next, JobStep
<1>3. TypeOK /\ Snapped => P
  BY SnappedRun DEF Abandons
<1>4. TypeOK /\ Snapped /\ [Next]_vars => (TypeOK /\ Snapped)'
  BY <1>2, NextType
<1>5. P => [P]_vars
  OBVIOUS
<1> HIDE DEF P
<1>6. [][P]_vars <=> SnapshotAskedFor
  BY DEF P, SnapshotAskedFor
<1> QED
  BY <1>1, <1>3, <1>4, <1>5, <1>6, PTL DEF Spec
================================================================================
