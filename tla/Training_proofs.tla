--------------------------- MODULE Training_proofs ---------------------------
(***************************************************************************)
(* Whatever is dispatched, trained, rolled back, deleted or lost, for any  *)
(* number of datasets, requests, jobs and generations: a dataset has one   *)
(* live job; in order, one model serves, what a deletion leaves is nothing *)
(* and a retraining serves no worse a model.                               *)
(***************************************************************************)
EXTENDS Training, FiniteSetTheorems, TLAPS

Kinds    == {"training", "retraining"}
Tickets  == [pc : {"idle", "insert", "enqueue"}, kind : Kinds,
             dataset : Datasets \cup {None}, generation : Nat]
Statuses == {"none", "pending", "running", "completed", "failed", "cancelled", "deleted"}
Places   == {"none", "queued", "training", "trained", "saving", "completing", "recording",
             "activating", "listing", "reconciling", "end", "stopped"}
States   == {"none", "validated", "production", "archived"}
Versions == Jobs \cup {None}

Stored ==
  /\ files \in [Jobs -> SUBSET {"model", "record"}]
  /\ state \in [Jobs -> States]
  /\ pointer \in Versions
  /\ sweep \in [Writers -> [todo : SUBSET Jobs, copy : Versions]]
  /\ rollback \in [pc : {"idle", "listing", "reconciling", "rows"}, target : Versions,
                   count : Nat]
  /\ deleting \subseteq Datasets

Typed ==
  /\ generation \in [Datasets -> Nat]
  /\ dispatcher \in [Dispatchers -> Tickets]
  /\ status \in [Jobs -> Statuses] /\ about \in [Jobs -> Tickets]
  /\ pc \in [Jobs -> Places] /\ seen \in [Jobs -> Versions]
  /\ quality \in [Jobs -> 0..MaxQuality] /\ activated \in [Jobs -> BOOLEAN]
  /\ previous \in [Jobs -> SUBSET Jobs]
  /\ row \in [Jobs -> {"none", "inactive", "active"}]
  /\ Stored

(* A job's status, its place in the run, its row and its files go together. *)
Late == {"activating", "listing", "reconciling", "end", "stopped"}

JobInv ==
  \A j \in Jobs :
    /\ status[j] = "none" => about[j].pc = "idle" /\ pc[j] = "none"
    /\ pc[j] = "none"   => status[j] \in {"none", "pending", "deleted"}
    /\ pc[j] = "queued" => status[j] \in {"pending", "deleted"}
    /\ status[j] = "completed" => pc[j] \in Late \cup {"recording"}
    /\ row[j] # "none"   <=> status[j] = "completed"
    /\ state[j] # "none" <=> j \in Recorded
    /\ j \in Recorded => pc[j] \in Late
    /\ pc[j] \in {"listing", "reconciling"} => activated[j]

(* Only a writer that reconciles has versions to write, and what it loaded  *)
(* had a record.                                                            *)
Clean == [todo |-> {}, copy |-> None]

SweepInv ==
  \A w \in Writers : /\ ~At(w, "reconciling") => sweep[w] = Clean
                     /\ sweep[w].copy # None => pc[sweep[w].copy] \in Late

Aimed == rollback.pc # "idle" => rollback.target \in Jobs

(* Only a new job of a dataset that has no other is live.                  *)
LiveInv ==
  \A i, j \in Jobs : Live(i) /\ Live(j) /\ about[i].dataset = about[j].dataset => i = j

(* While dispatches do not race, one dispatcher works, and what it found    *)
(* when it looked for a duplicate holds until it inserts.                   *)
Counts(j) == Live(j) \/ status[j] = "completed"
About(j, t) == about[j].dataset = t.dataset /\ about[j].generation = t.generation

TrainedInv ==
  "race" \notin profile =>
    /\ \A r \in Dispatchers : dispatcher[r].pc # "idle" => r = CHOOSE q \in Dispatchers : TRUE
    /\ \A r \in Dispatchers, j \in Jobs :
         dispatcher[r].pc = "insert" /\ dispatcher[r].kind = "training"
         /\ About(j, dispatcher[r])
         => ~Counts(j)
    /\ \A i, j \in Jobs :
         /\ about[i].kind = "training" /\ Counts(i)
         /\ about[j].kind = "training" /\ Counts(j)
         /\ About(i, about[j])
         => i = j

(* In order: one of a running job, a rollback and a deletion at a time; the *)
(* files and rows of a version come and go together; and, but while a       *)
(* decision or a rollback is being carried out, the active row is that of   *)
(* the version the ACTIVE file names and no deletion has reached, and the   *)
(* record of the version the file names is the one that says production.    *)
Doomed(v) == \E d \in deleting : v \in OfDataset(d)
Served    == IF pointer = None THEN {} ELSE {pointer}
Shown     == IF pointer = None \/ Doomed(pointer) THEN {} ELSE {pointer}
Done(j)   == pc[j] \in {"recording", "activating", "listing", "reconciling"}
Taking(j) == (pc[j] \in {"saving", "completing"} \/ Done(j)) /\ activated[j]

Exclusive ==
  /\ \A i, j \in Jobs : Running(i) /\ Running(j) => i = j
  /\ \A j \in Jobs : Running(j) => rollback.pc = "idle" /\ deleting = {}
  /\ rollback.pc # "idle" => deleting = {}
  /\ \A d \in deleting : generation[d] = 0 /\ \A j \in OfDataset(d) : status[j] = "deleted"

Kept(j) ==
  /\ Running(j) => status[j] = IF Done(j) THEN "completed" ELSE "running"
  /\ files[j] # {} => Running(j) \/ j \in Recorded
  /\ pc[j] \in {"none", "queued", "training", "stopped"} => files[j] = {}
  /\ j \in Recorded => status[j] \in {"completed", "deleted"}
  /\ row[j] # "none" => pc[j] = "recording" \/ j \in Recorded
  /\ status[j] = "deleted" /\ files[j] # {} => about[j].dataset \in deleting

Named ==
  /\ \A i, j \in ActiveRows : i = j
  /\ rollback.pc = "idle" /\ (\A j \in Jobs : ~Taking(j)) => ActiveRows = Shown
  /\ rollback.pc # "idle" => pointer = rollback.target /\ pointer \in Recorded
  /\ deleting # {} /\ pointer # None => pointer \in Recorded
  /\ \A j \in Jobs :
       /\ Taking(j) => pointer = j /\ (Done(j) => row[j] = "active")
       /\ pc[j] = "completing" => previous[j] = IF activated[j] THEN ActiveRows ELSE {}
       /\ pc[j] \in {"training", "trained"} => seen[j] = pointer

(* A version that a writer has yet to load or to save has a record; the     *)
(* others already have the state it gives them.                             *)
Produced ==
  /\ rollback.pc = "idle" /\ (\A j \in Jobs : ~Taking(j)) => Production = Served
  /\ rollback.pc = "rows" => Production = {rollback.target}
  /\ \A w \in Writers :
       /\ sweep[w].copy # None => sweep[w].copy \in Recorded
       /\ At(w, "reconciling") => \A v \in Recorded :
            v \in sweep[w].todo \/ v = sweep[w].copy \/ state[v] = Reconciled(w, v)

OrderInv == Orderly => Exclusive /\ (\A j \in Jobs : Kept(j)) /\ Named /\ Produced

IInv == Typed /\ JobInv /\ SweepInv /\ Aimed /\ LiveInv /\ TrainedInv /\ OrderInv

-----------------------------------------------------------------------------
LEMMA WritersAre == Writers = Jobs \cup {None} /\ None \notin Jobs
  BY TrainingAssumption DEF Writers, Jobs, None

(* What a reconciling writer changes: its place, its list, one record.     *)
LEMMA WriterSteps ==
  ASSUME Typed, NEW w \in Writers, Reconcile(w)
  PROVE  /\ UNCHANGED <<generation, dispatcher, status, about, seen, quality, activated,
                        previous, row, pointer, deleting, profile>>
         /\ \A v \in Writers : v # w => sweep'[v] = sweep[v]
         /\ \A j \in Jobs : j # w => pc'[j] = pc[j]
         /\ w # None => rollback' = rollback
         /\ rollback'.target = rollback.target /\ rollback'.count = rollback.count
         /\ pc' \in [Jobs -> Places]
         /\ sweep' \in [Writers -> [todo : SUBSET Jobs, copy : Versions]]
         /\ rollback'.pc \in {"idle", "listing", "reconciling", "rows"}
         /\ rollback' \in [pc : {"idle", "listing", "reconciling", "rows"}, target : Versions,
                           count : Nat]
         /\ files' \in [Jobs -> SUBSET {"model", "record"}] /\ state' \in [Jobs -> States]
<1> USE DEF jobs, registry, context
<1>1. CASE List(w)
  <2>1. sweep' \in [Writers -> [todo : SUBSET Jobs, copy : Versions]]
    <3>1. {v \in Jobs : files[v] # {}} \in SUBSET Jobs
      OBVIOUS
    <3> QED
      BY <1>1, <3>1 DEF List, Typed, Stored
  <2>2. \A v \in Writers : v # w => sweep'[v] = sweep[v]
    BY <1>1 DEF List, Typed, Stored
  <2>3. CASE w = None
    BY <1>1, <2>1, <2>2, <2>3, WritersAre DEF List, At, MoveTo, Typed, Stored
  <2>4. CASE w \in Jobs
    <3>1. pc' \in [Jobs -> Places] /\ \A j \in Jobs : j # w => pc'[j] = pc[j]
      BY <1>1, <2>4, WritersAre DEF List, MoveTo, Goto, Typed, Places
    <3> QED
      BY <1>1, <2>1, <2>2, <2>4, <3>1, WritersAre DEF List, At, MoveTo, Typed, Stored
  <2> QED
    BY <2>3, <2>4, WritersAre
<1>2. CASE Load(w)
  <2>1. PICK v \in sweep[w].todo : sweep' = [sweep EXCEPT ![w] =
            [todo |-> @.todo \ {v},
             copy |-> IF v \in Recorded /\ state[v] # Reconciled(w, v) THEN v ELSE None]]
    BY <1>2 DEF Load
  <2>2. v \in Versions /\ None \in Versions
    BY <2>1 DEF Versions, Typed, Stored
  <2> QED
    BY <1>2, <2>1, <2>2 DEF Load, Typed, Stored
<1>3. CASE Save(w)
  <2>1. sweep[w].copy \in Jobs
    BY <1>3 DEF Save, Typed, Stored, Versions
  <2>2. state' \in [Jobs -> States]
    <3>1. Reconciled(w, sweep[w].copy) \in States
      BY DEF Reconciled, States
    <3> QED
      BY <1>3, <3>1 DEF Save, Written, Typed, Stored
  <2>3. files' \in [Jobs -> SUBSET {"model", "record"}]
    BY <1>3, <2>1 DEF Save, Written, Typed, Stored
  <2>4. /\ sweep' \in [Writers -> [todo : SUBSET Jobs, copy : Versions]]
        /\ \A v \in Writers : v # w => sweep'[v] = sweep[v]
    <3>1. None \in Versions
      BY DEF Versions
    <3> QED
      BY <1>3, <3>1 DEF Save, Typed, Stored
  <2> QED
    BY <1>3, <2>2, <2>3, <2>4 DEF Save, Typed, Stored
<1>4. CASE Finish(w)
  <2>1. CASE w = None
    BY <1>4, <2>1, WritersAre DEF Finish, MoveTo, Typed, Stored
  <2>2. CASE w \in Jobs
    BY <1>4, <2>2, WritersAre DEF Finish, MoveTo, Goto, Typed, Stored, Places
  <2> QED
    BY <2>1, <2>2, WritersAre
<1> QED
  BY <1>1, <1>2, <1>3, <1>4 DEF Reconcile

(* Whoever is at work after it was so before. *)
LEMMA WriterActive ==
  ASSUME Typed, NEW w \in Writers, Reconcile(w)
  PROVE  /\ \A j \in Jobs : Running(j)' => Running(j)
         /\ rollback'.pc # "idle" => rollback.pc # "idle"
<1>1. CASE w = None
  <2>1. pc' = pc
    BY <1>1 DEF Reconcile, List, Load, Save, Finish, MoveTo, jobs
  <2>2. rollback'.pc # "idle" => rollback.pc # "idle"
    BY <1>1 DEF Reconcile, List, Load, Save, Finish, MoveTo, At
  <2> QED
    BY <2>1, <2>2 DEF Running
<1>2. CASE w \in Jobs
  <2>1. rollback' = rollback /\ \A j \in Jobs : j # w => pc'[j] = pc[j]
    BY <1>2, WriterSteps, WritersAre
  <2>2. pc'[w] = pc[w] \/ pc[w] \in {"listing", "reconciling"}
    BY <1>2, WritersAre DEF Reconcile, List, Load, Save, Finish, At, jobs
  <2> QED
    BY <2>1, <2>2 DEF Running
<1> QED
  BY <1>1, <1>2, WritersAre

(* Every step keeps the types. *)
LEMMA TypedKept ==
  ASSUME Typed, [Next]_vars
  PROVE  Typed'
<1>1. ASSUME NEW d \in Datasets, Upload(d) PROVE Typed'
  BY <1>1 DEF Upload, jobs, registry, context, Typed, Stored, Tickets, Kinds, Statuses, Places,
     States, Versions, None, idle, ActiveRows
<1>2. ASSUME NEW d \in Datasets, DeleteRows(d) PROVE Typed'
  BY <1>2 DEF DeleteRows, OfDataset, jobs, registry, context, Typed, Stored, Tickets, Kinds, Statuses,
     Places, States, Versions, None, idle, ActiveRows
<1>3. ASSUME NEW d \in Datasets, DeleteFiles(d) PROVE Typed'
  BY <1>3 DEF DeleteFiles, Derived, OfDataset, jobs, registry, context, Typed, Stored, Tickets, Kinds,
     Statuses, Places, States, Versions, None, idle, ActiveRows
<1>4. ASSUME NEW r \in Dispatchers, NEW d \in Datasets, NEW kind \in Kinds, Examine(r, kind, d)
      PROVE  Typed'
  BY <1>4 DEF Examine, jobs, registry, context, Typed, Stored, Tickets, Kinds, Statuses, Places,
     States, Versions, None, idle, ActiveRows
<1>5. ASSUME NEW r \in Dispatchers, Insert(r) PROVE Typed'
  <2>1. dispatcher' \in [Dispatchers -> Tickets]
    <3>1. idle \in Tickets
      BY DEF idle, Tickets, Kinds, None
    <3>2. [dispatcher[r] EXCEPT !.pc = "enqueue"] \in Tickets
      <4>1. dispatcher[r] \in Tickets
        BY DEF Typed
      <4> QED
        BY <4>1 DEF Tickets
    <3> QED
      BY <3>1, <3>2, <1>5 DEF Insert, Typed
  <2>2. status' \in [Jobs -> Statuses] /\ about' \in [Jobs -> Tickets]
    BY <1>5 DEF Insert, Typed, Stored, Statuses
  <2> QED
    BY <2>1, <2>2, <1>5 DEF Insert, jobs, registry, context, Typed, Stored
<1>6. ASSUME NEW r \in Dispatchers, Enqueue(r) PROVE Typed'
  BY <1>6 DEF Enqueue, Committed, jobs, registry, context, Typed, Stored, Tickets, Kinds, Statuses,
     Places, States, Versions, None, idle, ActiveRows
<1>7. ASSUME NEW r \in Dispatchers, LoseJob(r) PROVE Typed'
  BY <1>7 DEF LoseJob, Committed, jobs, registry, context, Typed, Stored, Tickets, Kinds, Statuses,
     Places, States, Versions, None, idle, ActiveRows
<1>8. ASSUME NEW j \in Jobs, Run(j) PROVE Typed'
  <2>1. pc' \in [Jobs -> Places] /\ status' \in [Jobs -> Statuses]
    BY <1>8 DEF Run, Goto, Typed, Stored, Places, Statuses
  <2>2. seen' \in [Jobs -> Versions]
    BY <1>8 DEF Run, Typed, Stored, Versions, None, ActiveRows
  <2> QED
    BY <2>1, <2>2, <1>8 DEF Run, registry, context, Typed, Stored
<1>9. ASSUME NEW j \in Jobs, Train(j) PROVE Typed'
  BY <1>9 DEF Train, Goto, jobs, registry, context, Typed, Stored, Tickets, Kinds, Statuses, Places,
     States, Versions, None, idle, ActiveRows
<1>10. ASSUME NEW j \in Jobs, TrainingFails(j) PROVE Typed'
  BY <1>10 DEF TrainingFails, Settle, Goto, jobs, registry, context, Typed, Stored, Tickets, Kinds,
     Statuses, Places, States, Versions, None, idle, ActiveRows
<1>11. ASSUME NEW j \in Jobs, Decide(j) PROVE Typed'
  BY <1>11 DEF Decide, Goto, jobs, registry, context, Typed, Stored, Tickets, Kinds, Statuses, Places,
     States, Versions, None, idle, ActiveRows
<1>12. ASSUME NEW j \in Jobs, SaveArtifacts(j) PROVE Typed'
  BY <1>12 DEF SaveArtifacts, Goto, jobs, registry, context, Typed, Stored, Tickets, Kinds, Statuses,
     Places, States, Versions, None, idle, ActiveRows
<1>13. ASSUME NEW j \in Jobs, SavingFails(j) PROVE Typed'
  BY <1>13 DEF SavingFails, Settle, Goto, jobs, registry, context, Typed, Stored, Tickets, Kinds,
     Statuses, Places, States, Versions, None, idle, ActiveRows
<1>14. ASSUME NEW j \in Jobs, Complete(j) PROVE Typed'
  <2>1. pc' \in [Jobs -> Places] /\ status' \in [Jobs -> Statuses]
    BY <1>14 DEF Complete, Goto, Typed, Stored, Places, Statuses
  <2>2. row' \in [Jobs -> {"none", "inactive", "active"}]
    BY <1>14 DEF Complete, WithActive, Typed, Stored
  <2> QED
    BY <2>1, <2>2, <1>14 DEF Complete, registry, context, Typed, Stored
<1>15. ASSUME NEW j \in Jobs, SaveRecord(j) PROVE Typed'
  BY <1>15 DEF SaveRecord, Written, Goto, jobs, registry, context, Typed, Stored, Places,
     States, Versions, Writers, Jobs, None, ActiveRows
<1>16. ASSUME NEW j \in Jobs, Activate(j) PROVE Typed'
  BY <1>16 DEF Activate, Goto, jobs, registry, context, Typed, Stored, Places,
     States, Versions, Writers, Jobs, None, ActiveRows
<1>17. ASSUME NEW j \in Jobs, RecordingFails(j) PROVE Typed'
  BY <1>17 DEF RecordingFails, Goto, jobs, registry, context, Typed, Stored, Places,
     States, Versions, Writers, Jobs, None, ActiveRows
<1>18. ASSUME NEW v \in Jobs, RollbackFiles(v) PROVE Typed'
  BY <1>18 DEF RollbackFiles, jobs, registry, context, Typed, Stored, Places,
     States, Versions, Writers, Jobs, None, ActiveRows
<1>19. ASSUME NEW w \in Writers, Reconcile(w) PROVE Typed'
  BY <1>19, WriterSteps DEF jobs, Typed, Stored
<1>20. ASSUME RollbackRows PROVE Typed'
  BY <1>20 DEF RollbackRows, RolledBack, WithActive, jobs, registry, context, Typed, Stored, Places,
     States, Versions, Writers, Jobs, None, ActiveRows
<1>21. ASSUME RollbackEnds PROVE Typed'
  BY <1>21 DEF RollbackEnds, jobs, registry, context, Typed, Stored, Places,
     States, Versions, Writers, Jobs, None, ActiveRows
<1>22. ASSUME NEW j \in Jobs, Stop(j) PROVE Typed'
  BY <1>22 DEF Stop, Goto, jobs, registry, context, Typed, Stored, Places,
     States, Versions, Writers, Jobs, None, ActiveRows
<1>23. ASSUME NEW d \in Datasets, StopDeletion(d) PROVE Typed'
  BY <1>23 DEF StopDeletion, jobs, registry, context, Typed, Stored, Places,
     States, Versions, Writers, Jobs, None, ActiveRows
<1>24. ASSUME UNCHANGED vars PROVE Typed'
  BY <1>24 DEF vars, jobs, registry, context, Typed, Stored
<1>25. QED
  BY <1>1, <1>2, <1>3, <1>4, <1>5, <1>6, <1>7, <1>8, <1>9, <1>10, <1>11, <1>12, <1>13, <1>14,
     <1>15, <1>16, <1>17, <1>18, <1>19, <1>20, <1>21, <1>22, <1>23, <1>24 DEF Next, Step, Kinds

(* A job's status, place, row and files stay together. *)
LEMMA JobKept ==
  ASSUME Typed, JobInv, SweepInv, [Next]_vars
  PROVE  JobInv'
<1> USE DEF jobs, registry, context, Typed, Stored, Tickets, Statuses, Places, States, Versions,
        JobInv, Live, Recorded, Late, idle
<1>1. ASSUME NEW d \in Datasets, Upload(d) PROVE JobInv'
  BY <1>1 DEF Upload
<1>2. ASSUME NEW d \in Datasets, DeleteRows(d) PROVE JobInv'
  BY <1>2 DEF DeleteRows, OfDataset
<1>3. ASSUME NEW d \in Datasets, DeleteFiles(d) PROVE JobInv'
  BY <1>3 DEF DeleteFiles, Derived, OfDataset
<1>4. ASSUME NEW r \in Dispatchers, NEW d \in Datasets, NEW kind \in Kinds, Examine(r, kind, d)
      PROVE  JobInv'
  BY <1>4 DEF Examine
<1>5. ASSUME NEW r \in Dispatchers, Insert(r) PROVE JobInv'
  BY <1>5 DEF Insert, MayInsert, ActiveJob
<1>6. ASSUME NEW r \in Dispatchers, Enqueue(r) PROVE JobInv'
  BY <1>6 DEF Enqueue, Committed
<1>7. ASSUME NEW r \in Dispatchers, LoseJob(r) PROVE JobInv'
  BY <1>7 DEF LoseJob, Committed
<1>8. ASSUME NEW j \in Jobs, Run(j) PROVE JobInv'
  BY <1>8 DEF Run, Goto
<1>9. ASSUME NEW j \in Jobs, Train(j) PROVE JobInv'
  BY <1>9 DEF Train, Goto
<1>10. ASSUME NEW j \in Jobs, TrainingFails(j) PROVE JobInv'
  BY <1>10 DEF TrainingFails, Settle, Goto
<1>11. ASSUME NEW j \in Jobs, Decide(j) PROVE JobInv'
  BY <1>11 DEF Decide, Goto
<1>12. ASSUME NEW j \in Jobs, SaveArtifacts(j) PROVE JobInv'
  BY <1>12 DEF SaveArtifacts, Goto
<1>13. ASSUME NEW j \in Jobs, SavingFails(j) PROVE JobInv'
  BY <1>13 DEF SavingFails, Settle, Goto
<1>14. ASSUME NEW j \in Jobs, Complete(j) PROVE JobInv'
  BY <1>14 DEF Complete, WithActive, Goto
<1>15. ASSUME NEW j \in Jobs, SaveRecord(j) PROVE JobInv'
  BY <1>15 DEF SaveRecord, Written, Goto
<1>16. ASSUME NEW j \in Jobs, Activate(j) PROVE JobInv'
  BY <1>16 DEF Activate, Goto
<1>17. ASSUME NEW j \in Jobs, RecordingFails(j) PROVE JobInv'
  BY <1>17 DEF RecordingFails, Goto
<1>18. ASSUME NEW v \in Jobs, RollbackFiles(v) PROVE JobInv'
  BY <1>18 DEF RollbackFiles
<1>19. ASSUME NEW w \in Writers, Reconcile(w) PROVE JobInv'
  <2>1. UNCHANGED <<status, about, activated, row>> /\ \A j \in Jobs : j # w => pc'[j] = pc[j]
    BY <1>19, WriterSteps
  <2>2. CASE List(w)
    BY <2>1, <2>2 DEF List, At, MoveTo, Goto
  <2>3. CASE Load(w)
    BY <2>1, <2>3 DEF Load
  <2>4. CASE Save(w)
    <3>1. sweep[w].copy \in Jobs /\ pc[sweep[w].copy] \in Late
      BY <2>4 DEF Save, SweepInv
    <3>2. /\ files' = [files EXCEPT ![sweep[w].copy] = @ \cup {"record"}]
          /\ state' = [state EXCEPT ![sweep[w].copy] = Reconciled(w, sweep[w].copy)]
          /\ pc' = pc
      BY <2>4 DEF Save, Written
    <3>3. Reconciled(w, sweep[w].copy) \in {"production", "archived"}
      BY DEF Reconciled
    <3> QED
      BY <2>1, <3>1, <3>2, <3>3
  <2>5. CASE Finish(w)
    BY <2>1, <2>5 DEF Finish, At, MoveTo, Goto
  <2> QED
    BY <1>19, <2>2, <2>3, <2>4, <2>5 DEF Reconcile
<1>20. ASSUME RollbackRows PROVE JobInv'
  <2>1. \A v \in Jobs : row'[v] # "none" <=> row[v] # "none"
    BY <1>20 DEF RollbackRows, RolledBack, WithActive, ActiveRows
  <2> QED
    BY <1>20, <2>1 DEF RollbackRows
<1>21. ASSUME RollbackEnds PROVE JobInv'
  BY <1>21 DEF RollbackEnds
<1>22. ASSUME NEW j \in Jobs, Stop(j) PROVE JobInv'
  BY <1>22 DEF Stop, Goto
<1>23. ASSUME NEW d \in Datasets, StopDeletion(d) PROVE JobInv'
  BY <1>23 DEF StopDeletion
<1>24. ASSUME UNCHANGED vars PROVE JobInv'
  BY <1>24 DEF vars
<1>25. QED
  BY <1>1, <1>2, <1>3, <1>4, <1>5, <1>6, <1>7, <1>8, <1>9, <1>10, <1>11, <1>12, <1>13, <1>14,
     <1>15, <1>16, <1>17, <1>18, <1>19, <1>20, <1>21, <1>22, <1>23, <1>24 DEF Next, Step, Kinds

(* Nobody starts or ends reconciling, and what was loaded keeps its place.  *)
LEMMA SweepUnmoved ==
  ASSUME Typed, SweepInv, sweep' = sweep, rollback' = rollback,
         \A j \in Jobs : /\ pc'[j] = "reconciling" <=> pc[j] = "reconciling"
                         /\ pc[j] \in Late => pc'[j] \in Late
  PROVE  SweepInv'
<1> SUFFICES ASSUME NEW w \in Writers
             PROVE  /\ ~At(w, "reconciling")' => sweep[w] = Clean
                    /\ sweep[w].copy # None => pc'[sweep[w].copy] \in Late
  BY DEF SweepInv
<1>1. ~At(w, "reconciling")' => ~At(w, "reconciling")
  <2>1. CASE w = None
    BY <2>1 DEF At
  <2>2. CASE w \in Jobs
    BY <2>2, WritersAre DEF At
  <2> QED
    BY <2>1, <2>2, WritersAre
<1>2. sweep[w].copy # None => sweep[w].copy \in Jobs
  BY DEF Typed, Stored, Versions
<1> QED
  BY <1>1, <1>2 DEF SweepInv

(* One writer starts, goes on or ends. *)
LEMMA SweepMoved ==
  ASSUME Typed, SweepInv, NEW w \in Writers,
         \A v \in Writers : v # w => /\ sweep'[v] = sweep[v]
                                     /\ At(v, "reconciling")' <=> At(v, "reconciling"),
         At(w, "reconciling")' \/ sweep'[w] = Clean,
         sweep'[w].copy = None \/ pc'[sweep'[w].copy] \in Late,
         \A j \in Jobs : pc[j] \in Late => pc'[j] \in Late
  PROVE  SweepInv'
<1> SUFFICES ASSUME NEW v \in Writers
             PROVE  /\ ~At(v, "reconciling")' => sweep'[v] = Clean
                    /\ sweep'[v].copy # None => pc'[sweep'[v].copy] \in Late
  BY DEF SweepInv
<1>1. CASE v = w
  BY <1>1
<1>2. CASE v # w
  <2>1. sweep[v].copy # None => sweep[v].copy \in Jobs
    BY DEF Typed, Stored, Versions
  <2> QED
    BY <1>2, <2>1 DEF SweepInv
<1> QED
  BY <1>1, <1>2

(* A writer leaves nothing behind. *)
LEMMA SweepKept ==
  ASSUME Typed, JobInv, SweepInv, [Next]_vars
  PROVE  SweepInv'
<1> USE DEF jobs, registry, context, Late
<1>1. ASSUME NEW d \in Datasets, Upload(d) PROVE SweepInv'
  BY <1>1, SweepUnmoved DEF Upload
<1>2. ASSUME NEW d \in Datasets, DeleteRows(d) PROVE SweepInv'
  BY <1>2, SweepUnmoved DEF DeleteRows
<1>3. ASSUME NEW d \in Datasets, DeleteFiles(d) PROVE SweepInv'
  BY <1>3, SweepUnmoved DEF DeleteFiles
<1>4. ASSUME NEW r \in Dispatchers, NEW d \in Datasets, NEW kind \in Kinds, Examine(r, kind, d)
      PROVE  SweepInv'
  BY <1>4, SweepUnmoved DEF Examine
<1>5. ASSUME NEW r \in Dispatchers, Insert(r) PROVE SweepInv'
  BY <1>5, SweepUnmoved DEF Insert
<1>6. ASSUME NEW r \in Dispatchers, Enqueue(r) PROVE SweepInv'
  BY <1>6, SweepUnmoved DEF Enqueue, Committed, Typed
<1>7. ASSUME NEW r \in Dispatchers, LoseJob(r) PROVE SweepInv'
  BY <1>7, SweepUnmoved DEF LoseJob, Committed, Typed
<1>8. ASSUME NEW j \in Jobs, Run(j) PROVE SweepInv'
  BY <1>8, SweepUnmoved DEF Run, Goto, Typed, Places
<1>9. ASSUME NEW j \in Jobs, Train(j) PROVE SweepInv'
  BY <1>9, SweepUnmoved DEF Train, Goto, Typed, Places
<1>10. ASSUME NEW j \in Jobs, TrainingFails(j) PROVE SweepInv'
  BY <1>10, SweepUnmoved DEF TrainingFails, Goto, Typed, Places
<1>11. ASSUME NEW j \in Jobs, Decide(j) PROVE SweepInv'
  BY <1>11, SweepUnmoved DEF Decide, Goto, Typed, Places
<1>12. ASSUME NEW j \in Jobs, SaveArtifacts(j) PROVE SweepInv'
  BY <1>12, SweepUnmoved DEF SaveArtifacts, Goto, Typed, Places
<1>13. ASSUME NEW j \in Jobs, SavingFails(j) PROVE SweepInv'
  BY <1>13, SweepUnmoved DEF SavingFails, Goto, Typed, Places
<1>14. ASSUME NEW j \in Jobs, Complete(j) PROVE SweepInv'
  BY <1>14, SweepUnmoved DEF Complete, Goto, Typed, Places
<1>15. ASSUME NEW j \in Jobs, SaveRecord(j) PROVE SweepInv'
  BY <1>15, SweepUnmoved DEF SaveRecord, Goto, Typed, Places
<1>16. ASSUME NEW j \in Jobs, Activate(j) PROVE SweepInv'
  BY <1>16, SweepUnmoved DEF Activate, Goto, Typed, Places
<1>17. ASSUME NEW j \in Jobs, RecordingFails(j) PROVE SweepInv'
  <2>1. j \in Writers /\ j # None
    BY WritersAre
  <2>2. /\ sweep' = [sweep EXCEPT ![j] = Clean] /\ rollback' = rollback
        /\ \A i \in Jobs : i # j => pc'[i] = pc[i]
        /\ pc'[j] \in Late
    BY <1>17 DEF RecordingFails, Goto, Clean, Typed, Places
  <2>3. sweep'[j] = Clean /\ \A v \in Writers : v # j => sweep'[v] = sweep[v]
    BY <2>1, <2>2 DEF Typed, Stored
  <2>4. \A v \in Writers : v # j => (At(v, "reconciling")' <=> At(v, "reconciling"))
    BY <2>2, WritersAre DEF At
  <2>5. sweep'[j].copy = None /\ \A i \in Jobs : pc[i] \in Late => pc'[i] \in Late
    BY <2>2, <2>3 DEF Clean
  <2> QED
    BY <2>1, <2>3, <2>4, <2>5, SweepMoved
<1>18. ASSUME NEW v \in Jobs, RollbackFiles(v) PROVE SweepInv'
  <2>1. /\ rollback.pc = "idle" /\ rollback'.pc = "listing" /\ UNCHANGED <<pc, sweep>>
    BY <1>18 DEF RollbackFiles
  <2>2. \A w \in Writers : At(w, "reconciling")' <=> At(w, "reconciling")
    BY <2>1 DEF At
  <2> QED
    BY <2>1, <2>2 DEF SweepInv
<1>19. ASSUME NEW w \in Writers, Reconcile(w) PROVE SweepInv'
  <2>1. /\ \A v \in Writers : v # w => sweep'[v] = sweep[v]
        /\ \A j \in Jobs : j # w => pc'[j] = pc[j]
        /\ w # None => rollback' = rollback
    BY <1>19, WriterSteps
  <2>2. \A v \in Writers : v # w => (At(v, "reconciling")' <=> At(v, "reconciling"))
    BY <2>1, WritersAre DEF At
  <2>3. ASSUME w \in Jobs PROVE pc'[w] = pc[w] \/ pc'[w] \in Late
    <3>1. CASE List(w)
      BY <3>1, <2>3, WritersAre DEF List, MoveTo, Goto, Typed
    <3>2. CASE Load(w) \/ Save(w)
      BY <3>2 DEF Load, Save
    <3>3. CASE Finish(w)
      BY <3>3, <2>3, WritersAre DEF Finish, MoveTo, Goto, Typed
    <3> QED
      BY <1>19, <3>1, <3>2, <3>3 DEF Reconcile
  <2>4. \A v \in Jobs : pc[v] \in Late => pc'[v] \in Late
    BY <2>1, <2>3
  <2>5. /\ At(w, "reconciling")' \/ sweep'[w] = Clean
        /\ sweep'[w].copy = None \/ pc'[sweep'[w].copy] \in Late
    <3>1. CASE List(w)
      <4>1. At(w, "reconciling")'
        BY <3>1, WritersAre DEF List, MoveTo, Goto, At, Typed, Stored
      <4>2. sweep'[w].copy = None
        <5>1. ~At(w, "reconciling")
          BY <3>1 DEF List, At
        <5>2. sweep[w].copy = None
          BY <5>1 DEF SweepInv, Clean
        <5> QED
          BY <3>1, <5>2 DEF List, Typed, Stored
      <4> QED
        BY <4>1, <4>2
    <3>2. CASE Load(w)
      <4>1. At(w, "reconciling")'
        BY <3>2 DEF Load, At
      <4>2. sweep'[w].copy # None => sweep'[w].copy \in Recorded
        BY <3>2 DEF Load, Typed, Stored
      <4>3. \A v \in Recorded : v \in Jobs /\ pc'[v] \in Late
        BY <2>4 DEF JobInv, Recorded
      <4> QED
        BY <4>1, <4>2, <4>3
    <3>3. CASE Save(w)
      <4>1. At(w, "reconciling")
        BY <3>3 DEF Save, SweepInv, Clean
      <4> QED
        BY <3>3, <4>1 DEF Save, At, Typed, Stored
    <3>4. CASE Finish(w)
      BY <3>4 DEF Finish, Clean
    <3> QED
      BY <1>19, <3>1, <3>2, <3>3, <3>4 DEF Reconcile
  <2> QED
    BY <2>1, <2>2, <2>4, <2>5, SweepMoved
<1>20. ASSUME RollbackRows PROVE SweepInv'
  <2>1. /\ rollback.pc = "rows" /\ rollback'.pc = "idle" /\ UNCHANGED <<pc, sweep>>
    BY <1>20 DEF RollbackRows, Typed, Stored
  <2>2. \A w \in Writers : At(w, "reconciling")' <=> At(w, "reconciling")
    BY <2>1 DEF At
  <2> QED
    BY <2>1, <2>2 DEF SweepInv
<1>21. ASSUME RollbackEnds PROVE SweepInv'
  <2>1. /\ sweep' = [sweep EXCEPT ![None] = Clean] /\ pc' = pc /\ None \in Writers
    BY <1>21, WritersAre DEF RollbackEnds, Clean
  <2>2. sweep'[None] = Clean /\ \A v \in Writers : v # None => sweep'[v] = sweep[v]
    BY <2>1 DEF Typed, Stored
  <2>3. \A v \in Writers : v # None => (At(v, "reconciling")' <=> At(v, "reconciling"))
    BY <2>1, WritersAre DEF At
  <2>4. sweep'[None].copy = None /\ \A j \in Jobs : pc[j] \in Late => pc'[j] \in Late
    BY <2>1, <2>2 DEF Clean
  <2> QED
    BY <2>1, <2>2, <2>3, <2>4, SweepMoved
<1>22. ASSUME NEW j \in Jobs, Stop(j) PROVE SweepInv'
  <2>1. j \in Writers /\ j # None
    BY WritersAre
  <2>2. /\ sweep' = [sweep EXCEPT ![j] = Clean] /\ rollback' = rollback
        /\ \A i \in Jobs : i # j => pc'[i] = pc[i]
        /\ pc'[j] \in Late
    BY <1>22 DEF Stop, Goto, Clean, Typed, Places
  <2>3. sweep'[j] = Clean /\ \A v \in Writers : v # j => sweep'[v] = sweep[v]
    BY <2>1, <2>2 DEF Typed, Stored
  <2>4. \A v \in Writers : v # j => (At(v, "reconciling")' <=> At(v, "reconciling"))
    BY <2>2, WritersAre DEF At
  <2>5. sweep'[j].copy = None /\ \A i \in Jobs : pc[i] \in Late => pc'[i] \in Late
    BY <2>2, <2>3 DEF Clean
  <2> QED
    BY <2>1, <2>3, <2>4, <2>5, SweepMoved
<1>23. ASSUME NEW d \in Datasets, StopDeletion(d) PROVE SweepInv'
  BY <1>23, SweepUnmoved DEF StopDeletion
<1>24. ASSUME UNCHANGED vars PROVE SweepInv'
  BY <1>24, SweepUnmoved DEF vars
<1>25. QED
  BY <1>1, <1>2, <1>3, <1>4, <1>5, <1>6, <1>7, <1>8, <1>9, <1>10, <1>11, <1>12, <1>13, <1>14,
     <1>15, <1>16, <1>17, <1>18, <1>19, <1>20, <1>21, <1>22, <1>23, <1>24 DEF Next, Step, Kinds

(* A rollback under way has a version to serve. *)
LEMMA AimedKept ==
  ASSUME Typed, Aimed, [Next]_vars
  PROVE  Aimed'
<1>1. CASE UNCHANGED rollback
  BY <1>1 DEF Aimed
<1>2. ASSUME NEW v \in Jobs, RollbackFiles(v) PROVE Aimed'
  BY <1>2 DEF RollbackFiles, Aimed
<1>3. CASE RollbackRows \/ RollbackEnds
  BY <1>3 DEF RollbackRows, RollbackEnds, Aimed, Typed, Stored
<1>4. ASSUME NEW w \in Writers, Reconcile(w) PROVE Aimed'
  <2>1. rollback' = rollback \/ rollback.pc # "idle"
    BY <1>4 DEF Reconcile, List, Load, Save, Finish, MoveTo, At
  <2> QED
    BY <1>4, <2>1, WriterSteps DEF Aimed
<1> QED
  BY <1>1, <1>2, <1>3, <1>4 DEF Next, Step, vars, Upload, DeleteRows, DeleteFiles, Examine,
     Insert, Enqueue, LoseJob, Run, Train, TrainingFails, Decide, SaveArtifacts, SavingFails,
     Complete, SaveRecord, Activate, RecordingFails, Stop, StopDeletion

(* No dataset gets a second live job. *)
LEMMA LiveKept ==
  ASSUME Typed, JobInv, LiveInv, [Next]_vars
  PROVE  LiveInv'
<1> USE DEF jobs, registry, context, Typed, Tickets, Statuses, Places, JobInv, LiveInv, Live
<1>1. ASSUME NEW d \in Datasets, Upload(d) PROVE LiveInv'
  BY <1>1 DEF Upload
<1>2. ASSUME NEW d \in Datasets, DeleteRows(d) PROVE LiveInv'
  BY <1>2 DEF DeleteRows, OfDataset
<1>3. ASSUME NEW d \in Datasets, DeleteFiles(d) PROVE LiveInv'
  BY <1>3 DEF DeleteFiles, Derived, OfDataset
<1>4. ASSUME NEW r \in Dispatchers, NEW d \in Datasets, NEW kind \in Kinds, Examine(r, kind, d)
      PROVE  LiveInv'
  BY <1>4 DEF Examine
<1>5. ASSUME NEW r \in Dispatchers, Insert(r) PROVE LiveInv'
  BY <1>5 DEF Insert, MayInsert, ActiveJob
<1>6. ASSUME NEW r \in Dispatchers, Enqueue(r) PROVE LiveInv'
  BY <1>6 DEF Enqueue, Committed
<1>7. ASSUME NEW r \in Dispatchers, LoseJob(r) PROVE LiveInv'
  BY <1>7 DEF LoseJob, Committed
<1>8. ASSUME NEW j \in Jobs, Run(j) PROVE LiveInv'
  BY <1>8 DEF Run, Goto
<1>9. ASSUME NEW j \in Jobs, Train(j) PROVE LiveInv'
  BY <1>9 DEF Train, Goto
<1>10. ASSUME NEW j \in Jobs, TrainingFails(j) PROVE LiveInv'
  BY <1>10 DEF TrainingFails, Settle, Goto
<1>11. ASSUME NEW j \in Jobs, Decide(j) PROVE LiveInv'
  BY <1>11 DEF Decide, Goto
<1>12. ASSUME NEW j \in Jobs, SaveArtifacts(j) PROVE LiveInv'
  BY <1>12 DEF SaveArtifacts, Goto
<1>13. ASSUME NEW j \in Jobs, SavingFails(j) PROVE LiveInv'
  BY <1>13 DEF SavingFails, Settle, Goto
<1>14. ASSUME NEW j \in Jobs, Complete(j) PROVE LiveInv'
  BY <1>14 DEF Complete, WithActive, Goto
<1>15. ASSUME NEW j \in Jobs, SaveRecord(j) PROVE LiveInv'
  BY <1>15 DEF SaveRecord, Written, Goto
<1>16. ASSUME NEW j \in Jobs, Activate(j) PROVE LiveInv'
  BY <1>16 DEF Activate, Goto
<1>17. ASSUME NEW j \in Jobs, RecordingFails(j) PROVE LiveInv'
  BY <1>17 DEF RecordingFails, Goto
<1>18. ASSUME NEW v \in Jobs, RollbackFiles(v) PROVE LiveInv'
  BY <1>18 DEF RollbackFiles
<1>19. ASSUME NEW w \in Writers, Reconcile(w) PROVE LiveInv'
  BY <1>19, WriterSteps
<1>20. ASSUME RollbackRows PROVE LiveInv'
  BY <1>20 DEF RollbackRows, RolledBack, WithActive
<1>21. ASSUME RollbackEnds PROVE LiveInv'
  BY <1>21 DEF RollbackEnds
<1>22. ASSUME NEW j \in Jobs, Stop(j) PROVE LiveInv'
  BY <1>22 DEF Stop, Goto
<1>23. ASSUME NEW d \in Datasets, StopDeletion(d) PROVE LiveInv'
  BY <1>23 DEF StopDeletion
<1>24. ASSUME UNCHANGED vars PROVE LiveInv'
  BY <1>24 DEF vars
<1>25. QED
  BY <1>1, <1>2, <1>3, <1>4, <1>5, <1>6, <1>7, <1>8, <1>9, <1>10, <1>11, <1>12, <1>13, <1>14,
     <1>15, <1>16, <1>17, <1>18, <1>19, <1>20, <1>21, <1>22, <1>23, <1>24 DEF Next, Step, Kinds

(* Unless dispatches race, no generation gets a second training. *)
LEMMA TrainedKept ==
  ASSUME Typed, JobInv, TrainedInv, [Next]_vars
  PROVE  TrainedInv'
<1> USE DEF jobs, registry, context, Typed, Tickets, Kinds, Statuses, Places, JobInv,
        TrainedInv, Counts, About, Live, idle
<1>1. ASSUME NEW d \in Datasets, Upload(d) PROVE TrainedInv'
  BY <1>1 DEF Upload
<1>2. ASSUME NEW d \in Datasets, DeleteRows(d) PROVE TrainedInv'
  BY <1>2 DEF DeleteRows, OfDataset
<1>3. ASSUME NEW d \in Datasets, DeleteFiles(d) PROVE TrainedInv'
  BY <1>3 DEF DeleteFiles, Derived, OfDataset
<1>4. ASSUME NEW r \in Dispatchers, NEW d \in Datasets, NEW kind \in Kinds, Examine(r, kind, d)
      PROVE  TrainedInv'
  <2> USE DEF Typed, Tickets, Kinds, TrainedInv, Counts, About, Live
  <2>1. dispatcher' = [dispatcher EXCEPT ![r] = [pc |-> "insert", kind |-> kind,
                         dataset |-> d, generation |-> generation[d]]]
        /\ UNCHANGED <<status, about, profile>>
    BY <1>4 DEF Examine, jobs, context
  <2>2. ASSUME "race" \notin profile, NEW j \in Jobs, kind = "training",
               about[j].dataset = d, about[j].generation = generation[d]
        PROVE  ~Counts(j)
    BY <1>4, <2>2 DEF Examine, Wanted, Duplicate
  <2>3. SUFFICES ASSUME "race" \notin profile PROVE TrainedInv'
    BY <2>1
  <2>4. dispatcher[r].pc = "idle" /\ r = CHOOSE q \in Dispatchers : TRUE
    BY <1>4, <2>3 DEF Examine
  <2>5. \A q \in Dispatchers : q # r => dispatcher[q].pc = "idle" /\ dispatcher'[q] = dispatcher[q]
    BY <2>1, <2>3, <2>4
  <2>6. dispatcher'[r] = [pc |-> "insert", kind |-> kind, dataset |-> d, generation |-> generation[d]]
    BY <2>1
  <2>7. \A j \in Jobs : (Counts(j)' <=> Counts(j)) /\ about'[j] = about[j]
    BY <2>1
  <2>8. ASSUME NEW q \in Dispatchers, NEW j \in Jobs, dispatcher'[q].pc = "insert",
               dispatcher'[q].kind = "training", About(j, dispatcher[q])'
        PROVE  ~Counts(j)'
    <3>1. q = r
      BY <2>5, <2>8
    <3>2. kind = "training" /\ about[j].dataset = d /\ about[j].generation = generation[d]
      BY <3>1, <2>6, <2>7, <2>8
    <3>3. ~Counts(j)
      BY <3>2, <2>2, <2>3
    <3> QED
      BY <3>3, <2>7
  <2>9. \A q \in Dispatchers : dispatcher'[q].pc # "idle" => q = CHOOSE p \in Dispatchers : TRUE
    BY <2>4, <2>5
  <2>10. \A i, j \in Jobs : (/\ about'[i].kind = "training" /\ Counts(i)'
                             /\ about'[j].kind = "training" /\ Counts(j)'
                             /\ About(i, about[j])') => i = j
    BY <2>3, <2>7
  <2> QED
    BY <2>8, <2>9, <2>10
<1>5. ASSUME NEW r \in Dispatchers, Insert(r) PROVE TrainedInv'
  <2> USE DEF Typed, Tickets, TrainedInv, Counts, About, Live
  <2>1. CASE ~MayInsert(dispatcher[r].dataset)
    <3>1. dispatcher' = [dispatcher EXCEPT ![r] = idle] /\ UNCHANGED <<status, about, profile>>
      BY <1>5, <2>1 DEF Insert, context
    <3>2. dispatcher'[r].pc = "idle" /\ \A q \in Dispatchers : q # r => dispatcher'[q] = dispatcher[q]
      BY <3>1 DEF idle
    <3> QED
      BY <3>1, <3>2
  <2>2. CASE MayInsert(dispatcher[r].dataset)
    <3>1. PICK j \in Jobs : /\ status[j] = "none"
                            /\ status' = [status EXCEPT ![j] = "pending"]
                            /\ about' = [about EXCEPT ![j] = dispatcher[r]]
                            /\ dispatcher' = [dispatcher EXCEPT ![r].pc = "enqueue"]
      BY <1>5, <2>2 DEF Insert
    <3>2. profile' = profile /\ dispatcher[r].pc = "insert"
      BY <1>5 DEF Insert, context
    <3>3. SUFFICES ASSUME "race" \notin profile PROVE TrainedInv'
      BY <3>2
    <3>4. ASSUME NEW i \in Jobs, i # j
          PROVE  Counts(i)' = Counts(i) /\ about'[i] = about[i]
      BY <3>1, <3>4
    <3>5. \A q \in Dispatchers : q # r => dispatcher'[q].pc = "idle" /\ dispatcher[q].pc = "idle"
      <4>1. r = CHOOSE q \in Dispatchers : TRUE
        BY <3>2, <3>3
      <4>2. \A q \in Dispatchers : q # r => dispatcher[q].pc = "idle"
        BY <3>3, <4>1
      <4> QED
        BY <3>1, <4>2
    <3>6. \A q \in Dispatchers : dispatcher'[q].pc # "insert"
      BY <3>1, <3>5
    <3>7. \A i \in Jobs : i # j /\ Counts(i) /\ about[j]'.kind = "training"
                         => ~About(i, about[j]')
      BY <3>1, <3>2, <3>3
    <3> QED
      BY <3>1, <3>2, <3>3, <3>4, <3>5, <3>6, <3>7
  <2> QED
    BY <2>1, <2>2
<1>6. ASSUME NEW r \in Dispatchers, Enqueue(r) PROVE TrainedInv'
  BY <1>6 DEF Enqueue, Committed
<1>7. ASSUME NEW r \in Dispatchers, LoseJob(r) PROVE TrainedInv'
  BY <1>7 DEF LoseJob, Committed
<1>8. ASSUME NEW j \in Jobs, Run(j) PROVE TrainedInv'
  <2>1. \A i \in Jobs : Counts(i)' => Counts(i)
    BY <1>8 DEF Run
  <2>2. UNCHANGED <<dispatcher, about, profile>>
    BY <1>8 DEF Run
  <2> QED
    BY <2>1, <2>2
<1>9. ASSUME NEW j \in Jobs, Train(j) PROVE TrainedInv'
  BY <1>9 DEF Train, Goto
<1>10. ASSUME NEW j \in Jobs, TrainingFails(j) PROVE TrainedInv'
  BY <1>10 DEF TrainingFails, Settle, Goto
<1>11. ASSUME NEW j \in Jobs, Decide(j) PROVE TrainedInv'
  BY <1>11 DEF Decide, Goto
<1>12. ASSUME NEW j \in Jobs, SaveArtifacts(j) PROVE TrainedInv'
  BY <1>12 DEF SaveArtifacts, Goto
<1>13. ASSUME NEW j \in Jobs, SavingFails(j) PROVE TrainedInv'
  BY <1>13 DEF SavingFails, Settle, Goto
<1>14. ASSUME NEW j \in Jobs, Complete(j) PROVE TrainedInv'
  <2>1. \A i \in Jobs : Counts(i)' => Counts(i)
    BY <1>14 DEF Complete
  <2>2. UNCHANGED <<dispatcher, about, profile>>
    BY <1>14 DEF Complete
  <2> QED
    BY <2>1, <2>2
<1>15. ASSUME NEW j \in Jobs, SaveRecord(j) PROVE TrainedInv'
  BY <1>15 DEF SaveRecord, Written, Goto
<1>16. ASSUME NEW j \in Jobs, Activate(j) PROVE TrainedInv'
  BY <1>16 DEF Activate, Goto
<1>17. ASSUME NEW j \in Jobs, RecordingFails(j) PROVE TrainedInv'
  BY <1>17 DEF RecordingFails, Goto
<1>18. ASSUME NEW v \in Jobs, RollbackFiles(v) PROVE TrainedInv'
  BY <1>18 DEF RollbackFiles
<1>19. ASSUME NEW w \in Writers, Reconcile(w) PROVE TrainedInv'
  <2>1. UNCHANGED <<dispatcher, status, about, profile>>
    BY <1>19, WriterSteps
  <2> QED
    BY <2>1
<1>20. ASSUME RollbackRows PROVE TrainedInv'
  BY <1>20 DEF RollbackRows, RolledBack, WithActive
<1>21. ASSUME RollbackEnds PROVE TrainedInv'
  BY <1>21 DEF RollbackEnds
<1>22. ASSUME NEW j \in Jobs, Stop(j) PROVE TrainedInv'
  BY <1>22 DEF Stop, Goto
<1>23. ASSUME NEW d \in Datasets, StopDeletion(d) PROVE TrainedInv'
  BY <1>23 DEF StopDeletion
<1>24. ASSUME UNCHANGED vars PROVE TrainedInv'
  BY <1>24 DEF vars
<1>25. QED
  BY <1>1, <1>2, <1>3, <1>4, <1>5, <1>6, <1>7, <1>8, <1>9, <1>10, <1>11, <1>12, <1>13, <1>14,
     <1>15, <1>16, <1>17, <1>18, <1>19, <1>20, <1>21, <1>22, <1>23, <1>24 DEF Next, Step, Kinds

(* In order, nothing starts while something else goes on. *)
LEMMA ExclusiveKept ==
  ASSUME Typed, JobInv, Orderly, Exclusive, [Next]_vars
  PROVE  Exclusive'
<1> USE DEF jobs, registry, context, Typed, Stored, Places, JobInv, Orderly, Exclusive, OfDataset,
        MayStart, Quiet, Running, None
<1>1. ASSUME NEW d \in Datasets, Upload(d) PROVE Exclusive'
  BY <1>1 DEF Upload
<1>2. ASSUME NEW d \in Datasets, DeleteRows(d) PROVE Exclusive'
  BY <1>2 DEF DeleteRows, OfDataset
<1>3. ASSUME NEW d \in Datasets, DeleteFiles(d) PROVE Exclusive'
  BY <1>3 DEF DeleteFiles, Derived, OfDataset
<1>4. ASSUME NEW r \in Dispatchers, NEW d \in Datasets, NEW kind \in Kinds, Examine(r, kind, d)
      PROVE  Exclusive'
  BY <1>4 DEF Examine
<1>5. ASSUME NEW r \in Dispatchers, Insert(r) PROVE Exclusive'
  BY <1>5 DEF Insert, MayInsert, ActiveJob
<1>6. ASSUME NEW r \in Dispatchers, Enqueue(r) PROVE Exclusive'
  BY <1>6 DEF Enqueue, Committed
<1>7. ASSUME NEW r \in Dispatchers, LoseJob(r) PROVE Exclusive'
  BY <1>7 DEF LoseJob, Committed
<1>8. ASSUME NEW j \in Jobs, Run(j) PROVE Exclusive'
  BY <1>8 DEF Run, Goto
<1>9. ASSUME NEW j \in Jobs, Train(j) PROVE Exclusive'
  BY <1>9 DEF Train, Goto
<1>10. ASSUME NEW j \in Jobs, TrainingFails(j) PROVE Exclusive'
  BY <1>10 DEF TrainingFails, Settle, Goto
<1>11. ASSUME NEW j \in Jobs, Decide(j) PROVE Exclusive'
  BY <1>11 DEF Decide, Goto
<1>12. ASSUME NEW j \in Jobs, SaveArtifacts(j) PROVE Exclusive'
  BY <1>12 DEF SaveArtifacts, Goto
<1>13. ASSUME NEW j \in Jobs, SavingFails(j) PROVE Exclusive'
  BY <1>13 DEF SavingFails, Settle, Goto
<1>14. ASSUME NEW j \in Jobs, Complete(j) PROVE Exclusive'
  BY <1>14 DEF Complete, WithActive, Goto
<1>15. ASSUME NEW j \in Jobs, SaveRecord(j) PROVE Exclusive'
  BY <1>15 DEF SaveRecord, Written, Goto
<1>16. ASSUME NEW j \in Jobs, Activate(j) PROVE Exclusive'
  BY <1>16 DEF Activate, Goto
<1>17. ASSUME NEW j \in Jobs, RecordingFails(j) PROVE Exclusive'
  BY <1>17 DEF RecordingFails, Orderly
<1>18. ASSUME NEW v \in Jobs, RollbackFiles(v) PROVE Exclusive'
  BY <1>18 DEF RollbackFiles
<1>19. ASSUME NEW w \in Writers, Reconcile(w) PROVE Exclusive'
  <2>1. UNCHANGED <<generation, status, about, deleting>>
    BY <1>19, WriterSteps
  <2>2. (\A j \in Jobs : Running(j)' => Running(j)) /\ (rollback'.pc # "idle" => rollback.pc # "idle")
    BY <1>19, WriterActive
  <2> QED
    BY <2>1, <2>2 DEF Exclusive, OfDataset
<1>20. ASSUME RollbackRows PROVE Exclusive'
  BY <1>20 DEF RollbackRows, RolledBack, WithActive
<1>21. ASSUME RollbackEnds PROVE Exclusive'
  BY <1>21 DEF RollbackEnds, Orderly
<1>22. ASSUME NEW j \in Jobs, Stop(j) PROVE Exclusive'
  BY <1>22 DEF Stop, Orderly
<1>23. ASSUME NEW d \in Datasets, StopDeletion(d) PROVE Exclusive'
  BY <1>23 DEF StopDeletion, Orderly
<1>24. ASSUME UNCHANGED vars PROVE Exclusive'
  BY <1>24 DEF vars
<1>25. QED
  BY <1>1, <1>2, <1>3, <1>4, <1>5, <1>6, <1>7, <1>8, <1>9, <1>10, <1>11, <1>12, <1>13, <1>14,
     <1>15, <1>16, <1>17, <1>18, <1>19, <1>20, <1>21, <1>22, <1>23, <1>24 DEF Next, Step, Kinds

(* In order, a writer rewrites a record only. *)
LEMMA OnlyRecords ==
  ASSUME Typed, Produced, NEW w \in Writers, Reconcile(w)
  PROVE  files' = files
<1>1. CASE Save(w)
  <2>1. sweep[w].copy \in Recorded
    BY <1>1 DEF Save, Produced
  <2>2. files' = [files EXCEPT ![sweep[w].copy] = @ \cup {"record"}]
    BY <1>1 DEF Save, Written
  <2> QED
    BY <2>1, <2>2 DEF Recorded, Typed, Stored
<1> QED
  BY <1>1 DEF Reconcile, List, Load, Finish, registry

(* And a job that does so goes on, or ends. *)
LEMMA WriterPlaces ==
  ASSUME Typed, NEW w \in Writers, Reconcile(w), NEW j \in Jobs
  PROVE  \/ pc'[j] = pc[j]
         \/ pc[j] = "listing" /\ pc'[j] = "reconciling" /\ w = j
         \/ pc[j] = "reconciling" /\ pc'[j] = "end" /\ w = j
<1>1. j # w => pc'[j] = pc[j]
  BY WriterSteps
<1>2. ASSUME j = w, List(w) PROVE pc[j] = "listing" /\ pc'[j] = "reconciling"
  BY <1>2, WritersAre DEF List, At, MoveTo, Goto, Typed
<1>3. ASSUME j = w, Finish(w) PROVE pc[j] = "reconciling" /\ pc'[j] = "end"
  BY <1>3, WritersAre DEF Finish, At, MoveTo, Goto, Typed
<1>4. Load(w) \/ Save(w) => pc' = pc
  BY DEF Load, Save, jobs
<1> QED
  BY <1>1, <1>2, <1>3, <1>4 DEF Reconcile

(* In order, the files and the rows of a version stay together. *)
LEMMA FilesKept ==
  ASSUME Typed, JobInv, SweepInv, Orderly, Exclusive, Named, Produced, \A i \in Jobs : Kept(i),
         [Next]_vars
  PROVE  (\A i \in Jobs : Kept(i))'
<1> USE DEF jobs, registry, context, Typed, Stored, Places, Statuses, JobInv, Orderly, Exclusive,
        Kept, Done, Late, MayStart, Quiet, Running, Recorded, None
<1>1. ASSUME NEW d \in Datasets, Upload(d) PROVE (\A i \in Jobs : Kept(i))'
  BY <1>1 DEF Upload
<1>2. ASSUME NEW d \in Datasets, DeleteRows(d) PROVE (\A i \in Jobs : Kept(i))'
  BY <1>2 DEF DeleteRows, OfDataset
<1>3. ASSUME NEW d \in Datasets, DeleteFiles(d) PROVE (\A i \in Jobs : Kept(i))'
  <2>1. \A j \in Jobs : ~Running(j)
    BY <1>3 DEF DeleteFiles, Exclusive
  <2>2. ASSUME NEW j \in Jobs, status[j] = "completed" PROVE j \notin Derived(d)
    BY <1>3, <2>2 DEF DeleteFiles, Derived, Exclusive
  <2>3. ASSUME NEW j \in Jobs, status[j] = "deleted", about[j].dataset = d, files[j] # {}
        PROVE  j \in Derived(d)
    BY <2>1, <2>3 DEF Derived, OfDataset, Kept
  <2>4. UNCHANGED <<status, about, pc, row>> /\ deleting' = deleting \ {d}
    BY <1>3 DEF DeleteFiles, jobs
  <2>5. \A j \in Jobs : files'[j] = IF j \in Derived(d) THEN {} ELSE files[j]
    BY <1>3 DEF DeleteFiles
  <2>6. \A j \in Jobs : row[j] # "none" => status[j] = "completed"
    BY DEF JobInv
  <2> QED
    BY <2>1, <2>2, <2>3, <2>4, <2>5, <2>6 DEF Kept, Running, Recorded
<1>4. ASSUME NEW r \in Dispatchers, NEW d \in Datasets, NEW kind \in Kinds, Examine(r, kind, d)
      PROVE  (\A i \in Jobs : Kept(i))'
  BY <1>4 DEF Examine
<1>5. ASSUME NEW r \in Dispatchers, Insert(r) PROVE (\A i \in Jobs : Kept(i))'
  BY <1>5 DEF Insert, MayInsert, ActiveJob
<1>6. ASSUME NEW r \in Dispatchers, Enqueue(r) PROVE (\A i \in Jobs : Kept(i))'
  BY <1>6 DEF Enqueue, Committed
<1>7. ASSUME NEW r \in Dispatchers, LoseJob(r) PROVE (\A i \in Jobs : Kept(i))'
  BY <1>7 DEF LoseJob, Committed
<1>8. ASSUME NEW j \in Jobs, Run(j) PROVE (\A i \in Jobs : Kept(i))'
  BY <1>8 DEF Run, Goto
<1>9. ASSUME NEW j \in Jobs, Train(j) PROVE (\A i \in Jobs : Kept(i))'
  BY <1>9 DEF Train, Goto
<1>10. ASSUME NEW j \in Jobs, TrainingFails(j) PROVE (\A i \in Jobs : Kept(i))'
  BY <1>10 DEF TrainingFails, Settle, Goto
<1>11. ASSUME NEW j \in Jobs, Decide(j) PROVE (\A i \in Jobs : Kept(i))'
  BY <1>11 DEF Decide, Goto
<1>12. ASSUME NEW j \in Jobs, SaveArtifacts(j) PROVE (\A i \in Jobs : Kept(i))'
  BY <1>12 DEF SaveArtifacts, Goto
<1>13. ASSUME NEW j \in Jobs, SavingFails(j) PROVE (\A i \in Jobs : Kept(i))'
  BY <1>13 DEF SavingFails, Settle, Goto
<1>14. ASSUME NEW j \in Jobs, Complete(j) PROVE (\A i \in Jobs : Kept(i))'
  <2>1. status[j] = "running" /\ \A v \in previous[j] : row[v] # "none"
    BY <1>14 DEF Complete, Named, Taking, Kept, Running, ActiveRows
  <2>2. /\ status' = [status EXCEPT ![j] = "completed"]
        /\ pc' = [pc EXCEPT ![j] = "recording"]
        /\ UNCHANGED <<about, files, deleting>>
        /\ row' = IF activated[j] THEN WithActive(row, j, previous[j])
                                  ELSE [row EXCEPT ![j] = "inactive"]
    BY <1>14, <2>1 DEF Complete, Goto, registry, context
  <2>3. \A v \in Jobs : v # j => (row'[v] # "none" <=> row[v] # "none")
    BY <2>1, <2>2 DEF WithActive, Typed, Stored
  <2> QED
    BY <2>2, <2>3, <1>14 DEF Complete, Typed, Stored, JobInv, Kept, Running, Recorded
<1>15. ASSUME NEW j \in Jobs, SaveRecord(j) PROVE (\A i \in Jobs : Kept(i))'
  BY <1>15 DEF SaveRecord, Written, Goto
<1>16. ASSUME NEW j \in Jobs, Activate(j) PROVE (\A i \in Jobs : Kept(i))'
  BY <1>16 DEF Activate, Goto
<1>17. ASSUME NEW j \in Jobs, RecordingFails(j) PROVE (\A i \in Jobs : Kept(i))'
  BY <1>17 DEF RecordingFails, Orderly
<1>18. ASSUME NEW v \in Jobs, RollbackFiles(v) PROVE (\A i \in Jobs : Kept(i))'
  BY <1>18 DEF RollbackFiles
<1>19. ASSUME NEW w \in Writers, Reconcile(w) PROVE (\A i \in Jobs : Kept(i))'
  <2>1. UNCHANGED <<status, about, row, deleting, files>>
    BY <1>19, WriterSteps, OnlyRecords
  <2> SUFFICES ASSUME NEW j \in Jobs PROVE Kept(j)'
    OBVIOUS
  <2>2. CASE pc'[j] = pc[j]
    BY <2>1, <2>2
  <2>3. CASE pc[j] = "listing" /\ pc'[j] = "reconciling"
    BY <2>1, <2>3
  <2>4. CASE pc[j] = "reconciling" /\ pc'[j] = "end"
    BY <2>1, <2>4
  <2> QED
    BY <1>19, <2>2, <2>3, <2>4, WriterPlaces
<1>20. ASSUME RollbackRows PROVE (\A i \in Jobs : Kept(i))'
  <2>1. \A v \in Jobs : row'[v] # "none" <=> row[v] # "none"
    BY <1>20 DEF RollbackRows, RolledBack, WithActive, ActiveRows
  <2> QED
    BY <1>20, <2>1 DEF RollbackRows
<1>21. ASSUME RollbackEnds PROVE (\A i \in Jobs : Kept(i))'
  BY <1>21 DEF RollbackEnds, Orderly
<1>22. ASSUME NEW j \in Jobs, Stop(j) PROVE (\A i \in Jobs : Kept(i))'
  BY <1>22 DEF Stop, Orderly
<1>23. ASSUME NEW d \in Datasets, StopDeletion(d) PROVE (\A i \in Jobs : Kept(i))'
  BY <1>23 DEF StopDeletion, Orderly
<1>24. ASSUME UNCHANGED vars PROVE (\A i \in Jobs : Kept(i))'
  BY <1>24 DEF vars
<1>25. QED
  BY <1>1, <1>2, <1>3, <1>4, <1>5, <1>6, <1>7, <1>8, <1>9, <1>10, <1>11, <1>12, <1>13, <1>14,
     <1>15, <1>16, <1>17, <1>18, <1>19, <1>20, <1>21, <1>22, <1>23, <1>24 DEF Next, Step, Kinds

(* In order, the active row is that of the version the ACTIVE file names. *)
LEMMA NamedKept ==
  ASSUME Typed, JobInv, SweepInv, Orderly, Exclusive, Named, Produced, \A i \in Jobs : Kept(i),
         [Next]_vars
  PROVE  Named'
<1>1. ASSUME NEW d \in Datasets, Upload(d) PROVE Named'
  BY <1>1 DEF Upload, jobs, registry, context, Typed, Stored, Places, Statuses, Versions, JobInv,
     Orderly, Exclusive, Kept, Named, Taking, Done, Shown, Doomed, OfDataset, ActiveRows, MayStart,
     Quiet, Running, Recorded, None
<1>2. ASSUME NEW d \in Datasets, DeleteRows(d) PROVE Named'
  <2>1. rollback.pc = "idle" /\ deleting = {} /\ \A j \in Jobs : ~Running(j)
    BY <1>2 DEF DeleteRows, MayStart, Quiet, Orderly
  <2>2. ActiveRows = IF pointer = None THEN {} ELSE {pointer}
    BY <2>1 DEF Named, Taking, Done, Running, Shown, Doomed
  <2>3. /\ UNCHANGED <<about, pc, seen, activated, previous, files, pointer, rollback>>
        /\ deleting' = {d}
        /\ \A j \in Jobs : /\ row'[j] = IF j \in OfDataset(d) THEN "none" ELSE row[j]
                           /\ status'[j] = IF j \in OfDataset(d) THEN "deleted" ELSE status[j]
    <3>1. deleting' = deleting \cup {d}
      BY <1>2 DEF DeleteRows
    <3>2. deleting' = {d}
      BY <2>1, <3>1
    <3> QED
      BY <1>2, <3>2 DEF DeleteRows, registry
  <2>4. OfDataset(d)' = OfDataset(d)
    <3>1. \A j \in Jobs : status'[j] # "none" <=> status[j] # "none"
      BY <2>3 DEF OfDataset
    <3> QED
      BY <2>3, <3>1 DEF OfDataset
  <2>5. ActiveRows' = ActiveRows \ OfDataset(d)
    <3>1. \A j \in Jobs : row'[j] = "active" <=> row[j] = "active" /\ j \notin OfDataset(d)
      BY <2>3
    <3> QED
      BY <3>1 DEF ActiveRows
  <2>6. ActiveRows' = Shown'
    BY <2>2, <2>3, <2>4, <2>5 DEF Shown, Doomed
  <2>7. pointer # None => pointer \in Recorded
    <3>1. ASSUME pointer # None PROVE pointer \in Jobs /\ row[pointer] # "none"
      BY <2>2, <3>1 DEF ActiveRows
    <3> QED
      BY <2>1, <3>1 DEF Kept, Running
  <2> QED
    BY <2>1, <2>2, <2>3, <2>5, <2>6, <2>7 DEF Named, Taking, Done, Running, Recorded
<1>3. ASSUME NEW d \in Datasets, DeleteFiles(d) PROVE Named'
  BY <1>3 DEF DeleteFiles, Derived, OfDataset, jobs, registry, context, Typed, Stored, Places,
     Statuses, Versions, JobInv, Orderly, Exclusive, Kept, Named, Taking, Done, Shown, Doomed,
     OfDataset, ActiveRows, MayStart, Quiet, Running, Recorded, None
<1>4. ASSUME NEW r \in Dispatchers, NEW d \in Datasets, NEW kind \in Kinds, Examine(r, kind, d)
      PROVE  Named'
  BY <1>4 DEF Examine, jobs, registry, context, Typed, Stored, Places, Statuses, Versions, JobInv,
     Orderly, Exclusive, Kept, Named, Taking, Done, Shown, Doomed, OfDataset, ActiveRows, MayStart,
     Quiet, Running, Recorded, None
<1>5. ASSUME NEW r \in Dispatchers, Insert(r) PROVE Named'
  BY <1>5 DEF Insert, MayInsert, ActiveJob, jobs, registry, context, Typed, Stored, Places, Statuses,
     Versions, JobInv, Orderly, Exclusive, Kept, Named, Taking, Done, Shown, Doomed, OfDataset,
     ActiveRows, MayStart, Quiet, Running, Recorded, None
<1>6. ASSUME NEW r \in Dispatchers, Enqueue(r) PROVE Named'
  BY <1>6 DEF Enqueue, Committed, jobs, registry, context, Typed, Stored, Places, Statuses, Versions,
     JobInv, Orderly, Exclusive, Kept, Named, Taking, Done, Shown, Doomed, OfDataset, ActiveRows,
     MayStart, Quiet, Running, Recorded, None
<1>7. ASSUME NEW r \in Dispatchers, LoseJob(r) PROVE Named'
  BY <1>7 DEF LoseJob, Committed, jobs, registry, context, Typed, Stored, Places, Statuses, Versions,
     JobInv, Orderly, Exclusive, Kept, Named, Taking, Done, Shown, Doomed, OfDataset, ActiveRows,
     MayStart, Quiet, Running, Recorded, None
<1>8. ASSUME NEW j \in Jobs, Run(j) PROVE Named'
  BY <1>8 DEF Run, Goto, jobs, registry, context, Typed, Stored, Places, Statuses, Versions, JobInv,
     Orderly, Exclusive, Kept, Named, Taking, Done, Shown, Doomed, OfDataset, ActiveRows, MayStart,
     Quiet, Running, Recorded, None
<1>9. ASSUME NEW j \in Jobs, Train(j) PROVE Named'
  BY <1>9 DEF Train, Goto, jobs, registry, context, Typed, Stored, Places, Statuses, Versions, JobInv,
     Orderly, Exclusive, Kept, Named, Taking, Done, Shown, Doomed, OfDataset, ActiveRows, MayStart,
     Quiet, Running, Recorded, None
<1>10. ASSUME NEW j \in Jobs, TrainingFails(j) PROVE Named'
  BY <1>10 DEF TrainingFails, Settle, Goto, jobs, registry, context, Typed, Stored, Places, Statuses,
     Versions, JobInv, Orderly, Exclusive, Kept, Named, Taking, Done, Shown, Doomed, OfDataset,
     ActiveRows, MayStart, Quiet, Running, Recorded, None
<1>11. ASSUME NEW j \in Jobs, Decide(j) PROVE Named'
  BY <1>11 DEF Decide, Goto, jobs, registry, context, Typed, Stored, Places, Statuses, Versions,
     JobInv, Orderly, Exclusive, Kept, Named, Taking, Done, Shown, Doomed, OfDataset, ActiveRows,
     MayStart, Quiet, Running, Recorded, None
<1>12. ASSUME NEW j \in Jobs, SaveArtifacts(j) PROVE Named'
  BY <1>12 DEF SaveArtifacts, Goto, jobs, registry, context, Typed, Stored, Places, Statuses,
     Versions, JobInv, Orderly, Exclusive, Kept, Named, Taking, Done, Shown, Doomed, OfDataset,
     ActiveRows, MayStart, Quiet, Running, Recorded, None
<1>13. ASSUME NEW j \in Jobs, SavingFails(j) PROVE Named'
  BY <1>13 DEF SavingFails, Settle, Goto, jobs, registry, context, Typed, Stored, Places, Statuses,
     Versions, JobInv, Orderly, Exclusive, Kept, Named, Taking, Done, Shown, Doomed, OfDataset,
     ActiveRows, MayStart, Quiet, Running, Recorded, None
<1>14. ASSUME NEW j \in Jobs, Complete(j) PROVE Named'
  BY <1>14 DEF Complete, WithActive, Goto, jobs, registry, context, Typed, Stored, Places, Statuses,
     Versions, JobInv, Orderly, Exclusive, Kept, Named, Taking, Done, Shown, Doomed, OfDataset,
     ActiveRows, MayStart, Quiet, Running, Recorded, None
<1>15. ASSUME NEW j \in Jobs, SaveRecord(j) PROVE Named'
  BY <1>15 DEF SaveRecord, Written, Goto, jobs, registry, context, Typed, Stored, Places, Statuses,
     Versions, JobInv, Exclusive, Kept, Named, Taking, Done, Shown, Doomed, OfDataset,
     ActiveRows, Running, Recorded, None
<1>16. ASSUME NEW j \in Jobs, Activate(j) PROVE Named'
  BY <1>16 DEF Activate, Goto, jobs, registry, context, Typed, Stored, Places, Statuses,
     Versions, JobInv, Exclusive, Kept, Named, Taking, Done, Shown, Doomed, OfDataset,
     ActiveRows, Running, Recorded, None
<1>17. ASSUME NEW j \in Jobs, RecordingFails(j) PROVE Named'
  BY <1>17 DEF RecordingFails, Orderly
<1>18. ASSUME NEW v \in Jobs, RollbackFiles(v) PROVE Named'
  <2>1. deleting = {} /\ \A j \in Jobs : ~Running(j)
    BY <1>18 DEF RollbackFiles, MayStart, Quiet, Orderly
  <2>2. v \in Recorded /\ v # None
    BY <1>18, <2>1 DEF RollbackFiles, Kept, Jobs, None
  <2>3. /\ pointer' = v /\ rollback'.target = v /\ rollback'.pc = "listing"
        /\ UNCHANGED <<status, about, pc, seen, activated, previous, row, files, deleting>>
    BY <1>18, <2>2 DEF RollbackFiles, jobs, context
  <2> QED
    BY <2>1, <2>2, <2>3 DEF Named, Taking, Done, Running, ActiveRows, Recorded
<1>19. ASSUME NEW w \in Writers, Reconcile(w) PROVE Named'
  <2>1. /\ UNCHANGED <<status, about, seen, activated, previous, row, pointer, deleting, files>>
        /\ rollback'.target = rollback.target
    BY <1>19, WriterSteps, OnlyRecords
  <2>2. /\ ActiveRows' = ActiveRows /\ Shown' = Shown /\ Recorded' = Recorded
    BY <2>1 DEF ActiveRows, Shown, Doomed, OfDataset, Recorded
  <2>3. rollback'.pc = "idle" <=> rollback.pc = "idle"
    <3>1. CASE w = None
      <4>1. rollback.pc # "idle"
        BY <1>19, <3>1, WritersAre DEF Reconcile, List, Load, Save, Finish, At, SweepInv, Clean
      <4>2. rollback.target \in Recorded
        BY <4>1 DEF Named
      <4> QED
        BY <1>19, <3>1, <4>1, <4>2 DEF Reconcile, List, Load, Save, Finish, MoveTo, Typed, Stored
    <3>2. CASE w # None
      BY <1>19, <3>2, WriterSteps
    <3> QED
      BY <3>1, <3>2
  <2>4. \A j \in Jobs : /\ Taking(j)' => Taking(j)
                        /\ Done(j)' => Done(j)
                        /\ pc'[j] \in {"completing", "training", "trained"} => pc'[j] = pc[j]
    BY <1>19, <2>1, WriterPlaces DEF Taking, Done
  <2>5. ASSUME NEW i \in Jobs, Taking(i), ~Taking(i)'
        PROVE  ActiveRows = Shown
    <3>1. Done(i) /\ row[i] = "active" /\ pointer = i
      BY <1>19, <2>1, <2>5, WriterPlaces DEF Taking, Done, Named
    <3>2. deleting = {}
      BY <3>1 DEF Exclusive, Running, Done
    <3>3. Shown = {i}
      BY <3>1, <3>2 DEF Shown, Doomed, Jobs, None
    <3>4. ActiveRows = {i}
      BY <3>1 DEF ActiveRows, Named
    <3> QED
      BY <3>3, <3>4
  <2>6. rollback.pc = "idle" /\ (\A j \in Jobs : ~Taking(j)') => ActiveRows = Shown
    BY <2>5 DEF Named
  <2> QED
    BY <2>1, <2>2, <2>3, <2>4, <2>6 DEF Named
<1>20. ASSUME RollbackRows PROVE Named'
  <2>1. /\ rollback.pc = "rows" /\ rollback'.pc = "idle"
        /\ UNCHANGED <<status, about, pc, seen, activated, previous, files, pointer, deleting>>
        /\ row' = RolledBack(rollback.target)
    BY <1>20 DEF RollbackRows, jobs, registry, context, Typed, Stored
  <2>2. /\ pointer = rollback.target /\ pointer \in Recorded /\ deleting = {}
        /\ \A j \in Jobs : ~Running(j)
    BY <2>1 DEF Named, Exclusive
  <2>3. row[pointer] # "none"
    BY <2>1, <2>2 DEF Kept, Recorded, JobInv
  <2>4. \A v \in Jobs : row'[v] = "active" <=> v = pointer
    BY <2>1, <2>2, <2>3 DEF RolledBack, WithActive, ActiveRows, Recorded
  <2>5. pointer \in Jobs /\ pointer # None
    BY <2>2 DEF Recorded, Jobs, None
  <2>6. ActiveRows' = {pointer} /\ Shown' = {pointer}
    BY <2>1, <2>2, <2>4, <2>5 DEF ActiveRows, Shown, Doomed
  <2>7. \A j \in Jobs : ~Running(j)'
    BY <2>1, <2>2 DEF Running
  <2>8. \A j \in Jobs : pc[j] \in {"training", "trained", "completing"} => Running(j)
    BY DEF Running
  <2> QED
    BY <2>1, <2>2, <2>6, <2>7, <2>8 DEF Named, Taking, Done, Running
<1>21. ASSUME RollbackEnds PROVE Named'
  BY <1>21 DEF RollbackEnds, Orderly
<1>22. ASSUME NEW j \in Jobs, Stop(j) PROVE Named'
  BY <1>22 DEF Stop, Orderly
<1>23. ASSUME NEW d \in Datasets, StopDeletion(d) PROVE Named'
  BY <1>23 DEF StopDeletion, Orderly
<1>24. ASSUME UNCHANGED vars PROVE Named'
  BY <1>24 DEF vars, jobs, registry, context, Named, Taking, Done, Shown, Doomed, OfDataset,
     ActiveRows, Recorded
<1>25. QED
  BY <1>1, <1>2, <1>3, <1>4, <1>5, <1>6, <1>7, <1>8, <1>9, <1>10, <1>11, <1>12, <1>13, <1>14,
     <1>15, <1>16, <1>17, <1>18, <1>19, <1>20, <1>21, <1>22, <1>23, <1>24 DEF Next, Step, Kinds

(* One writer reconciles at a time. *)
LEMMA OneWriter ==
  ASSUME SweepInv, Exclusive, NEW w \in Writers, NEW u \in Writers, u # w,
         w = None => rollback.pc # "idle",
         w # None => Running(w)
  PROVE  ~At(u, "reconciling") /\ sweep[u].copy = None
<1>1. ~At(u, "reconciling")
  <2>1. CASE u = None
    BY <2>1, WritersAre DEF At, Exclusive
  <2>2. CASE u # None
    BY <2>2, WritersAre DEF At, Exclusive, Running
  <2> QED
    BY <2>1, <2>2
<1> QED
  BY <1>1 DEF SweepInv, Clean

(* Nothing is written and no decision has been carried out. *)
LEMMA ProducedUnmoved ==
  ASSUME Typed, Produced, UNCHANGED registry, UNCHANGED rollback,
         \A j \in Jobs : pc'[j] = "reconciling" <=> pc[j] = "reconciling",
         \A j \in Jobs : Taking(j) => Taking(j)'
  PROVE  Produced'
<1>1. \A w \in Writers : At(w, "reconciling")' <=> At(w, "reconciling")
  BY WritersAre DEF At
<1>2. \A w \in Writers, v \in Jobs : Reconciled(w, v)' = Reconciled(w, v)
  BY DEF Reconciled
<1>3. Recorded' = Recorded /\ Production' = Production /\ Served' = Served
  BY DEF registry, Recorded, Production, Served
<1>4. \A v \in Recorded : v \in Jobs
  BY DEF Recorded
<1> QED
  BY <1>1, <1>2, <1>3, <1>4 DEF Produced, registry

(* In order, one record says production when nothing is under way. *)
LEMMA ProducedKept ==
  ASSUME Typed, JobInv, SweepInv, Orderly, Exclusive, Named, Produced, \A i \in Jobs : Kept(i),
         [Next]_vars
  PROVE  Produced'
<1>1. ASSUME NEW d \in Datasets, Upload(d) PROVE Produced'
  BY <1>1, ProducedUnmoved DEF Upload, jobs, Taking, Done
<1>2. ASSUME NEW d \in Datasets, DeleteRows(d) PROVE Produced'
  BY <1>2, ProducedUnmoved DEF DeleteRows, Taking, Done
<1>3. ASSUME NEW d \in Datasets, DeleteFiles(d) PROVE Produced'
  <2>1. rollback.pc = "idle" /\ \A j \in Jobs : ~Running(j)
    BY <1>3 DEF DeleteFiles, Exclusive
  <2>2. \A w \in Writers : ~At(w, "reconciling") /\ sweep[w].copy = None
    <3>1. \A w \in Writers : ~At(w, "reconciling")
      BY <2>1, WritersAre DEF At, Running
    <3> QED
      BY <3>1 DEF SweepInv, Clean
  <2>3. /\ UNCHANGED <<pc, activated, sweep, rollback>>
        /\ \A j \in Jobs : state'[j] = IF j \in Derived(d) THEN "none" ELSE state[j]
        /\ pointer' = IF pointer \in Derived(d) THEN None ELSE pointer
    BY <1>3 DEF DeleteFiles, jobs
  <2>4. Production = Served
    BY <2>1 DEF Produced, Taking, Done, Running
  <2>5. Production' = Production \ Derived(d)
    BY <2>3 DEF Production
  <2>6. Served' = Served \ Derived(d)
    <3>1. None \notin Derived(d)
      BY DEF Derived, OfDataset, Jobs, None
    <3> QED
      BY <2>3, <3>1 DEF Served
  <2>7. \A w \in Writers : ~At(w, "reconciling")' /\ sweep'[w].copy = None
    BY <2>2, <2>3 DEF At
  <2> QED
    BY <2>1, <2>3, <2>4, <2>5, <2>6, <2>7 DEF Produced
<1>4. ASSUME NEW r \in Dispatchers, NEW d \in Datasets, NEW kind \in Kinds, Examine(r, kind, d)
      PROVE  Produced'
  BY <1>4, ProducedUnmoved DEF Examine, jobs, Taking, Done
<1>5. ASSUME NEW r \in Dispatchers, Insert(r) PROVE Produced'
  BY <1>5, ProducedUnmoved DEF Insert, jobs, Taking, Done
<1>6. ASSUME NEW r \in Dispatchers, Enqueue(r) PROVE Produced'
  BY <1>6, ProducedUnmoved DEF Enqueue, Committed, Taking, Done, Typed
<1>7. ASSUME NEW r \in Dispatchers, LoseJob(r) PROVE Produced'
  BY <1>7, ProducedUnmoved DEF LoseJob, Committed, Taking, Done, Typed
<1>8. ASSUME NEW j \in Jobs, Run(j) PROVE Produced'
  BY <1>8, ProducedUnmoved DEF Run, Goto, Taking, Done, Typed
<1>9. ASSUME NEW j \in Jobs, Train(j) PROVE Produced'
  <2>1. Recorded' = Recorded
    <3>1. j \notin Recorded
      BY <1>9 DEF Train, JobInv, Late
    <3> QED
      BY <1>9, <3>1 DEF Train, Recorded, Typed, Stored
  <2>2. UNCHANGED <<state, pointer, sweep, rollback, activated>>
    BY <1>9 DEF Train
  <2>3. \A i \in Jobs : /\ pc'[i] = "reconciling" <=> pc[i] = "reconciling"
                        /\ Taking(i)' <=> Taking(i)
    BY <1>9 DEF Train, Goto, Typed, Taking, Done
  <2>4. \A w \in Writers : At(w, "reconciling")' <=> At(w, "reconciling")
    BY <2>2, <2>3, WritersAre DEF At
  <2>5. \A w \in Writers, v \in Jobs : Reconciled(w, v)' = Reconciled(w, v)
    BY <2>2 DEF Reconciled
  <2>6. Production' = Production /\ Served' = Served
    BY <2>2 DEF Production, Served
  <2>7. \A v \in Recorded : v \in Jobs
    BY DEF Recorded
  <2> QED
    BY <2>1, <2>2, <2>3, <2>4, <2>5, <2>6, <2>7 DEF Produced
<1>10. ASSUME NEW j \in Jobs, TrainingFails(j) PROVE Produced'
  BY <1>10, ProducedUnmoved DEF TrainingFails, Goto, Taking, Done, Typed
<1>11. ASSUME NEW j \in Jobs, Decide(j) PROVE Produced'
  <2>1. rollback.pc = "idle" /\ \A i \in Jobs : i # j => ~Running(i)
    BY <1>11 DEF Decide, Exclusive, Running
  <2>2. \A i \in Jobs : ~Taking(i)
    BY <1>11, <2>1 DEF Decide, Taking, Done, Running
  <2>3. \A w \in Writers : ~At(w, "reconciling") /\ sweep[w].copy = None
    <3>1. \A w \in Writers : ~At(w, "reconciling")
      BY <1>11, <2>1, WritersAre DEF At, Running, Decide
    <3> QED
      BY <3>1 DEF SweepInv, Clean
  <2>4. /\ UNCHANGED <<files, state, sweep, rollback>> /\ pc'[j] = "saving"
        /\ \A i \in Jobs : i # j => pc'[i] = pc[i]
        /\ ~activated'[j] => pointer' = pointer
        /\ activated'[j] \in BOOLEAN
    BY <1>11 DEF Decide, Goto, Typed
  <2>5. \A w \in Writers : ~At(w, "reconciling")' /\ sweep'[w].copy = None
    BY <2>3, <2>4, WritersAre DEF At
  <2>6. Production' = Production /\ (~Taking(j)' => Served' = Served)
    BY <2>4 DEF Production, Served, Taking
  <2> QED
    BY <2>1, <2>2, <2>4, <2>5, <2>6 DEF Produced
<1>12. ASSUME NEW j \in Jobs, SaveArtifacts(j) PROVE Produced'
  BY <1>12, ProducedUnmoved DEF SaveArtifacts, Goto, Taking, Done, Typed
<1>13. ASSUME NEW j \in Jobs, SavingFails(j) PROVE Produced'
  BY <1>13 DEF SavingFails, Orderly
<1>14. ASSUME NEW j \in Jobs, Complete(j) PROVE Produced'
  <2>1. status[j] = "running" /\ \A v \in previous[j] : row[v] # "none"
    BY <1>14 DEF Complete, Named, Kept, Taking, Done, Running, ActiveRows
  <2>2. pc' = [pc EXCEPT ![j] = "recording"] /\ UNCHANGED <<activated, registry, rollback>>
    BY <1>14, <2>1 DEF Complete, Goto
  <2>3. \A i \in Jobs : /\ pc'[i] = "reconciling" <=> pc[i] = "reconciling"
                        /\ Taking(i) => Taking(i)'
    BY <1>14, <2>2 DEF Complete, Taking, Done, Typed
  <2> QED
    BY <2>2, <2>3, ProducedUnmoved
<1>15. ASSUME NEW j \in Jobs, SaveRecord(j) PROVE Produced'
  <2>1. rollback.pc = "idle" /\ \A i \in Jobs : i # j => ~Running(i)
    BY <1>15 DEF SaveRecord, Exclusive, Running
  <2>2. \A w \in Writers : ~At(w, "reconciling") /\ sweep[w].copy = None
    <3>1. \A w \in Writers : ~At(w, "reconciling")
      BY <1>15, <2>1, WritersAre DEF SaveRecord, At, Running
    <3> QED
      BY <3>1 DEF SweepInv, Clean
  <2>3. /\ UNCHANGED <<activated, pointer, sweep, rollback>> /\ pc'[j] = "activating"
        /\ \A i \in Jobs : i # j => pc'[i] = pc[i] /\ state'[i] = state[i]
        /\ ~activated[j] => state'[j] = "validated"
    BY <1>15 DEF SaveRecord, Written, Goto, Typed, Stored
  <2>4. \A w \in Writers : ~At(w, "reconciling")' /\ sweep'[w].copy = None
    BY <2>2, <2>3, WritersAre DEF At
  <2>5. CASE activated[j]
    BY <2>1, <2>3, <2>4, <2>5 DEF Produced, Taking, Done
  <2>6. CASE ~activated[j]
    <3>1. state[j] = "none"
      BY <1>15 DEF SaveRecord, JobInv, Late
    <3>2. Production' = Production /\ Served' = Served
      BY <2>3, <2>6, <3>1 DEF Production, Served
    <3>3. \A i \in Jobs : ~Taking(i)
      BY <2>1, <2>6 DEF Taking, Done, Running
    <3> QED
      BY <2>1, <2>3, <2>4, <3>2, <3>3 DEF Produced
  <2> QED
    BY <2>5, <2>6
<1>16. ASSUME NEW j \in Jobs, Activate(j) PROVE Produced'
  <2>1. j \in Recorded
    BY <1>16 DEF Activate, Kept, Running, Done, JobInv
  <2>2. CASE activated[j]
    <3>1. pointer = j /\ files[j] # {}
      BY <1>16, <2>1, <2>2 DEF Activate, Named, Taking, Done, Recorded
    <3>2. UNCHANGED registry /\ UNCHANGED rollback /\ pc' = [pc EXCEPT ![j] = "listing"]
      BY <1>16, <2>2, <3>1 DEF Activate, Goto, registry
    <3>3. \A i \in Jobs : /\ pc'[i] = "reconciling" <=> pc[i] = "reconciling"
                          /\ Taking(i) => Taking(i)'
      BY <1>16, <3>2 DEF Activate, Taking, Done, Typed
    <3> QED
      BY <3>2, <3>3, ProducedUnmoved
  <2>3. CASE ~activated[j]
    <3>1. UNCHANGED registry /\ UNCHANGED rollback /\ pc' = [pc EXCEPT ![j] = "end"]
      BY <1>16, <2>3 DEF Activate, Goto, registry
    <3>2. \A i \in Jobs : /\ pc'[i] = "reconciling" <=> pc[i] = "reconciling"
                          /\ Taking(i) => Taking(i)'
      BY <1>16, <2>3, <3>1 DEF Activate, Taking, Done, Typed
    <3> QED
      BY <3>1, <3>2, ProducedUnmoved
  <2> QED
    BY <2>2, <2>3
<1>17. ASSUME NEW j \in Jobs, RecordingFails(j) PROVE Produced'
  BY <1>17 DEF RecordingFails, Orderly
<1>18. ASSUME NEW v \in Jobs, RollbackFiles(v) PROVE Produced'
  <2>1. \A j \in Jobs : ~Running(j)
    BY <1>18 DEF RollbackFiles, MayStart, Quiet, Orderly
  <2>2. /\ rollback.pc = "idle" /\ rollback'.pc = "listing"
        /\ UNCHANGED <<pc, files, state, sweep>>
    BY <1>18 DEF RollbackFiles, jobs
  <2>3. \A w \in Writers : ~At(w, "reconciling") /\ sweep[w].copy = None
    <3>1. \A w \in Writers : ~At(w, "reconciling")
      BY <2>1, <2>2, WritersAre DEF At, Running
    <3> QED
      BY <3>1 DEF SweepInv, Clean
  <2>4. \A w \in Writers : ~At(w, "reconciling")' /\ sweep'[w].copy = None
    BY <2>1, <2>2, <2>3, WritersAre DEF At, Running
  <2> QED
    BY <2>2, <2>4 DEF Produced
<1>19. ASSUME NEW w \in Writers, Reconcile(w) PROVE Produced'
  <2>1. /\ UNCHANGED <<activated, pointer>> /\ Recorded' = Recorded
        /\ rollback'.target = rollback.target
    BY <1>19, WriterSteps, OnlyRecords DEF Recorded
  <2>2. \A u \in Writers, v \in Jobs : Reconciled(u, v)' = Reconciled(u, v)
    BY <2>1 DEF Reconciled
  <2>3. At(w, "listing") \/ At(w, "reconciling")
    BY <1>19 DEF Reconcile, List, Load, Save, Finish, SweepInv, Clean
  <2>4. /\ w = None => rollback.pc # "idle"
        /\ w # None => Running(w) /\ Taking(w) /\ w \in Jobs
    BY <2>3, WritersAre DEF At, Running, Taking, Done, JobInv
  <2>5. \A u \in Writers : u # w => ~At(u, "reconciling") /\ sweep[u].copy = None
    BY <2>4, OneWriter
  <2>6. \A u \in Writers : u # w => ~At(u, "reconciling")' /\ sweep'[u].copy = None
    <3>1. \A u \in Writers : u # w => (At(u, "reconciling")' <=> At(u, "reconciling"))
      BY <1>19, WriterSteps, WritersAre DEF At
    <3> QED
      BY <1>19, <2>5, <3>1, WriterSteps
  <2>7. \A v \in Recorded : v \in Jobs
    BY DEF Recorded
  <2>8. CASE ~Finish(w)
    <3>1. At(w, "reconciling")' /\ (w # None => Taking(w)')
      <4>1. CASE w = None
        BY <1>19, <2>3, <2>8, <4>1 DEF Reconcile, List, Load, Save, MoveTo, At, Typed, Stored,
           SweepInv, Clean
      <4>2. CASE w \in Jobs
        BY <1>19, <2>1, <2>3, <2>4, <2>8, <4>2, WritersAre DEF Reconcile, List, Load, Save,
           MoveTo, Goto, At, Taking, Done, Typed, SweepInv, Clean, jobs
      <4> QED
        BY <4>1, <4>2, WritersAre
    <3>2. rollback'.pc = "idle" => w # None
      BY <3>1 DEF At
    <3>3. rollback'.pc # "rows"
      <4>1. CASE w = None
        BY <3>1, <4>1 DEF At
      <4>2. CASE w # None
        BY <1>19, <2>4, <4>2, WriterSteps DEF Exclusive
      <4> QED
        BY <4>1, <4>2
    <3>4. sweep'[w].copy # None => sweep'[w].copy \in Recorded
      BY <1>19, <2>8, WritersAre DEF Reconcile, List, Load, Save, Produced, Typed, Stored
    <3>5. ASSUME NEW v \in Recorded
          PROVE  v \in sweep'[w].todo \/ v = sweep'[w].copy \/ state'[v] = Reconciled(w, v)
      <4>1. CASE List(w)
        BY <2>7, <4>1 DEF List, Recorded, Typed, Stored
      <4>2. CASE Load(w)
        <5>1. PICK u \in sweep[w].todo : sweep' = [sweep EXCEPT ![w] =
                 [todo |-> @.todo \ {u},
                  copy |-> IF u \in Recorded /\ state[u] # Reconciled(w, u) THEN u ELSE None]]
          BY <4>2 DEF Load
        <5>2. /\ sweep'[w].todo = sweep[w].todo \ {u} /\ state' = state
              /\ sweep'[w].copy = IF u \in Recorded /\ state[u] # Reconciled(w, u)
                                  THEN u ELSE None
          BY <4>2, <5>1 DEF Load, Typed, Stored
        <5>3. v # None
          BY <2>7, WritersAre
        <5>4. v \in sweep[w].todo \/ state[v] = Reconciled(w, v)
          BY <4>2, <5>3 DEF Load, Produced
        <5>5. CASE v = u
          BY <5>2, <5>5
        <5>6. CASE v # u
          BY <5>2, <5>4, <5>6
        <5> QED
          BY <5>5, <5>6
      <4>3. CASE Save(w)
        <5>1. At(w, "reconciling")
          BY <4>3 DEF Save, SweepInv, Clean
        <5>2. CASE v = sweep[w].copy
          BY <2>7, <4>3, <5>2 DEF Save, Written, Typed, Stored
        <5>3. CASE v # sweep[w].copy
          BY <2>7, <4>3, <5>1, <5>3 DEF Save, Written, Produced, Typed, Stored
        <5> QED
          BY <5>2, <5>3
      <4> QED
        BY <1>19, <2>8, <4>1, <4>2, <4>3 DEF Reconcile
    <3> QED
      BY <2>1, <2>2, <2>4, <2>6, <2>7, <3>1, <3>2, <3>3, <3>4, <3>5 DEF Produced
  <2>9. CASE Finish(w)
    <3>1. /\ state' = state /\ sweep' = sweep /\ At(w, "reconciling")
          /\ sweep[w].todo = {} /\ sweep[w].copy = None
      BY <2>9 DEF Finish, registry
    <3>2. \A v \in Recorded : state[v] = Reconciled(w, v)
      BY <2>7, <3>1, WritersAre DEF Produced
    <3>3. pointer = (IF w = None THEN rollback.target ELSE w) /\ pointer \in Recorded
      <4>1. CASE w = None
        BY <2>4, <4>1 DEF Named
      <4>2. CASE w # None
        <5>1. pointer = w /\ row[w] = "active" /\ pc[w] = "reconciling"
          BY <2>4, <3>1, <4>2 DEF Named, Taking, Done, At
        <5>2. w \in Recorded
          BY <2>4, <4>2, <5>1 DEF Kept
        <5> QED
          BY <4>2, <5>1, <5>2
      <4> QED
        BY <4>1, <4>2
    <3>4. Production = {pointer}
      <4>1. \A v \in Jobs : state[v] = "production" => v \in Recorded
        BY DEF JobInv
      <4> QED
        BY <2>7, <3>2, <3>3, <4>1 DEF Production, Reconciled
    <3>5. Production' = {pointer} /\ Served' = {pointer} /\ pointer # None
      BY <2>1, <2>7, <3>1, <3>3, <3>4 DEF Production, Served, Jobs, None
    <3>6. ~At(w, "reconciling")' /\ sweep'[w].copy = None
      <4>1. CASE w = None
        BY <2>9, <3>1, <4>1 DEF Finish, MoveTo, At, Typed, Stored
      <4>2. CASE w \in Jobs
        BY <2>9, <3>1, <4>2, WritersAre DEF Finish, MoveTo, Goto, At, Typed
      <4> QED
        BY <4>1, <4>2, WritersAre
    <3>7. rollback'.pc = "rows" => pointer = rollback'.target
      <4>1. CASE w = None
        BY <2>1, <3>3, <4>1
      <4>2. CASE w # None
        BY <1>19, <2>4, <4>2, WriterSteps DEF Exclusive
      <4> QED
        BY <4>1, <4>2
    <3> QED
      BY <2>6, <3>5, <3>6, <3>7 DEF Produced
  <2> QED
    BY <2>8, <2>9
<1>20. ASSUME RollbackRows PROVE Produced'
  <2>1. /\ rollback.pc = "rows" /\ rollback'.pc = "idle"
        /\ UNCHANGED <<pc, activated, files, state, pointer, sweep>>
    BY <1>20 DEF RollbackRows, jobs, registry, Typed, Stored
  <2>2. pointer = rollback.target /\ pointer # None /\ \A j \in Jobs : ~Running(j)
    BY <2>1 DEF Named, Exclusive, Recorded, Jobs, None
  <2>3. \A w \in Writers : ~At(w, "reconciling") /\ sweep[w].copy = None
    <3>1. \A w \in Writers : ~At(w, "reconciling")
      BY <2>1, <2>2, WritersAre DEF At, Running
    <3> QED
      BY <3>1 DEF SweepInv, Clean
  <2>4. \A w \in Writers : ~At(w, "reconciling")' /\ sweep'[w].copy = None
    BY <2>1, <2>2, <2>3, WritersAre DEF At, Running
  <2>5. Production' = Served'
    BY <2>1, <2>2 DEF Produced, Production, Served
  <2> QED
    BY <2>1, <2>4, <2>5 DEF Produced
<1>21. ASSUME RollbackEnds PROVE Produced'
  BY <1>21 DEF RollbackEnds, Orderly
<1>22. ASSUME NEW j \in Jobs, Stop(j) PROVE Produced'
  BY <1>22 DEF Stop, Orderly
<1>23. ASSUME NEW d \in Datasets, StopDeletion(d) PROVE Produced'
  BY <1>23 DEF StopDeletion, Orderly
<1>24. ASSUME UNCHANGED vars PROVE Produced'
  BY <1>24, ProducedUnmoved DEF vars, jobs, Taking, Done
<1>25. QED
  BY <1>1, <1>2, <1>3, <1>4, <1>5, <1>6, <1>7, <1>8, <1>9, <1>10, <1>11, <1>12, <1>13, <1>14,
     <1>15, <1>16, <1>17, <1>18, <1>19, <1>20, <1>21, <1>22, <1>23, <1>24 DEF Next, Step, Kinds

-----------------------------------------------------------------------------
(* The invariant.                                                          *)
LEMMA InitInv == Init => IInv
<1> SUFFICES ASSUME Init PROVE IInv
  OBVIOUS
<1>1. Typed
  BY TrainingAssumption DEF Init, Typed, Stored, Tickets, Kinds, Statuses, Places, States, Versions,
     Jobs, None, idle
<1>2. JobInv /\ SweepInv /\ Aimed /\ LiveInv
  BY DEF Init, JobInv, SweepInv, Aimed, Clean, LiveInv, Recorded, Live, idle, None
<1>3. TrainedInv
  BY DEF Init, TrainedInv, Counts, Live, idle
<1>4. OrderInv
  BY DEF Init, OrderInv, Exclusive, Kept, Named, Produced, Running, Recorded, Taking, Done,
     ActiveRows, Shown, Served, Production, At, Jobs, None
<1> QED
  BY <1>1, <1>2, <1>3, <1>4 DEF IInv

LEMMA OrderKept ==
  ASSUME Typed, JobInv, SweepInv, OrderInv, [Next]_vars
  PROVE  OrderInv'
<1>1. profile' = profile
  BY DEF Next, Step, vars, context, Upload, DeleteRows, DeleteFiles, Examine, Insert, Enqueue,
     LoseJob, Run, Train, TrainingFails, Decide, SaveArtifacts, SavingFails, Complete,
     SaveRecord, Activate, RecordingFails, RollbackFiles, Reconcile, List, Load, Save, Finish,
     RollbackRows, RollbackEnds, Stop, StopDeletion
<1> SUFFICES ASSUME Orderly PROVE Exclusive' /\ (\A j \in Jobs : Kept(j))' /\ Named'
                                 /\ Produced'
  BY <1>1 DEF OrderInv, Orderly
<1> QED
  BY ExclusiveKept, FilesKept, NamedKept, ProducedKept DEF OrderInv

LEMMA NextInv == IInv /\ [Next]_vars => IInv'
  BY TypedKept, JobKept, SweepKept, AimedKept, LiveKept, TrainedKept, OrderKept DEF IInv

(* The invariant holds for any number of datasets, requests and jobs.      *)
THEOREM TrainingInvariance == Spec => []IInv
  BY InitInv, NextInv, PTL DEF Spec

-----------------------------------------------------------------------------
(* What it implies.                                                        *)

LEMMA AtMostOne ==
  ASSUME NEW S \in SUBSET Jobs, \A i, j \in S : i = j
  PROVE  Cardinality(S) <= 1
<1>1. CASE S = {}
  BY <1>1, FS_EmptySet
<1>2. CASE S # {}
  <2>1. PICK j : S = {j}
    BY <1>2
  <2> QED
    BY <2>1, FS_Singleton
<1> QED
  BY <1>1, <1>2

(* A dataset has one live job at most, however many requests dispatch, and, *)
(* unless dispatches overlap, one completed training of a generation.       *)
THEOREM DispatchesAreUnique == Spec => []DispatchedOnce
<1>1. IInv => OneLiveJob
  <2> SUFFICES ASSUME IInv, NEW d \in Datasets
               PROVE  Cardinality({j \in Jobs : about[j].dataset = d /\ Live(j)}) <= 1
    BY DEF OneLiveJob
  <2> DEFINE S == {j \in Jobs : about[j].dataset = d /\ Live(j)}
  <2>1. \A i, j \in S : i = j
    BY DEF IInv, LiveInv
  <2> QED
    BY <2>1, AtMostOne
<1>2. IInv => ("race" \notin profile => TrainedOnce)
  BY DEF IInv, TrainedInv, TrainedOnce, Counts, About
<1> QED
  BY <1>1, <1>2, TrainingInvariance, PTL DEF DispatchedOnce

(* In order the database has at most one active row, and when nothing is    *)
(* under way it is that of the version the ACTIVE file names, whose record  *)
(* is the only one that says production.                                    *)
THEOREM OneModelAlwaysServes == Spec => []OneModelServes
<1>1. IInv /\ Orderly => OneActiveRow
  <2> SUFFICES ASSUME IInv, Orderly PROVE OneActiveRow
    OBVIOUS
  <2>1. ActiveRows \in SUBSET Jobs /\ \A i, j \in ActiveRows : i = j
    BY DEF IInv, OrderInv, Named, ActiveRows
  <2> QED
    BY <2>1, AtMostOne DEF OneActiveRow
<1>2. IInv /\ Orderly => NamesAgree
  BY DEF IInv, OrderInv, Named, Produced, NamesAgree, Quiet, Taking, Done, Running, Shown,
     Served, Doomed
<1> QED
  BY <1>1, <1>2, TrainingInvariance, PTL DEF OneModelServes

(* In order, no artifact derived from a deleted dataset is left or served.  *)
THEOREM NothingDerivedIsLeft == Spec => []DeletedDataGone
<1>1. IInv => DeletedDataGone
  <2> SUFFICES ASSUME IInv, Orderly, Quiet, NEW j \in Jobs, status[j] = "deleted"
               PROVE  files[j] = {} /\ pointer # j
    BY DEF DeletedDataGone
  <2>1. files[j] = {}
    BY DEF IInv, OrderInv, Kept, Quiet
  <2>2. ActiveRows = IF pointer = None THEN {} ELSE {pointer}
    BY DEF IInv, OrderInv, Named, Quiet, Taking, Done, Running, Shown, Doomed
  <2>3. j # None /\ row[j] # "active"
    BY DEF IInv, JobInv, Jobs, None
  <2> QED
    BY <2>1, <2>2, <2>3 DEF ActiveRows
<1> QED
  BY <1>1, TrainingInvariance, PTL

(* Only a deletion leaves a task without an active version, and, in order,  *)
(* a retraining serves a version no worse than the one served.              *)
THEOREM ServedVersionsStay == Spec => ServedForAReason
<1> DEFINE Loses == ActiveRows # {} /\ ActiveRows' = {}
           Deletes == \E d \in Datasets : generation[d] > 0 /\ generation'[d] = 0
           Takes(j) == about[j].kind = "retraining" /\ activated'[j] /\ ~activated[j]
                       /\ pointer # None
<1>1. ASSUME IInv, Next PROVE Loses => Deletes
  <2>1. ASSUME NEW d \in Datasets, DeleteRows(d) PROVE Loses => Deletes
    BY <1>1, <2>1 DEF DeleteRows, IInv, Typed, Stored
  <2>2. ASSUME NEW j \in Jobs, Complete(j) PROVE ~Loses
    <3>1. CASE row' = row
      BY <3>1 DEF ActiveRows
    <3>2. CASE row' # row
      <4>1. row[j] = "none"
        BY <3>2, <2>2, <1>1 DEF Complete, IInv, JobInv
      <4>2. row' = IF activated[j] THEN WithActive(row, j, previous[j])
                   ELSE [row EXCEPT ![j] = "inactive"]
        BY <3>2, <2>2 DEF Complete
      <4>3. CASE activated[j]
        BY <4>2, <4>3 DEF WithActive, ActiveRows
      <4>4. CASE ~activated[j]
        BY <4>1, <4>2, <4>4 DEF ActiveRows
      <4> QED
        BY <4>3, <4>4
    <3> QED
      BY <3>1, <3>2
  <2>3. ASSUME RollbackRows PROVE ~Loses
    <3>1. rollback.target \in Jobs
      BY <1>1, <2>3 DEF RollbackRows, IInv, Aimed
    <3>2. CASE row[rollback.target] = "none"
      BY <2>3, <3>2 DEF RollbackRows, RolledBack, ActiveRows
    <3>3. CASE row[rollback.target] # "none"
      BY <2>3, <3>1, <3>3 DEF RollbackRows, RolledBack, WithActive, ActiveRows
    <3> QED
      BY <3>2, <3>3
  <2>4. ASSUME UNCHANGED row PROVE ~Loses
    BY <2>4 DEF ActiveRows
  <2> QED
    BY <1>1, <2>1, <2>2, <2>3, <2>4 DEF Next, Step, Upload, DeleteFiles, Examine, Insert,
       Enqueue, LoseJob, Run, Train, TrainingFails, Decide, SaveArtifacts, SavingFails,
       SaveRecord, Activate, RecordingFails, RollbackFiles, Reconcile, List, Load, Save,
       Finish, RollbackEnds, Stop, StopDeletion
<1>2. ASSUME IInv, Next, Orderly, NEW j \in Jobs, Takes(j)
      PROVE  quality[j] >= quality[pointer]
  <2>1. activated' # activated
    BY <1>2
  <2>2. PICK i \in Jobs : Decide(i)
    BY <1>2, <2>1 DEF Next, Step, jobs, Upload, DeleteRows, DeleteFiles, Examine, Insert,
       Enqueue, LoseJob, Run, Train, TrainingFails, SaveArtifacts, SavingFails, Complete,
       SaveRecord, Activate, RecordingFails, RollbackFiles, Reconcile, List, Load, Save,
       Finish, RollbackRows, RollbackEnds, Stop, StopDeletion
  <2>3. i = j
    BY <1>2, <2>2 DEF Decide, IInv, Typed, Stored
  <2>4. Better(j) /\ pc[j] = "trained"
    BY <1>2, <2>2, <2>3 DEF Decide, IInv, Typed, Stored
  <2>5. seen[j] = pointer
    BY <1>2, <2>4 DEF IInv, OrderInv, Named
  <2> QED
    BY <2>4, <2>5 DEF Better
<1>3. IInv /\ [Next]_vars =>
        [/\ Loses => Deletes
         /\ Orderly => \A j \in Jobs : Takes(j) => quality[j] >= quality[pointer]]_vars
  BY <1>1, <1>2
<1> QED
  BY <1>3, TrainingInvariance, PTL DEF Spec, ServedForAReason
=============================================================================
