------------------------------- MODULE Training -------------------------------
(***************************************************************************)
(* The trainings of one task of a company (training_dispatcher.py) and its *)
(* model registry.  A dispatch commits a job, then enqueues it in memory;  *)
(* each job runs in a process of its own, which nothing watches.  The model*)
(* served is named three times: by the ACTIVE file of the registry, by the *)
(* records of the versions, written one file at a time without a lock, and *)
(* by is_active in the database.  Uploads, rollbacks and deletions of      *)
(* datasets go on meanwhile.                                               *)
(***************************************************************************)
EXTENDS Naturals, FiniteSets

CONSTANTS
  Datasets,      \* datasets of the module
  Dispatchers,   \* requests that dispatch trainings or retrainings
  MaxJobs,       \* bound on the jobs ever made
  MaxGeneration, \* bound on the generations of a dataset
  MaxQuality,    \* the primary metric of a model, 0 .. MaxQuality
  Profiles,      \* the values of profile a behaviour starts with
  Bound          \* for each of them, bounds on the jobs, rollbacks and metrics

ASSUME TrainingAssumption ==
  /\ MaxJobs \in Nat \ {0} /\ MaxGeneration \in Nat \ {0}
  /\ MaxQuality \in Nat
  /\ Bound \in [Profiles -> [jobs : 0..MaxJobs, rollbacks : Nat, quality : 0..MaxQuality]]
  /\ Profiles \subseteq SUBSET {"upload", "overlap", "race", "lost", "stop", "artifact"}

None == 0
Jobs == 1..MaxJobs          \* a job, and the version of the model it trains
Writers == 0..MaxJobs       \* a job, or the rollback (None)

VARIABLES
  generation,  \* current version_number of a dataset, 0 when it is deleted
  dispatcher,  \* pc, kind, dataset and generation of a dispatch
  status,      \* TrainingJob.status, "none" before the job, "deleted" after
  about,       \* kind, dataset and generation of a job
  pc,          \* where the run of a job stands
  seen,        \* the version run_job read as active before it trained
  quality,     \* metric of a version
  activated,   \* the run decided to activate its version
  previous,    \* active rows the run is about to deactivate
  row,         \* row of model_registries: "none", "inactive" or "active"
  files,       \* what the version's directory holds: "model", "record"
  state,       \* lifecycle state in the version record
  pointer,     \* version in the ACTIVE file
  sweep,       \* versions a writer has yet to reconcile, and the one it loaded
  rollback,    \* pc and target of the rollback in progress, and number begun
  deleting,    \* datasets whose rows are deleted and whose files are not yet
  profile      \* what may happen in this behaviour:
               \*   "upload":   datasets get new versions
               \*   "overlap":  jobs, rollbacks and deletions overlap
               \*   "race":     so do dispatches
               \*   "lost":     the process stops between a job's commit and its
               \*               enqueuing
               \*   "stop":     a job, a rollback or a deletion stops, or hangs
               \*   "artifact": a write to the registry fails

context  == <<deleting, profile>>
jobs     == <<status, about, pc, seen, quality, activated, previous>>
registry == <<files, state, pointer, sweep>>
vars     == <<generation, dispatcher, jobs, row, registry, rollback, context>>

idle == [pc |-> "idle", kind |-> "training", dataset |-> None, generation |-> 0]

Init ==
  /\ generation = [d \in Datasets |-> 1]
  /\ dispatcher = [r \in Dispatchers |-> idle]
  /\ status = [j \in Jobs |-> "none"]
  /\ about = [j \in Jobs |-> idle]
  /\ pc = [j \in Jobs |-> "none"]
  /\ seen = [j \in Jobs |-> None]
  /\ quality = [j \in Jobs |-> 0]
  /\ activated = [j \in Jobs |-> FALSE]
  /\ previous = [j \in Jobs |-> {}]
  /\ row = [j \in Jobs |-> "none"]
  /\ files = [j \in Jobs |-> {}]
  /\ state = [j \in Jobs |-> "none"]
  /\ pointer = None
  /\ sweep = [w \in Writers |-> [todo |-> {}, copy |-> None]]
  /\ rollback = [pc |-> "idle", target |-> None, count |-> 0]
  /\ deleting = {}
  /\ profile \in Profiles

Live(j)    == status[j] \in {"pending", "running"}
ActiveRows == {j \in Jobs : row[j] = "active"}
Recorded   == {j \in Jobs : "record" \in files[j]}
Running(j) == pc[j] \notin {"none", "queued", "end", "stopped"}

Quiet == /\ \A j \in Jobs : ~Running(j)
         /\ rollback.pc = "idle"
         /\ deleting = {}
MayStart == "overlap" \in profile \/ Quiet

Upload(d) ==
  /\ "upload" \in profile
  /\ generation[d] \in 1..(MaxGeneration - 1)
  /\ generation' = [generation EXCEPT ![d] = @ + 1]
  /\ UNCHANGED <<dispatcher, jobs, row, registry, rollback, context>>

-----------------------------------------------------------------------------
(* dispatch and dispatch_retraining_check                                  *)

ActiveJob(d) == \E j \in Jobs : about[j].dataset = d /\ Live(j)

LiveDuplicate(d, g) == ActiveJob(d)   \* mutant
Duplicate(d, g) ==
  \E j \in Jobs : /\ about[j].dataset = d /\ about[j].generation = g
                  /\ Live(j) \/ status[j] = "completed"

(* A training asks for no job of the generation; a retraining for a model. *)
Wanted(kind, d) ==
  /\ ~ActiveJob(d)
  /\ kind = "training"   => ~Duplicate(d, generation[d])
  /\ kind = "retraining" => pointer # None

Examine(r, kind, d) ==
  /\ dispatcher[r].pc = "idle"
  /\ "race" \in profile \/ r = CHOOSE q \in Dispatchers : TRUE
  /\ generation[d] > 0
  /\ Wanted(kind, d)
  /\ dispatcher' = [dispatcher EXCEPT ![r] =
       [pc |-> "insert", kind |-> kind, dataset |-> d, generation |-> generation[d]]]
  /\ UNCHANGED <<generation, jobs, row, registry, rollback, context>>

(* The unique index on live jobs and the foreign key to the dataset.       *)
MayInsert(d) == generation[d] > 0 /\ ~ActiveJob(d)

Insert(r) ==
  LET new == {j \in Jobs : j <= Bound[profile].jobs /\ status[j] = "none"} IN
  /\ dispatcher[r].pc = "insert"
  /\ IF MayInsert(dispatcher[r].dataset)
     THEN \E j \in new :
            /\ \A i \in new : j <= i
            /\ status' = [status EXCEPT ![j] = "pending"]
            /\ about' = [about EXCEPT ![j] = dispatcher[r]]
            /\ dispatcher' = [dispatcher EXCEPT ![r].pc = "enqueue"]
     ELSE /\ dispatcher' = [dispatcher EXCEPT ![r] = idle]
          /\ UNCHANGED <<status, about>>
  /\ UNCHANGED <<generation, pc, seen, quality, activated, previous, row, registry,
                 rollback, context>>

Committed(r) == {j \in Jobs : /\ about[j] = [dispatcher[r] EXCEPT !.pc = "insert"]
                              /\ pc[j] = "none"}

Enqueue(r) ==
  /\ dispatcher[r].pc = "enqueue"
  /\ dispatcher' = [dispatcher EXCEPT ![r] = idle]
  /\ \E j \in Committed(r) : pc' = [pc EXCEPT ![j] = "queued"]
  /\ UNCHANGED <<generation, status, about, seen, quality, activated, previous, row,
                 registry, rollback, context>>

(* The process stops after the job's commit: the job stays pending.        *)
LoseJob(r) ==
  /\ "lost" \in profile
  /\ dispatcher[r].pc = "enqueue"
  /\ dispatcher' = [dispatcher EXCEPT ![r] = idle]
  /\ \E j \in Committed(r) : pc' = [pc EXCEPT ![j] = "stopped"]
  /\ UNCHANGED <<generation, status, about, seen, quality, activated, previous, row,
                 registry, rollback, context>>

-----------------------------------------------------------------------------
(* _run and _run_retraining                                                *)

Goto(j, place) == pc' = [pc EXCEPT ![j] = place]

(* _fail and _cancel write the status unless the job's row is gone.        *)
KeepStatus(j, outcome) == status' = status   \* mutant
Settle(j, outcome) ==
  status' = [status EXCEPT ![j] = IF @ = "deleted" THEN @ ELSE outcome]

Run(j) ==
  /\ pc[j] = "queued"
  /\ MayStart
  /\ IF status[j] = "deleted"
     THEN Goto(j, "end") /\ UNCHANGED <<status, seen>>
     ELSE /\ Goto(j, "training")
          /\ status' = [status EXCEPT ![j] = "running"]
          /\ \E v \in IF ActiveRows = {} THEN {None} ELSE ActiveRows :
               seen' = [seen EXCEPT ![j] = v]
  /\ UNCHANGED <<generation, dispatcher, about, quality, activated, previous, row,
                 registry, rollback, context>>

Train(j) ==
  /\ pc[j] = "training"
  /\ \E q \in 0..MaxQuality : q <= Bound[profile].quality /\ quality' = [quality EXCEPT ![j] = q]
  /\ files' = [files EXCEPT ![j] = {"model"}]
  /\ Goto(j, "trained")
  /\ UNCHANGED <<generation, dispatcher, status, about, seen, activated, previous, row,
                 state, pointer, sweep, rollback, context>>

TrainingFails(j) ==
  /\ pc[j] = "training"
  /\ \E outcome \in {"failed"} \cup (IF about[j].kind = "training" THEN {"cancelled"} ELSE {}) :
       Settle(j, outcome)
  /\ Goto(j, "end")
  /\ UNCHANGED <<generation, dispatcher, about, seen, quality, activated, previous, row,
                 registry, rollback, context>>

(* compare_models, with the metrics read before the training.              *)
BetterOrFirst(j) == seen[j] # None => quality[j] + 1 >= quality[seen[j]]   \* mutant
Better(j) == seen[j] # None /\ quality[j] >= quality[seen[j]]

(* A training needs the trainer's approval; a retraining needs to be at    *)
(* least as good, and may be blocked by a critical drift.                  *)
Decide(j) ==
  /\ pc[j] = "trained"
  /\ \E yes \in BOOLEAN :
       /\ yes /\ about[j].kind = "retraining" => Better(j)
       /\ activated' = [activated EXCEPT ![j] = yes]
       /\ pointer' = IF yes THEN j ELSE pointer
  /\ Goto(j, "saving")
  /\ UNCHANGED <<generation, dispatcher, status, about, seen, quality, previous, row,
                 files, state, sweep, rollback, context>>

SaveArtifacts(j) ==
  /\ pc[j] = "saving"
  /\ previous' = [previous EXCEPT ![j] = IF activated[j] THEN ActiveRows ELSE {}]
  /\ Goto(j, "completing")
  /\ UNCHANGED <<generation, dispatcher, status, about, seen, quality, activated, row,
                 registry, rollback, context>>

SavingFails(j) ==
  /\ pc[j] = "saving"
  /\ "artifact" \in profile
  /\ Settle(j, "failed")
  /\ Goto(j, "end")
  /\ UNCHANGED <<generation, dispatcher, about, seen, quality, activated, previous, row,
                 registry, rollback, context>>

KeepOthers(rows, j, olds) == [rows EXCEPT ![j] = "active"]   \* mutant
WithActive(rows, j, olds) ==
  [v \in Jobs |-> IF v = j THEN "active" ELSE IF v \in olds THEN "inactive" ELSE rows[v]]

(* The commit of _complete writes the rows and the status together.  When  *)
(* a row it updates is gone the flush fails, and _fail on the same session *)
(* fails too: the status stays.                                            *)
Complete(j) ==
  /\ pc[j] = "completing"
  /\ IF status[j] = "running" /\ \A v \in previous[j] : row[v] # "none"
     THEN /\ status' = [status EXCEPT ![j] = "completed"]
          /\ row' = IF activated[j] THEN WithActive(row, j, previous[j])
                    ELSE [row EXCEPT ![j] = "inactive"]
          /\ Goto(j, "recording")
     ELSE Goto(j, "end") /\ UNCHANGED <<status, row>>
  /\ UNCHANGED <<generation, dispatcher, about, seen, quality, activated, previous,
                 registry, rollback, context>>

-----------------------------------------------------------------------------
(* record_version, rollback_to_version and reconcile_lifecycle_states      *)

(* A version's directory is made again when it is gone.                    *)
Written(v, as) ==
  /\ files' = [files EXCEPT ![v] = @ \cup {"record"}]
  /\ state' = [state EXCEPT ![v] = as]

SaveRecord(j) ==
  /\ pc[j] = "recording"
  /\ Written(j, IF activated[j] THEN "production" ELSE "validated")
  /\ Goto(j, "activating")
  /\ UNCHANGED <<generation, dispatcher, status, about, seen, quality, activated,
                 previous, row, pointer, sweep, rollback, context>>

(* Its entry in the history is written first.                              *)
Activate(j) ==
  /\ pc[j] = "activating"
  /\ IF activated[j] /\ files[j] # {}
     THEN pointer' = j /\ Goto(j, "listing")
     ELSE pointer' = pointer /\ Goto(j, "end")
  /\ UNCHANGED <<generation, dispatcher, status, about, seen, quality, activated,
                 previous, row, files, state, sweep, rollback, context>>

(* The failure of a write is swallowed: the job stays completed.           *)
RecordingFails(j) ==
  /\ "artifact" \in profile
  /\ pc[j] \in {"recording", "activating", "listing", "reconciling"}
  /\ sweep' = [sweep EXCEPT ![j] = [todo |-> {}, copy |-> None]]
  /\ Goto(j, "end")
  /\ UNCHANGED <<generation, dispatcher, status, about, seen, quality, activated,
                 previous, row, files, state, pointer, rollback, context>>

(* The pointer moves first.                                                *)
RollbackFiles(v) ==
  /\ MayStart
  /\ rollback.pc = "idle" /\ rollback.count < Bound[profile].rollbacks
  /\ files[v] # {}
  /\ pointer' = v
  /\ rollback' = [pc |-> "listing", target |-> v, count |-> rollback.count + 1]
  /\ UNCHANGED <<generation, dispatcher, jobs, row, files, state, sweep, context>>

At(w, place) == IF w = None THEN rollback.pc = place ELSE pc[w] = place
MoveTo(w, place) ==
  IF w = None
  THEN pc' = pc /\ rollback' = [rollback EXCEPT !.pc = place]
  ELSE Goto(w, place) /\ rollback' = rollback

List(w) ==
  /\ At(w, "listing")
  /\ sweep' = [sweep EXCEPT ![w].todo = {v \in Jobs : files[v] # {}}]
  /\ MoveTo(w, "reconciling")
  /\ UNCHANGED <<generation, dispatcher, status, about, seen, quality, activated,
                 previous, row, files, state, pointer, context>>

Reconciled(w, v) ==
  IF v = IF w = None THEN rollback.target ELSE w THEN "production" ELSE "archived"

(* The versions come in order, taken to be that of their jobs; one without *)
(* a record is passed over.                                                *)
Load(w) ==
  /\ At(w, "reconciling") /\ sweep[w].copy = None
  /\ \E v \in sweep[w].todo :
       /\ \A u \in sweep[w].todo : v <= u
       /\ sweep' = [sweep EXCEPT ![w] =
            [todo |-> @.todo \ {v},
             copy |-> IF v \in Recorded /\ state[v] # Reconciled(w, v) THEN v ELSE None]]
  /\ UNCHANGED <<generation, dispatcher, jobs, row, files, state, pointer, rollback,
                 context>>

Save(w) ==
  /\ sweep[w].copy # None
  /\ Written(sweep[w].copy, Reconciled(w, sweep[w].copy))
  /\ sweep' = [sweep EXCEPT ![w].copy = None]
  /\ UNCHANGED <<generation, dispatcher, jobs, row, pointer, rollback, context>>

(* A rollback to a version without a record raises here, and one whose     *)
(* entry in the history is not written too: the rows stay.                 *)
Finish(w) ==
  /\ At(w, "reconciling")
  /\ sweep[w] = [todo |-> {}, copy |-> None]
  /\ MoveTo(w, IF w # None THEN "end"
                ELSE IF rollback.target \in Recorded THEN "rows" ELSE "idle")
  /\ UNCHANGED <<generation, dispatcher, status, about, seen, quality, activated,
                 previous, row, registry, context>>

RolledBack(v) == IF row[v] = "none" THEN row ELSE WithActive(row, v, ActiveRows)

RollbackRows ==
  /\ rollback.pc = "rows"
  /\ row' = RolledBack(rollback.target)
  /\ rollback' = [rollback EXCEPT !.pc = "idle"]
  /\ UNCHANGED <<generation, dispatcher, jobs, registry, context>>

RollbackEnds ==
  /\ profile \cap {"artifact", "stop"} # {}
  /\ rollback.pc # "idle"
  /\ sweep' = [sweep EXCEPT ![None] = [todo |-> {}, copy |-> None]]
  /\ rollback' = [rollback EXCEPT !.pc = "idle"]
  /\ UNCHANGED <<generation, dispatcher, jobs, row, files, state, pointer, context>>

-----------------------------------------------------------------------------
(* delete_if_exists                                                        *)

OfDataset(d) == {j \in Jobs : status[j] # "none" /\ about[j].dataset = d}

DeleteRows(d) ==
  /\ MayStart
  /\ generation[d] > 0
  /\ generation' = [generation EXCEPT ![d] = 0]
  /\ status' = [j \in Jobs |-> IF j \in OfDataset(d) THEN "deleted" ELSE status[j]]
  /\ row' = [j \in Jobs |-> IF j \in OfDataset(d) THEN "none" ELSE row[j]]
  /\ deleting' = deleting \cup {d}
  /\ UNCHANGED <<dispatcher, about, pc, seen, quality, activated, previous, registry,
                 rollback, profile>>

(* invalidate_dataset_versions knows a version's dataset by its record.    *)
ServedOnly(d) == OfDataset(d) \cap Recorded \cap {pointer}   \* mutant
Derived(d) == OfDataset(d) \cap Recorded

DeleteFiles(d) ==
  LET gone == Derived(d) IN
  /\ d \in deleting
  /\ deleting' = deleting \ {d}
  /\ files' = [j \in Jobs |-> IF j \in gone THEN {} ELSE files[j]]
  /\ state' = [j \in Jobs |-> IF j \in gone THEN "none" ELSE state[j]]
  /\ pointer' = IF pointer \in gone THEN None ELSE pointer
  /\ UNCHANGED <<generation, dispatcher, jobs, row, sweep, rollback, profile>>

(* Nothing watches a process, nor resets a job that runs no more.          *)
Stop(j) ==
  /\ "stop" \in profile
  /\ pc[j] \notin {"none", "end", "stopped"}
  /\ sweep' = [sweep EXCEPT ![j] = [todo |-> {}, copy |-> None]]
  /\ Goto(j, "stopped")
  /\ UNCHANGED <<generation, dispatcher, status, about, seen, quality, activated,
                 previous, row, files, state, pointer, rollback, context>>

StopDeletion(d) ==
  /\ "stop" \in profile
  /\ d \in deleting
  /\ deleting' = deleting \ {d}
  /\ UNCHANGED <<generation, dispatcher, jobs, row, registry, rollback, profile>>

-----------------------------------------------------------------------------
Step(j) ==
  \/ Run(j) \/ Train(j) \/ TrainingFails(j) \/ Decide(j)
  \/ SaveArtifacts(j) \/ SavingFails(j) \/ Complete(j)
  \/ SaveRecord(j) \/ Activate(j) \/ RecordingFails(j)

Reconcile(w) == List(w) \/ Load(w) \/ Save(w) \/ Finish(w)

Next ==
  \/ \E d \in Datasets : Upload(d) \/ DeleteRows(d) \/ DeleteFiles(d) \/ StopDeletion(d)
  \/ \E r \in Dispatchers, d \in Datasets, kind \in {"training", "retraining"} :
       Examine(r, kind, d)
  \/ \E r \in Dispatchers : Insert(r) \/ Enqueue(r) \/ LoseJob(r)
  \/ \E j \in Jobs : Step(j) \/ Stop(j) \/ RollbackFiles(j)
  \/ \E w \in Writers : Reconcile(w)
  \/ RollbackRows \/ RollbackEnds

Spec == Init /\ [][Next]_vars

(* Background tasks run after the response; processes and requests go on,  *)
(* but those that stop.                                                    *)
LiveSpec ==
  /\ Spec
  /\ \A r \in Dispatchers : WF_vars(Insert(r) \/ Enqueue(r))
  /\ \A j \in Jobs : WF_vars(Step(j) \/ Reconcile(j))
  /\ WF_vars(\E d \in Datasets : DeleteFiles(d))
  /\ WF_vars(Reconcile(None) \/ RollbackRows)

-----------------------------------------------------------------------------
(* Type invariant: a version has a row, and a lifecycle state, only after  *)
(* its job completed.                                                      *)
TrainingTypeOK ==
  /\ generation \in [Datasets -> 0..MaxGeneration]
  /\ \A r \in Dispatchers : dispatcher[r].pc \in {"idle", "insert", "enqueue"}
  /\ status \in [Jobs -> {"none", "pending", "running", "completed", "failed",
                         "cancelled", "deleted"}]
  /\ pc \in [Jobs -> {"none", "queued", "training", "trained", "saving", "completing",
                     "recording", "activating", "listing", "reconciling", "end",
                     "stopped"}]
  /\ seen \in [Jobs -> 0..MaxJobs] /\ quality \in [Jobs -> 0..MaxQuality]
  /\ activated \in [Jobs -> BOOLEAN] /\ previous \in [Jobs -> SUBSET Jobs]
  /\ row \in [Jobs -> {"none", "inactive", "active"}]
  /\ files \in [Jobs -> SUBSET {"model", "record"}]
  /\ pointer \in 0..MaxJobs
  /\ sweep \in [Writers -> [todo : SUBSET Jobs, copy : 0..MaxJobs]]
  /\ rollback.pc \in {"idle", "listing", "reconciling", "rows"}
  /\ rollback.target \in 0..MaxJobs
  /\ deleting \subseteq Datasets
  /\ \A j \in Jobs : /\ row[j] # "none" <=> status[j] = "completed"
                     /\ state[j] # "none" <=> j \in Recorded

OneLiveJob ==
  \A d \in Datasets : Cardinality({j \in Jobs : about[j].dataset = d /\ Live(j)}) <= 1

TrainedOnce ==
  \A i, j \in Jobs :
    /\ about[i].kind = "training" /\ status[i] = "completed"
    /\ about[j].kind = "training" /\ status[j] = "completed"
    /\ about[i].dataset = about[j].dataset /\ about[i].generation = about[j].generation
    => i = j

(* A dataset has at most one job pending or running, however many requests  *)
(* dispatch at once (the savepoint and the unique index of dispatch), and,  *)
(* unless dispatches overlap, completes one training of a generation (its   *)
(* duplicate test).                                                         *)
DispatchedOnce == OneLiveJob /\ ("race" \notin profile => TrainedOnce)

Production   == {j \in Jobs : state[j] = "production"}
OneActiveRow == Cardinality(ActiveRows) <= 1
NamesAgree   ==
  Quiet => LET served == IF pointer = None THEN {} ELSE {pointer} IN
           ActiveRows = served /\ Production = served

(* Jobs, rollbacks and deletions do not overlap, none stops in the middle,  *)
(* and every write succeeds.                                                *)
Orderly == profile \cap {"overlap", "stop", "artifact"} = {}

(* One model serves the task.  In order, the database never has two active  *)
(* rows, and when nothing is at work the row, the ACTIVE file and the only  *)
(* record that says production name the same version (_finalize_and_persist,*)
(* record_version, rollback_to_version).  The order is needed: a sweep of   *)
(* reconcile_lifecycle_states that overlaps another may leave two           *)
(* production records, or save an old copy of one again.                    *)
OneModelServes == Orderly => OneActiveRow /\ NamesAgree

(* Once a dataset is deleted no artifact derived from it is left and none   *)
(* is served, in order (invalidate_dataset_versions).                       *)
DeletedDataGone ==
  Orderly /\ Quiet => \A j \in Jobs : status[j] = "deleted" => files[j] = {} /\ pointer # j

(* The model served changes for a reason.  A task that has an active        *)
(* version keeps one until a dataset is deleted: neither a training, nor a  *)
(* rollback to whatever version, takes it away.  And, in order, a           *)
(* retraining never replaces the version served by a worse one              *)
(* (compare_models).                                                        *)
ServedForAReason ==
  [][/\ ActiveRows # {} /\ ActiveRows' = {}
        => \E d \in Datasets : generation[d] > 0 /\ generation'[d] = 0
     /\ Orderly => \A j \in Jobs :
          (about[j].kind = "retraining" /\ activated'[j] /\ ~activated[j] /\ pointer # None)
            => quality[j] >= quality[pointer]]_vars

(* Every job committed ends, but one whose process stopped or hung, or was  *)
(* never started, and one whose completion would deactivate a row that was  *)
(* deleted meanwhile: these stay live, and block their dataset.             *)
JobsEnd ==
  \A j \in Jobs :
    []<>(pc[j] = "stopped" \/ ~Live(j) \/ \E v \in previous[j] : row[v] = "none")
=============================================================================
