------------------------------ MODULE ArModels ------------------------------
(***************************************************************************)
(* The 3D model of one product (ar_service, ar_pipeline): photos are       *)
(* uploaded, a click queues a generation and a marking job and schedules   *)
(* a pipeline, which runs them after the response, and the nutrition tags  *)
(* the marking drafts are verified by hand.                                *)
(*                                                                         *)
(* A pipeline commits job by job.  RUNNING is flushed and not committed,   *)
(* so nobody else ever sees it; a restart of the process loses the         *)
(* pipelines and rolls back what they had flushed.                         *)
(***************************************************************************)
EXTENDS Naturals, Sequences, FiniteSets

CONSTANTS
    Views,          \* the five photos a generation needs
    Tags,           \* model_annotations rows that may be inserted
    Tasks,          \* clicks, each with its background task
    MaxRuns,        \* bound: pairs of jobs
    MaxRestarts     \* bound: restarts of the process

VARIABLES
    views,          \* photos uploaded
    model,          \* the product: [status, glb, published]
    jobs,           \* pairs of jobs in order of creation, [gen, mark]
    tag,            \* [Tags -> "none", "draft", "verified" or "gone"]
    task,           \* [Tasks -> [at, run, fresh, stale]]
    restarts,
    abandoned       \* restarted, and no new jobs queued since

arVars == <<views, model, jobs, tag, task, restarts, abandoned>>

NoTask == [at |-> "idle", run |-> 0, fresh |-> FALSE, stale |-> {}]

ArInit ==
    /\ views = {}
    /\ model = [status |-> "NONE", glb |-> FALSE, published |-> FALSE]
    /\ jobs = <<>>
    /\ tag = [t \in Tags |-> "none"]
    /\ task = [k \in Tasks |-> NoTask]
    /\ restarts = 0
    /\ abandoned = FALSE

\* upsert_view_image; a second photo of a view replaces the first.
UploadView(v) ==
    /\ v \notin views
    /\ views' = views \cup {v}
    /\ UNCHANGED <<model, jobs, tag, task, restarts, abandoned>>

Waiting(kind) == {i \in DOMAIN jobs : jobs[i][kind] = "QUEUED"}

\* _active_job: the oldest one; 0 if there is none.
ActiveJob(kind) ==
    IF Waiting(kind) = {} THEN 0 ELSE CHOOSE i \in Waiting(kind) : \A j \in Waiting(kind) : i <= j

-----------------------------------------------------------------------------
(* The click *)

\* The photos are there; a job in flight means no new ones, and no lock is held.
Click(k) ==
    /\ task[k].at = "idle"
    /\ views = Views
    /\ LET inFlight == Waiting("gen") \cup Waiting("mark") # {}
       IN  /\ inFlight \/ Len(jobs) + Cardinality({l \in Tasks : task[l].at = "enqueue"}) < MaxRuns
           /\ task' = [task EXCEPT ![k] =
                IF inFlight THEN [NoTask EXCEPT !.at = "generate"]
                ELSE [NoTask EXCEPT !.at = "enqueue", !.fresh = model.status # "GENERATING"]]
    /\ UNCHANGED <<views, model, jobs, tag, restarts, abandoned>>

\* Both jobs and GENERATING, unless the product was read as GENERATING, are committed.
Enqueue(k) ==
    /\ task[k].at = "enqueue"
    /\ jobs' = Append(jobs, [gen |-> "QUEUED", mark |-> "QUEUED"])
    /\ model' = IF task[k].fresh THEN [model EXCEPT !.status = "GENERATING"] ELSE model
    /\ task' = [task EXCEPT ![k].at = "generate", ![k].fresh = FALSE]
    /\ abandoned' = FALSE
    /\ UNCHANGED <<views, tag, restarts>>

-----------------------------------------------------------------------------
(* The pipeline *)

PickGeneration(k) ==
    /\ task[k].at = "generate"
    /\ task' = [task EXCEPT ![k].run = ActiveJob("gen"),
                            ![k].at = IF ActiveJob("gen") = 0 THEN "mark" ELSE "lock"]
    /\ UNCHANGED <<views, model, jobs, tag, restarts, abandoned>>

\* The advisory lock; the provider is called while it is held.
LockGeneration(k) ==
    /\ task[k].at = "lock"
    /\ \A l \in Tasks : task[l].at # "generating"
    /\ task' = [task EXCEPT ![k].at = "generating"]
    /\ UNCHANGED <<views, model, jobs, tag, restarts, abandoned>>

\* Model and job are committed, which releases the lock.
Generated(k) ==
    /\ task[k].at = "generating"
    /\ jobs' = [jobs EXCEPT ![task[k].run].gen = "DONE"]
    /\ model' = [model EXCEPT !.glb = TRUE]
    /\ task' = [task EXCEPT ![k].at = "mark", ![k].run = 0]
    /\ UNCHANGED <<views, tag, restarts, abandoned>>

\* Mutant: the failed job is recorded and the pipeline goes on.
FailJobOnly(k) ==
    /\ task[k].at = "generating"
    /\ jobs' = [jobs EXCEPT ![task[k].run].gen = "FAILED"]
    /\ task' = [task EXCEPT ![k].at = "mark", ![k].run = 0]
    /\ UNCHANGED <<views, model, tag, restarts, abandoned>>

\* Rollback; _fail_job commits; the exception goes on to run_pipeline.
GenerationFails(k) ==
    /\ task[k].at = "generating"
    /\ jobs' = [jobs EXCEPT ![task[k].run].gen = "FAILED"]
    /\ task' = [task EXCEPT ![k].at = "fail", ![k].run = 0]
    /\ UNCHANGED <<views, model, tag, restarts, abandoned>>

PickMarking(k) ==
    /\ task[k].at = "mark"
    /\ task' = [task EXCEPT ![k].run = ActiveJob("mark"),
                            ![k].at = IF ActiveJob("mark") = 0 THEN "converge" ELSE "flush"]
    /\ UNCHANGED <<views, model, jobs, tag, restarts, abandoned>>

\* The flush of RUNNING locks the job's row, then the older drafts are read.
FlushMarking(k) ==
    /\ task[k].at = "flush"
    /\ \A l \in Tasks : task[l].at = "marking" => task[l].run # task[k].run
    /\ task' = [task EXCEPT ![k].at = "marking", ![k].stale = {t \in Tags : tag[t] = "draft"}]
    /\ UNCHANGED <<views, model, jobs, tag, restarts, abandoned>>

\* The provider has answered: the drafts it read are cleared, new ones go in
\* (none once Tags are used up, a bound).
Marked(k) ==
    /\ task[k].at = "marking"
    /\ LET cleared == [t \in Tags |-> IF t \in task[k].stale THEN "gone" ELSE tag[t]]
           unused == {t \in Tags : tag[t] = "none"}
       IN  IF unused = {} THEN tag' = cleared
           ELSE \E t \in unused : tag' = [cleared EXCEPT ![t] = "draft"]
    /\ jobs' = [jobs EXCEPT ![task[k].run].mark = "DONE"]
    /\ task' = [task EXCEPT ![k].at = "converge", ![k].run = 0, ![k].stale = {}]
    /\ UNCHANGED <<views, model, restarts, abandoned>>

MarkingFails(k) ==
    /\ task[k].at = "marking"
    /\ jobs' = [jobs EXCEPT ![task[k].run].mark = "FAILED"]
    /\ task' = [task EXCEPT ![k].at = "fail", ![k].run = 0, ![k].stale = {}]
    /\ UNCHANGED <<views, model, tag, restarts, abandoned>>

\* Some job of the product of this kind, of whatever click, is DONE.
Done(kind) == \E i \in DOMAIN jobs : jobs[i][kind] = "DONE"

\* READY once some generation and some marking of the product are DONE.
Converge(k) ==
    /\ task[k].at = "converge"
    /\ model' = IF Done("gen") /\ Done("mark") /\ model.glb
                THEN [model EXCEPT !.status = "READY"]
                ELSE model
    /\ task' = [task EXCEPT ![k] = NoTask]
    /\ UNCHANGED <<views, jobs, tag, restarts, abandoned>>

\* Mutant: a failed job is logged and nothing else.
FailQuietly(k) ==
    /\ task[k].at = "fail"
    /\ task' = [task EXCEPT ![k] = NoTask]
    /\ UNCHANGED <<views, model, jobs, tag, restarts, abandoned>>

\* The last-resort guard.
FailProduct(k) ==
    /\ task[k].at = "fail"
    /\ model' = [model EXCEPT !.status = "FAILED"]
    /\ task' = [task EXCEPT ![k] = NoTask]
    /\ UNCHANGED <<views, jobs, tag, restarts, abandoned>>

RestartBackend ==
    /\ restarts < MaxRestarts
    /\ restarts' = restarts + 1
    /\ abandoned' = TRUE
    /\ task' = [k \in Tasks |-> NoTask]
    /\ UNCHANGED <<views, model, jobs, tag>>

-----------------------------------------------------------------------------
(* The editor *)

\* create_annotation
AddTag(t) ==
    /\ tag[t] = "none"
    /\ tag' = [tag EXCEPT ![t] = "verified"]
    /\ UNCHANGED <<views, model, jobs, task, restarts, abandoned>>

\* update_annotation
VerifyTag(t) ==
    /\ tag[t] = "draft"
    /\ tag' = [tag EXCEPT ![t] = "verified"]
    /\ UNCHANGED <<views, model, jobs, task, restarts, abandoned>>

\* delete_annotation
DeleteTag(t) ==
    /\ tag[t] \in {"draft", "verified"}
    /\ tag' = [tag EXCEPT ![t] = "gone"]
    /\ UNCHANGED <<views, model, jobs, task, restarts, abandoned>>

\* set_published: a READY model goes to the guests; it can always be taken back.
Publish ==
    /\ (model.status = "READY" /\ model.glb) \/ model.published
    /\ model' = [model EXCEPT !.published = ~model.published]
    /\ UNCHANGED <<views, jobs, tag, task, restarts, abandoned>>

-----------------------------------------------------------------------------
PipelineStep(k) ==
    \/ Enqueue(k)
    \/ PickGeneration(k) \/ LockGeneration(k) \/ Generated(k) \/ GenerationFails(k)
    \/ PickMarking(k) \/ FlushMarking(k) \/ Marked(k) \/ MarkingFails(k)
    \/ Converge(k) \/ FailProduct(k)

ArNext ==
    \/ \E v \in Views : UploadView(v)
    \/ \E k \in Tasks : Click(k) \/ PipelineStep(k)
    \/ \E t \in Tags : AddTag(t) \/ VerifyTag(t) \/ DeleteTag(t)
    \/ Publish
    \/ RestartBackend

\* A background task that was started runs on; providers answer or time out.
ArFairness == \A k \in Tasks : SF_arVars(PipelineStep(k))

ArSpec == ArInit /\ [][ArNext]_arVars /\ ArFairness

-----------------------------------------------------------------------------
(* Properties *)

\* A pipeline that will say READY if its jobs succeed, or FAILED if one fails.
WillEnd(k) ==
    \/ task[k].at \in {"generate", "lock", "generating", "fail"}
    \/ task[k].at \in {"mark", "flush", "marking"} /\ Done("gen")
    \/ task[k].at = "converge" /\ Done("gen") /\ Done("mark")

(***************************************************************************)
(* run_pipeline: while a product is GENERATING and no restart has lost its *)
(* pipelines, some pipeline, not necessarily the one its jobs were queued  *)
(* with, is on its way to an end of it; none has returned believing that   *)
(* another one would do so.                                                *)
(***************************************************************************)
GenerationAttended ==
    model.status = "GENERATING" /\ ~abandoned => \E k \in Tasks : WillEnd(k)

(***************************************************************************)
(* "so a bug can't wedge the product": GENERATING ends, by whatever        *)
(* pipelines, of this click or another, run the jobs and however they      *)
(* fail.  After a restart it may take two clicks: the first runs the jobs  *)
(* that were left over, and if the process died between the two commits of *)
(* a failure only new jobs end it.                                         *)
(***************************************************************************)
GenerationEnds == model.status = "GENERATING" ~> model.status # "GENERATING" \/ abandoned

=============================================================================
