------------------------------- MODULE Builds -------------------------------
(* How the control plane builds one flavor version: the BuildFlavorVersion  *)
(* call (controlplane/chunk/flavor.go), the image and the checkpoint worker *)
(* (controlplane/worker), the job queue between them (river, external) and  *)
(* the checkpoint API of a platform node (CheckpointAPI).                   *)
EXTENDS Integers, FiniteSets

CONSTANTS Requests,       \* calls of BuildFlavorVersion; each has its own span
          MaxAttempts,    \* river.Config.MaxAttempts (5 in the code)
          MaxMishaps      \* bound: failed steps, timeouts and crashes

ASSUME BuildsAssumption == MaxAttempts \in Nat \ {0} /\ MaxMishaps \in Nat

VARIABLES
    status,         \* flavor_versions.build_status
    uploaded,       \* the change set is in the object store
    filesUploaded,  \* flavor_versions.files_uploaded
    request,        \* where a call of BuildFlavorVersion stands, what it read
    job,            \* river's row of a job and where its Work stands
    base,           \* the image :base is in the registry
    vouched,        \* history: what was there when the version was completed
    mishaps,        \* how many steps failed so far
    answer, pushed, \* of CheckpointAPI: the checkpoint that request's job polls
    fault           \* history: "doubled", calls overlapped or the control plane
                    \* died; "lost", the status did not follow a job's end

(* Only the attempt that asked for a checkpoint knows its id, so the        *)
(* request of the job names it; the next attempt's is a new one.            *)
INSTANCE CheckpointAPI WITH Checkpoints <- Requests

buildVars == <<status, uploaded, filesUploaded, request, job, base, vouched, mishaps,
               fault>>
checkpoint == <<answer, pushed>>
vars == <<buildVars, checkpoint>>

Statuses == {"PENDING", "IMAGE_BUILD", "IMAGE_BUILD_FAILED",
             "CHECKPOINT_BUILD", "CHECKPOINT_BUILD_FAILED", "COMPLETED"}
Building == {"IMAGE_BUILD", "CHECKPOINT_BUILD"}

(* A job is unique by its arguments: the version, which is the only one     *)
(* here, and the span context of the request it goes back to.               *)
Kinds == {"image", "checkpoint"}
Jobs == Kinds \X Requests

Parked(state, attempt) == [state |-> state, attempt |-> attempt, at |-> "none"]
NoJob == Parked("none", 0)
NewJob == Parked("available", 0)

Idle == [at |-> "idle", seen |-> "PENDING", files |-> FALSE]
Returned == [at |-> "returned", seen |-> "PENDING", files |-> FALSE]

BuildInit ==
    /\ status = "PENDING"
    /\ uploaded = FALSE /\ filesUploaded = FALSE
    /\ request = [r \in Requests |-> Idle]
    /\ job = [j \in Jobs |-> NoJob]
    /\ base = FALSE
    /\ vouched = "nothing" /\ mishaps = 0 /\ fault = "none"
    /\ APIInit

(* InsertTx with UniqueOpts: a job with these arguments that is not         *)
(* discarded makes it a no-op.                                              *)
Exists(j) == job[j].state \notin {"none", "discarded"}
Inserted(jobs, j) == IF Exists(j) THEN jobs ELSE [jobs EXCEPT ![j] = NewJob]

(* The ids of these requests' checkpoints are not known to any job. *)
Abandon(R) ==
    /\ answer' = [r \in Requests |-> IF r \in R THEN "unused" ELSE answer[r]]
    /\ pushed' = pushed \ R

Doubled == IF fault = "none" THEN "doubled" ELSE fault

Mishap == mishaps < MaxMishaps /\ mishaps' = mishaps + 1

-----------------------------------------------------------------------------
(* BuildFlavorVersion.  The client may upload at any time. *)
Upload ==
    /\ ~uploaded /\ uploaded' = TRUE
    /\ UNCHANGED <<status, filesUploaded, request, job, base, vouched, fault, mishaps, checkpoint>>

(* The version is read once; what was read is used in the steps after it. *)
FlavorVersionByID(r) ==
    /\ request[r].at = "idle"
    /\ request' = [request EXCEPT ![r] =
                     [at |-> "files", seen |-> status, files |-> filesUploaded]]
    /\ fault' = IF \E q \in Requests : request[q].at \in {"files", "insert"}
                THEN Doubled ELSE fault
    /\ UNCHANGED <<status, uploaded, filesUploaded, job, base, vouched, mishaps, checkpoint>>

(* Mutant of NothingToDo: a checkpoint that is being made is not looked for. *)
NothingToDoMutant(seen) == seen \in {"IMAGE_BUILD", "COMPLETED"}

NothingToDo(seen) == seen \in {"CHECKPOINT_BUILD", "IMAGE_BUILD", "COMPLETED"}

(* The change set must be there and is then marked; the call fails          *)
(* otherwise.                                                               *)
CheckFiles(r) ==
    /\ request[r].at = "files"
    /\ filesUploaded' = (filesUploaded \/ (~request[r].files /\ uploaded))
    /\ request' = [request EXCEPT ![r] =
                     IF (@.files \/ uploaded) /\ ~NothingToDo(@.seen)
                     THEN [at |-> "insert", seen |-> @.seen, files |-> @.files]
                     ELSE Returned]
    /\ UNCHANGED <<status, uploaded, job, base, vouched, fault, mishaps, checkpoint>>

(* Mutant of JobFor: a failed build is resumed with the checkpoint. *)
JobForMutant(seen) ==
    IF seen \in {"CHECKPOINT_BUILD_FAILED", "IMAGE_BUILD_FAILED"} THEN "checkpoint" ELSE "image"

JobFor(seen) == IF seen = "CHECKPOINT_BUILD_FAILED" THEN "checkpoint" ELSE "image"

InsertJob(r) ==
    LET kind == JobFor(request[r].seen)
    IN  /\ request[r].at = "insert"
        /\ request' = [request EXCEPT ![r] = Returned]
        /\ status' = IF kind = "image" THEN "IMAGE_BUILD" ELSE "CHECKPOINT_BUILD"
        /\ job' = Inserted(job, <<kind, r>>)
        /\ UNCHANGED <<uploaded, filesUploaded, base, vouched, fault, mishaps, checkpoint>>

RequestFails(r) ==
    /\ Mishap
    /\ request[r].at \in {"files", "insert"}
    /\ request' = [request EXCEPT ![r] = Returned]
    /\ UNCHANGED <<status, uploaded, filesUploaded, job, base, vouched, fault, checkpoint>>

-----------------------------------------------------------------------------
(* river: a worker takes a job that is available; Work that returned an     *)
(* error is tried again until the attempts are used up.                     *)
Fetch(j) ==
    /\ job[j].state = "available"
    /\ job' = [job EXCEPT ![j] = [state |-> "running", attempt |-> @.attempt + 1,
                                  at |-> "work"]]
    /\ UNCHANGED <<status, uploaded, filesUploaded, request, base, vouched, fault, mishaps, checkpoint>>

(* Mutant of LastAttempt: off by one. *)
LastAttemptOffByOne(j) == job[j].attempt > MaxAttempts

LastAttempt(j) == job[j].attempt = MaxAttempts

Ended(j) == IF LastAttempt(j) THEN Parked("discarded", 0)
            ELSE Parked("available", job[j].attempt)

FailedStatus(j) == IF j[1] = "image" THEN "IMAGE_BUILD_FAILED" ELSE "CHECKPOINT_BUILD_FAILED"

(* Mutant of WorkFailed: the status is only logged. *)
WorkFailedQuietly(j) ==
    /\ job' = [job EXCEPT ![j] = Ended(j)]
    /\ UNCHANGED <<status, fault>>

(* Mutant of WorkFailed: the failure is written on every attempt. *)
WorkFailedEarly(j) ==
    /\ job' = [job EXCEPT ![j] = Ended(j)]
    /\ status' = FailedStatus(j) /\ UNCHANGED fault

(* Work returns an error: on the last attempt the deferred function writes  *)
(* the failure, if the database takes it.                                   *)
WorkFailed(j) ==
    /\ job' = [job EXCEPT ![j] = Ended(j)]
    /\ \/ ~LastAttempt(j) /\ UNCHANGED <<status, fault>>
       \/ LastAttempt(j) /\ status' = FailedStatus(j) /\ UNCHANGED fault
       \/ LastAttempt(j) /\ fault' = "lost" /\ UNCHANGED status

(* The context of the job expires: Work returns, and the update of the      *)
(* deferred function fails on the same context.  A job that is "finished"   *)
(* has committed its result: it may still get the error of the context back *)
(* for it, and is then tried again.                                         *)
Timeout(j) ==
    /\ Mishap
    /\ job[j].state = "running"
    /\ Abandon(IF j[1] = "checkpoint" THEN {j[2]} ELSE {})
    /\ job' = [job EXCEPT ![j] = Ended(j)]
    /\ fault' = IF LastAttempt(j) \/ job[j].at = "finished" THEN "lost" ELSE fault
    /\ UNCHANGED <<status, uploaded, filesUploaded, request, base, vouched>>

(* Work returned nil and river records it. *)
JobCompleted(j) ==
    /\ job[j].state = "running" /\ job[j].at = "finished"
    /\ job' = [job EXCEPT ![j] = Parked("completed", 0)]
    /\ UNCHANGED <<status, uploaded, filesUploaded, request, base, vouched, fault, mishaps, checkpoint>>

(* The control plane dies; river's rescuer finds its jobs much later. *)
Crash ==
    /\ Mishap
    /\ \E j \in Jobs : job[j].state = "running"
    /\ job' = [j \in Jobs |-> IF job[j].state = "running"
                              THEN Parked("orphaned", job[j].attempt) ELSE job[j]]
    /\ request' = [r \in Requests |-> IF request[r].at = "idle" THEN request[r]
                                      ELSE Returned]
    /\ Abandon(Requests)
    /\ fault' = Doubled
    /\ UNCHANGED <<status, uploaded, filesUploaded, base, vouched>>

Rescue(j) ==
    /\ job[j].state = "orphaned"
    /\ job' = [job EXCEPT ![j] = Ended(j)]
    /\ fault' = IF LastAttempt(j) THEN "lost" ELSE fault
    /\ UNCHANGED <<status, uploaded, filesUploaded, request, base, vouched, mishaps, checkpoint>>

-----------------------------------------------------------------------------
(* CreateImageWorker.Work: pull, untar and append the change set, push the  *)
(* image, insert the checkpoint job.                                        *)
Works(j, step) == job[j].state = "running" /\ job[j].at = step
Reached(j, step) == [state |-> "running", attempt |-> job[j].attempt, at |-> step]

PushBase(r) ==
    /\ Works(<<"image", r>>, "work")
    /\ job' = [job EXCEPT ![<<"image", r>>] = Reached(<<"image", r>>, "pushed")]
    /\ base' = TRUE
    /\ UNCHANGED <<status, uploaded, filesUploaded, request, vouched, fault, mishaps, checkpoint>>

InsertCheckpointJob(r) ==
    LET this == <<"image", r>>
        next == <<"checkpoint", r>>
    IN  /\ Works(this, "pushed")
        /\ status' = "CHECKPOINT_BUILD"
        /\ job' = [Inserted(job, next) EXCEPT ![this] = Reached(this, "finished")]
        /\ fault' = IF Exists(next) THEN "lost" ELSE fault
        /\ UNCHANGED <<uploaded, filesUploaded, request, base, vouched, mishaps, checkpoint>>

ImageFails(r) ==
    /\ Mishap
    /\ job[<<"image", r>>].state = "running" /\ job[<<"image", r>>].at \in {"work", "pushed"}
    /\ WorkFailed(<<"image", r>>)
    /\ UNCHANGED <<uploaded, filesUploaded, request, base, vouched, checkpoint>>

(* CreateCheckpointWorker.Work: every attempt asks a node for a checkpoint  *)
(* of its own.  The call may fail; if the node had accepted it, nobody      *)
(* learns the id.                                                           *)
CreateCheckpoint(r) ==
    /\ Works(<<"checkpoint", r>>, "work")
    /\ Accept(r)
    /\ job' = [job EXCEPT ![<<"checkpoint", r>>] = Reached(<<"checkpoint", r>>, "poll")]
    /\ UNCHANGED <<status, uploaded, filesUploaded, request, base, vouched, fault, mishaps>>

CreateFails(r) ==
    /\ Mishap
    /\ Works(<<"checkpoint", r>>, "work")
    /\ WorkFailed(<<"checkpoint", r>>)
    /\ UNCHANGED <<uploaded, filesUploaded, request, base, vouched, checkpoint>>

(* Mutant of Done: whatever is not RUNNING is taken for done. *)
DoneMutant(a) == a # "RUNNING"

Done(a) == a \in {"COMPLETED", "COMPLETED_TOO_EARLY", "COMPLETED_WITH_MESSAGE"}

(* COMPLETED in spite of an error, whose message is there or still to come. *)
HasMessage(a) == a \in {"COMPLETED_TOO_EARLY", "COMPLETED_WITH_MESSAGE"}

(* A poll: RUNNING, and errors other than NotFound, are polled again. *)
PollCompleted(r) ==
    /\ Works(<<"checkpoint", r>>, "poll")
    /\ Done(answer[r])
    /\ status' = "COMPLETED"
    /\ vouched' = IF r \in pushed THEN "image"
                  ELSE IF HasMessage(answer[r]) THEN "error" ELSE "nothing"
    /\ job' = [job EXCEPT ![<<"checkpoint", r>>] = Reached(<<"checkpoint", r>>, "finished")]
    /\ Abandon({r})
    /\ UNCHANGED <<uploaded, filesUploaded, request, base, fault, mishaps>>

(* Mutant of Hopeless: a checkpoint the node does not know is polled again. *)
HopelessMutant(a) == a = "FAILED"

Hopeless(a) == NotFound(a) \/ a = "FAILED"

(* NotFound, a failed checkpoint, or a COMPLETED that the database refuses. *)
PollFails(r) ==
    /\ Works(<<"checkpoint", r>>, "poll")
    /\ \/ Hopeless(answer[r]) /\ UNCHANGED mishaps
       \/ Done(answer[r]) /\ Mishap
    /\ WorkFailed(<<"checkpoint", r>>)
    /\ Abandon({r})
    /\ UNCHANGED <<uploaded, filesUploaded, request, base, vouched>>

ServiceStep == Service /\ UNCHANGED buildVars

Worker(j) ==
    \/ JobCompleted(j)
    \/ /\ j[1] = "image"
       /\ PushBase(j[2]) \/ InsertCheckpointJob(j[2]) \/ ImageFails(j[2])
    \/ /\ j[1] = "checkpoint"
       /\ \/ CreateCheckpoint(j[2]) \/ CreateFails(j[2])
          \/ PollCompleted(j[2]) \/ PollFails(j[2])

Call(r) == FlavorVersionByID(r) \/ CheckFiles(r) \/ InsertJob(r) \/ RequestFails(r)

BuildNext ==
    \/ Upload \/ Crash \/ ServiceStep
    \/ \E r \in Requests : Call(r)
    \/ \E j \in Jobs : Fetch(j) \/ Timeout(j) \/ Rescue(j) \/ Worker(j)

BuildSpec == BuildInit /\ [][BuildNext]_vars

(* River fetches and rescues jobs, workers go on, and the node finishes     *)
(* what it has begun (CheckpointEndsCleanly of Checkpoints).                *)
BuildFairness ==
    /\ \A j \in Jobs : WF_vars(Fetch(j) \/ Rescue(j) \/ Worker(j))
    /\ \A r \in Requests : WF_vars((Begin(r) \/ Settle(r)) /\ UNCHANGED buildVars)

FairBuildSpec == BuildSpec /\ BuildFairness

-----------------------------------------------------------------------------
CallState == [at : {"idle", "files", "insert", "returned"}, seen : Statuses, files : BOOLEAN]
JobRow == [state : {"none", "available", "running", "orphaned", "completed", "discarded"},
           attempt : 0..MaxAttempts,
           at : {"none", "work", "pushed", "poll", "finished"}]

(* Type invariant. *)
TypeOK ==
    /\ status \in Statuses
    /\ uploaded \in BOOLEAN /\ filesUploaded \in BOOLEAN /\ base \in BOOLEAN
    /\ mishaps \in 0..MaxMishaps
    /\ vouched \in {"nothing", "image", "error"} /\ fault \in {"none", "doubled", "lost"}
    /\ request \in [Requests -> CallState]
    /\ job \in [Jobs -> JobRow]
    /\ answer \in [Requests -> Answers] /\ pushed \subseteq Requests

Live(j) == job[j].state \in {"available", "running", "orphaned"}

(* What the comment in BuildFlavorVersion says of the status it looks at,   *)
(* IMAGE_BUILD and CHECKPOINT_BUILD mean that there is a job, holds but for *)
(* a last attempt that could not record its failure (its context had        *)
(* expired, its process had died) and for an image job that was repeated    *)
(* when its checkpoint job already existed.                                 *)
BuildingHasJobUnlessFault ==
    status \in Building => (\E j \in Jobs : Live(j)) \/ fault = "lost"

(* A version is COMPLETED only on the word of a node, and then its image    *)
(* is in the registry, unless the checkpoint had failed with an error that  *)
(* left its state at COMPLETED: the worker looks at the state alone.        *)
CompletedHasImage ==
    status = "COMPLETED" => vouched \in {"image", "error"}

(* No node is asked for a checkpoint before the change set was uploaded and *)
(* the base image pushed, over all retries and resumed builds.              *)
CheckpointNeedsBase ==
    (\E r \in Requests : answer[r] # "unused") => base /\ filesUploaded

(* Calls that do not overlap start one build: two jobs of one version are   *)
(* at work at the same time only if two calls overlapped, or a crash or a   *)
(* timeout had an image job repeated.                                       *)
OneBuildAtATime ==
    \A i, j \in Jobs :
        i # j /\ job[i].state = "running" /\ job[j].state = "running"
              /\ job[i].at # "finished" /\ job[j].at # "finished"
            => fault # "none"

BuildSteps == {<<"PENDING", "IMAGE_BUILD">>,
               <<"IMAGE_BUILD", "IMAGE_BUILD_FAILED">>,
               <<"IMAGE_BUILD", "CHECKPOINT_BUILD">>,
               <<"IMAGE_BUILD_FAILED", "IMAGE_BUILD">>,
               <<"CHECKPOINT_BUILD", "CHECKPOINT_BUILD_FAILED">>,
               <<"CHECKPOINT_BUILD", "COMPLETED">>,
               <<"CHECKPOINT_BUILD_FAILED", "CHECKPOINT_BUILD">>}

(* The status is written by calls and jobs that do not look at it when they *)
(* write (flavor.go:329-356, create_image.go:88-96,189-199,                 *)
(* create_checkpoint.go:89-98,158-162).  Without a fault a client that      *)
(* polls it still sees one build after the other: a stage begins after the  *)
(* one before, fails only when its attempts are used up, is then resumed,   *)
(* and COMPLETED is final.                                                  *)
StatusFollowsBuild ==
    [][fault' = "none" => status' = status \/ <<status, status'>> \in BuildSteps]_vars

(* A build comes to an end: a building status is left again, unless the     *)
(* status did not follow a job's end (create_image.go:80-98,                *)
(* create_checkpoint.go:81-99).                                             *)
BuildSettles == status \in Building ~> status \notin Building \/ fault = "lost"
=============================================================================
