---------------------------- MODULE BuildsProofs ----------------------------
(* Theorems about Builds, for every set of requests, every number of        *)
(* attempts and of mishaps.                                                 *)
EXTENDS Builds, TLAPS

(* Leaves are for Zenon unless they name SMT. *)
USE Zenon

(* A job that is waiting has an attempt left. *)
AttemptInv == \A j \in Jobs : job[j].state = "available" => job[j].attempt < MaxAttempts

TypeInv == TypeOK /\ AttemptInv

LEMMA ParkedTyped ==
    ASSUME NEW s \in {"none", "available", "orphaned", "completed", "discarded"},
           NEW n \in 0..MaxAttempts
    PROVE  /\ Parked(s, n) \in JobRow
           /\ Parked(s, n).state = s /\ Parked(s, n).attempt = n /\ Parked(s, n).at = "none"
BY BuildsAssumption DEF Parked, JobRow

(* The row of a job whose Work returned an error. *)
LEMMA EndedTyped ==
    ASSUME TypeInv, NEW j \in Jobs
    PROVE  /\ Ended(j) \in JobRow /\ Ended(j).at = "none"
           /\ Ended(j).state \in {"available", "discarded"}
           /\ Ended(j).state = "available" => Ended(j).attempt < MaxAttempts
           /\ ~LastAttempt(j) => Ended(j).state = "available"
<1>1. job[j].attempt \in 0..MaxAttempts /\ MaxAttempts \in Nat \ {0} /\ 0 \in 0..MaxAttempts
  BY BuildsAssumption, SMT DEF TypeInv, TypeOK, JobRow
<1>2. CASE LastAttempt(j)
  BY <1>1, <1>2, ParkedTyped, SMT DEF Ended
<1>3. CASE ~LastAttempt(j)
  BY <1>1, <1>3, ParkedTyped, SMT DEF Ended, LastAttempt
<1>. QED
  BY <1>2, <1>3

(* A new job for j, unless there is one. *)
LEMMA InsertedTyped ==
    ASSUME TypeInv, NEW j \in Jobs
    PROVE  /\ Inserted(job, j) \in [Jobs -> JobRow]
           /\ \A i \in Jobs : i # j => Inserted(job, j)[i] = job[i]
           /\ Exists(j) => Inserted(job, j) = job
           /\ ~Exists(j) => Inserted(job, j)[j] = NewJob
           /\ NewJob.state = "available" /\ NewJob.attempt = 0 /\ NewJob.at = "none"
<1>1. NewJob \in JobRow /\ NewJob.state = "available" /\ NewJob.attempt = 0 /\ NewJob.at = "none"
  BY ParkedTyped, BuildsAssumption, SMT DEF NewJob
<1>. QED
  BY <1>1 DEF Inserted, TypeInv, TypeOK

LEMMA TypeInit == BuildInit => TypeInv
<1> SUFFICES ASSUME BuildInit PROVE TypeInv
  OBVIOUS
<1>1. NoJob \in JobRow /\ NoJob.state = "none"
  BY ParkedTyped, BuildsAssumption, SMT DEF NoJob
<1>2. Idle \in CallState
  BY DEF Idle, CallState, Statuses
<1>3. answer \in [Requests -> Answers] /\ pushed \subseteq Requests
  BY DEF BuildInit, APIInit, Answers
<1>4. mishaps \in 0..MaxMishaps
  BY BuildsAssumption, SMT DEF BuildInit
<1>. QED
  BY <1>1, <1>2, <1>3, <1>4 DEF BuildInit, TypeInv, TypeOK, AttemptInv, Statuses
-----------------------------------------------------------------------------
(* The inductive invariant.  A call that has not returned has no job yet;   *)
(* a building status has a job whose result is still to come, not only one  *)
(* that has written it; what a job, a call or the status says of the base   *)
(* image and the files is so; COMPLETED of the API means an image.          *)
RequestInv ==
    \A r \in Requests : request[r].at # "returned" =>
        job[<<"image", r>>].state = "none" /\ job[<<"checkpoint", r>>].state = "none"

Pending(j) == Live(j) /\ job[j].at # "finished"

PendingInv == status \in Building => (\E j \in Jobs : Pending(j)) \/ fault = "lost"

FilesInv ==
    \A r \in Requests :
        \/ filesUploaded
        \/ /\ request[r].at # "insert" /\ ~request[r].files
           /\ job[<<"image", r>>].state = "none" /\ job[<<"checkpoint", r>>].state = "none"
           /\ answer[r] = "unused"

BaseInv ==
    \/ base
    \/ /\ status # "CHECKPOINT_BUILD_FAILED"
       /\ \A r \in Requests :
             /\ request[r].seen # "CHECKPOINT_BUILD_FAILED"
             /\ job[<<"image", r>>].at # "pushed"
             /\ job[<<"checkpoint", r>>].state = "none"
             /\ answer[r] = "unused"

ImageInv ==
    /\ \A r \in Requests : answer[r] = "COMPLETED" => r \in pushed
    /\ CompletedHasImage

IInv == TypeInv /\ RequestInv /\ PendingInv /\ FilesInv /\ BaseInv /\ ImageInv

LEMMA InitIInv == BuildInit => IInv
<1> SUFFICES ASSUME BuildInit PROVE IInv
  OBVIOUS
<1>1. TypeInv
  BY TypeInit
<1>2. NoJob.state = "none" /\ NoJob.at = "none"
  BY DEF NoJob, Parked
<1>3. \A r \in Requests : <<"image", r>> \in Jobs /\ <<"checkpoint", r>> \in Jobs
  BY DEF Jobs, Kinds
<1>4. \A r \in Requests : /\ job[<<"image", r>>] = NoJob /\ job[<<"checkpoint", r>>] = NoJob
                          /\ request[r] = Idle /\ answer[r] = "unused"
  BY <1>3 DEF BuildInit, APIInit
<1>. QED
  BY <1>1, <1>2, <1>4 DEF IInv, RequestInv, PendingInv, FilesInv, BaseInv, ImageInv,
     CompletedHasImage, BuildInit, Idle, Building

(* The steps of the service. *)
LEMMA ServiceIInv ==
    ASSUME IInv, ServiceStep
    PROVE  IInv'
<1> USE DEF IInv
<1> DEFINE Goal ==
      /\ answer' \in [Requests -> Answers] /\ pushed' \subseteq Requests
      /\ \A r \in Requests : (answer'[r] = "unused") = (answer[r] = "unused")
      /\ \A r \in Requests : answer'[r] = "COMPLETED" => r \in pushed'
<1>1. Goal
  <2>0. answer \in [Requests -> Answers] /\ pushed \subseteq Requests
    BY DEF TypeInv, TypeOK
  <2>1. CASE LoseAll
    BY <2>0, <2>1 DEF LoseAll, Answers
  <2>2. CASE Forget
    BY <2>0, <2>2 DEF Forget, Answers, Finished, ImageInv
  <2>3. ASSUME NEW c \in Requests, Begin(c) \/ PushImage(c) \/ AddMessage(c)
        PROVE  Goal
    BY <2>0, <2>3 DEF Begin, PushImage, AddMessage, Becomes, Answers, Finished, ImageInv
  <2>4. ASSUME NEW c \in Requests, Settle(c)
        PROVE  Goal
    <3>1. PICK a \in {"COMPLETED", "COMPLETED_TOO_EARLY", "FAILED"} :
              answer' = [answer EXCEPT ![c] = a] /\ (a = "COMPLETED" => c \in pushed)
      BY <2>4 DEF Settle, Becomes
    <3>2. a \in Answers /\ a # "unused" /\ answer[c] = "RUNNING" /\ pushed' = pushed
      BY <2>4 DEF Settle, Answers, Finished
    <3>. QED
      BY <2>0, <3>1, <3>2 DEF ImageInv
  <2>. QED
    BY <2>1, <2>2, <2>3, <2>4 DEF ServiceStep, Service
<1>2. UNCHANGED <<status, uploaded, filesUploaded, request, job, base, vouched, mishaps, fault>>
  BY DEF ServiceStep, buildVars
<1>3. TypeInv'
  BY <1>1, <1>2 DEF TypeInv, TypeOK, AttemptInv
<1>4. RequestInv' /\ PendingInv'
  BY <1>2 DEF RequestInv, PendingInv, Pending, Live
<1>5. FilesInv' /\ BaseInv' /\ ImageInv'
  BY <1>1, <1>2 DEF FilesInv, BaseInv, ImageInv, CompletedHasImage
<1>. QED
  BY <1>3, <1>4, <1>5

LEMMA AbandonLemma ==
    ASSUME IInv, NEW R, Abandon(R)
    PROVE  /\ answer' \in [Requests -> Answers] /\ pushed' \subseteq Requests
           /\ \A r \in Requests : answer'[r] # "unused" => answer[r] # "unused"
           /\ \A r \in Requests : answer'[r] = "COMPLETED" => r \in pushed'
BY DEF Abandon, Answers, IInv, TypeInv, TypeOK, ImageInv

(* A step of one job that exists and goes on to exist, and what it has to   *)
(* say for itself: its new row, the answers, the status and the fault.      *)
RowMoves(j, row) ==
    /\ job[j].state # "none" /\ job' = [job EXCEPT ![j] = row]
    /\ row \in JobRow /\ row.state # "none"
    /\ row.state = "available" => row.attempt < MaxAttempts
    /\ row.at = "pushed" => base'
    /\ UNCHANGED <<uploaded, request, filesUploaded>>

AnswersMove ==
    /\ answer' \in [Requests -> Answers] /\ pushed' \subseteq Requests
    /\ \A r \in Requests : answer'[r] # "unused" =>
          answer[r] # "unused" \/ (base /\ filesUploaded)
    /\ \A r \in Requests : answer'[r] = "COMPLETED" => r \in pushed'

StatusMoves(j, row) ==
    /\ status' \in Statuses /\ mishaps' \in 0..MaxMishaps
    /\ vouched' \in {"nothing", "image", "error"} /\ fault' \in {"none", "doubled", "lost"}
    /\ base' \in BOOLEAN /\ (base => base')
    /\ status' = "CHECKPOINT_BUILD_FAILED" => base'
    /\ status' = "COMPLETED" => vouched' \in {"image", "error"}
    /\ status' \in Building =>
          \/ fault' = "lost"
          \/ row.state \in {"available", "running", "orphaned"} /\ row.at # "finished"
          \/ status' = status /\ fault' = fault /\ ~Pending(j)

LEMMA JobStep ==
    ASSUME IInv, NEW j \in Jobs, NEW row, RowMoves(j, row), AnswersMove, StatusMoves(j, row)
    PROVE  IInv'
<1>1. job \in [Jobs -> JobRow] /\ job' \in [Jobs -> JobRow] /\ row \in JobRow
  BY DEF IInv, TypeInv, TypeOK, RowMoves
<1>2. \A i \in Jobs : job'[i] = IF i = j THEN row ELSE job[i]
  BY <1>1 DEF RowMoves
<1>3. \A i \in Jobs : job'[i].at = "pushed" => job[i].at = "pushed" \/ base'
  BY <1>2 DEF RowMoves
<1>3a. \A i \in Jobs : job[i].state = "none" => job'[i].state = "none"
  BY <1>2 DEF RowMoves
<1>4. AttemptInv'
  BY <1>2 DEF AttemptInv, IInv, TypeInv, RowMoves
<1>5. \A r \in Requests : <<"image", r>> \in Jobs /\ <<"checkpoint", r>> \in Jobs
  BY DEF Jobs, Kinds
<1>6. RequestInv'
  BY <1>3a, <1>5 DEF IInv, RequestInv, RowMoves
<1>7. FilesInv'
  <2>1. CASE filesUploaded
    BY <2>1 DEF FilesInv, RowMoves
  <2>2. ASSUME ~filesUploaded, NEW r \in Requests
        PROVE  /\ request'[r].at # "insert" /\ ~request'[r].files
               /\ job'[<<"image", r>>].state = "none" /\ job'[<<"checkpoint", r>>].state = "none"
               /\ answer'[r] = "unused"
    <3>1. request' = request
      BY DEF RowMoves
    <3>2. request'[r].at # "insert" /\ ~request'[r].files
      BY <2>2, <3>1 DEF IInv, FilesInv
    <3>3. job[<<"image", r>>].state = "none" /\ job[<<"checkpoint", r>>].state = "none"
      BY <2>2 DEF IInv, FilesInv
    <3>4. answer[r] = "unused"
      BY <2>2 DEF IInv, FilesInv
    <3>5. answer'[r] = "unused"
      BY <2>2, <3>4 DEF AnswersMove
    <3>6. job'[<<"image", r>>].state = "none" /\ job'[<<"checkpoint", r>>].state = "none"
      BY <1>3a, <1>5, <3>3
    <3>. QED
      BY <3>2, <3>5, <3>6, Zenon
  <2>. QED
    BY <2>1, <2>2 DEF FilesInv
<1>8. BaseInv'
  <2>1. CASE base
    BY <2>1 DEF BaseInv, StatusMoves
  <2>2. CASE base'
    BY <2>2 DEF BaseInv
  <2>3. CASE ~base /\ ~base'
    BY <1>3, <1>3a, <1>5, <2>3 DEF IInv, BaseInv, RowMoves, AnswersMove, StatusMoves
  <2>. QED
    BY <2>1, <2>2, <2>3
<1>9. PendingInv'
  BY <1>2 DEF IInv, PendingInv, Pending, Live, StatusMoves
<1>10. TypeOK'
  BY <1>1 DEF IInv, TypeInv, TypeOK, RowMoves, AnswersMove, StatusMoves
<1>11. ImageInv'
  BY DEF ImageInv, CompletedHasImage, AnswersMove, StatusMoves
<1>. QED
  BY <1>4, <1>6, <1>7, <1>8, <1>9, <1>10, <1>11 DEF IInv, TypeInv

(* What a job that exists says of the files and of the base image. *)
LEMMA JobNeeds ==
    ASSUME IInv, NEW j \in Jobs, job[j].state # "none"
    PROVE  /\ filesUploaded
           /\ j[1] = "checkpoint" \/ job[j].at = "pushed" => base
<1> USE DEF IInv
<1>1. PICK k \in Kinds, r \in Requests : j = <<k, r>>
  BY SMT DEF Jobs
<1>2. CASE k = "image"
  BY <1>1, <1>2 DEF FilesInv, BaseInv
<1>3. CASE k = "checkpoint"
  BY <1>1, <1>3 DEF FilesInv, BaseInv
<1>. QED
  BY <1>1, <1>2, <1>3 DEF Kinds

-----------------------------------------------------------------------------
(* The steps of the jobs. *)
LEMMA MishapTyped == ASSUME TypeInv, Mishap PROVE mishaps' \in 0..MaxMishaps
BY BuildsAssumption, SMT DEF Mishap, TypeInv, TypeOK

LEMMA SameAnswers == ASSUME IInv, UNCHANGED <<answer, pushed>> PROVE AnswersMove
BY DEF AnswersMove, IInv, TypeInv, TypeOK, ImageInv

LEMMA FetchIInv == ASSUME IInv, NEW j \in Jobs, Fetch(j) PROVE IInv'
<1> DEFINE row == [state |-> "running", attempt |-> job[j].attempt + 1, at |-> "work"]
<1>1. row \in JobRow /\ row.state = "running" /\ row.at = "work"
  BY BuildsAssumption, SMT DEF Fetch, IInv, TypeInv, TypeOK, AttemptInv, JobRow
<1>2. job' = [job EXCEPT ![j] = row] /\ job[j].state = "available"
  BY DEF Fetch
<1>3. UNCHANGED <<status, uploaded, filesUploaded, request, base, vouched, fault, mishaps,
                  answer, pushed>>
  BY DEF Fetch, checkpoint
<1> HIDE DEF row
<1>4. RowMoves(j, row)
  BY <1>1, <1>2, <1>3 DEF RowMoves
<1>5. StatusMoves(j, row)
  BY <1>1, <1>3 DEF StatusMoves, IInv, TypeInv, TypeOK, BaseInv, ImageInv, CompletedHasImage
<1>. QED
  BY <1>3, <1>4, <1>5, JobStep, SameAnswers

(* Work that failed, was cut off or was rescued: the row is Ended(j). *)
LEMMA EndedMoves ==
    ASSUME IInv, NEW j \in Jobs, job[j].state # "none", job' = [job EXCEPT ![j] = Ended(j)],
           UNCHANGED <<uploaded, request, filesUploaded>>
    PROVE  RowMoves(j, Ended(j))
BY EndedTyped DEF RowMoves, IInv

LEMMA FailedMoves ==
    ASSUME IInv, NEW j \in Jobs, job[j].state # "none", WorkFailed(j),
           UNCHANGED <<base, vouched>>, mishaps' \in 0..MaxMishaps
    PROVE  StatusMoves(j, Ended(j))
<1>1. j[1] \in {"image", "checkpoint"} /\ (j[1] = "checkpoint" => base)
  BY JobNeeds DEF Jobs, Kinds
<1>2. /\ status \in Statuses /\ fault \in {"none", "doubled", "lost"}
      /\ vouched \in {"nothing", "image", "error"} /\ base \in BOOLEAN
      /\ status = "CHECKPOINT_BUILD_FAILED" => base
      /\ status = "COMPLETED" => vouched \in {"image", "error"}
  BY DEF IInv, TypeInv, TypeOK, BaseInv, ImageInv, CompletedHasImage
<1>3. CASE ~LastAttempt(j) /\ UNCHANGED <<status, fault>>
  BY <1>2, <1>3, EndedTyped DEF StatusMoves, IInv
<1>4. CASE status' = FailedStatus(j) /\ UNCHANGED fault
  BY <1>1, <1>2, <1>4 DEF StatusMoves, FailedStatus, Statuses, Building
<1>5. CASE fault' = "lost" /\ UNCHANGED status
  BY <1>2, <1>5 DEF StatusMoves
<1>. QED
  BY <1>3, <1>4, <1>5 DEF WorkFailed

LEMMA TimeoutIInv == ASSUME IInv, NEW j \in Jobs, Timeout(j) PROVE IInv'
<1>1. RowMoves(j, Ended(j))
  BY EndedMoves DEF Timeout
<1>2. AnswersMove
  BY AbandonLemma DEF Timeout, AnswersMove
<1>3. mishaps' \in 0..MaxMishaps
  BY MishapTyped DEF Timeout, IInv
<1>4. StatusMoves(j, Ended(j))
  BY <1>3, EndedTyped DEF StatusMoves, Timeout, IInv, TypeInv, TypeOK, BaseInv, ImageInv,
     CompletedHasImage
<1>. QED
  BY <1>1, <1>2, <1>4, JobStep

LEMMA RescueIInv == ASSUME IInv, NEW j \in Jobs, Rescue(j) PROVE IInv'
<1>1. RowMoves(j, Ended(j))
  BY EndedMoves DEF Rescue
<1>2. AnswersMove
  BY SameAnswers DEF Rescue, checkpoint
<1>4. StatusMoves(j, Ended(j))
  BY EndedTyped DEF StatusMoves, Rescue, IInv, TypeInv, TypeOK, BaseInv, ImageInv,
     CompletedHasImage
<1>. QED
  BY <1>1, <1>2, <1>4, JobStep

LEMMA JobCompletedIInv == ASSUME IInv, NEW j \in Jobs, JobCompleted(j) PROVE IInv'
<1> DEFINE row == Parked("completed", 0)
<1>1. row \in JobRow /\ row.state = "completed" /\ row.at = "none"
  BY ParkedTyped, BuildsAssumption, SMT
<1> HIDE DEF row
<1>2. RowMoves(j, row)
  BY <1>1 DEF RowMoves, JobCompleted, row
<1>3. AnswersMove
  BY SameAnswers DEF JobCompleted, checkpoint
<1>4. StatusMoves(j, row)
  BY DEF StatusMoves, JobCompleted, Pending, IInv, TypeInv, TypeOK, BaseInv, ImageInv,
     CompletedHasImage
<1>. QED
  BY <1>2, <1>3, <1>4, JobStep

(* Work that goes on: the row is Reached(j, step). *)
LEMMA ReachedMoves ==
    ASSUME IInv, NEW j \in Jobs, NEW step \in {"pushed", "poll", "finished"},
           job[j].state # "none", job' = [job EXCEPT ![j] = Reached(j, step)],
           step = "pushed" => base',
           UNCHANGED <<uploaded, request, filesUploaded>>
    PROVE  /\ RowMoves(j, Reached(j, step))
           /\ Reached(j, step).state = "running" /\ Reached(j, step).at = step
<1>1. Reached(j, step) \in JobRow
  BY DEF Reached, JobRow, IInv, TypeInv, TypeOK
<1>2. Reached(j, step).state = "running" /\ Reached(j, step).at = step
  BY DEF Reached
<1>. QED
  BY <1>1, <1>2 DEF RowMoves

LEMMA PushBaseIInv == ASSUME IInv, NEW r \in Requests, PushBase(r) PROVE IInv'
<1> DEFINE j == <<"image", r>>
<1>1. j \in Jobs
  BY DEF Jobs, Kinds
<1>2. job[j].state # "none" /\ job' = [job EXCEPT ![j] = Reached(j, "pushed")]
  BY DEF PushBase, Works
<1>3. base' = TRUE /\ UNCHANGED <<status, uploaded, filesUploaded, request, vouched, fault,
                                  mishaps, answer, pushed>>
  BY DEF PushBase, checkpoint
<1> HIDE DEF j
<1>4. RowMoves(j, Reached(j, "pushed")) /\ Reached(j, "pushed").at = "pushed"
      /\ Reached(j, "pushed").state = "running"
  BY <1>1, <1>2, <1>3, ReachedMoves
<1>5. StatusMoves(j, Reached(j, "pushed"))
  BY <1>3, <1>4 DEF StatusMoves, IInv, TypeInv, TypeOK, ImageInv, CompletedHasImage
<1>. QED
  BY <1>1, <1>3, <1>4, <1>5, SameAnswers, JobStep

LEMMA ImageFailsIInv == ASSUME IInv, NEW r \in Requests, ImageFails(r) PROVE IInv'
<1> DEFINE j == <<"image", r>>
<1>1. j \in Jobs
  BY DEF Jobs, Kinds
<1>2. job[j].state # "none" /\ WorkFailed(j) /\ job' = [job EXCEPT ![j] = Ended(j)]
  BY DEF ImageFails, WorkFailed
<1>3. UNCHANGED <<uploaded, filesUploaded, request, base, vouched, answer, pushed>>
  BY DEF ImageFails, checkpoint
<1>4. mishaps' \in 0..MaxMishaps
  BY MishapTyped DEF ImageFails, IInv
<1> HIDE DEF j
<1>5. RowMoves(j, Ended(j)) /\ StatusMoves(j, Ended(j))
  BY <1>1, <1>2, <1>3, <1>4, EndedMoves, FailedMoves
<1>. QED
  BY <1>1, <1>3, <1>5, SameAnswers, JobStep

LEMMA CreateFailsIInv == ASSUME IInv, NEW r \in Requests, CreateFails(r) PROVE IInv'
<1> DEFINE j == <<"checkpoint", r>>
<1>1. j \in Jobs
  BY DEF Jobs, Kinds
<1>2. job[j].state # "none" /\ WorkFailed(j) /\ job' = [job EXCEPT ![j] = Ended(j)]
  BY DEF CreateFails, WorkFailed, Works
<1>3. UNCHANGED <<uploaded, filesUploaded, request, base, vouched, answer, pushed>>
  BY DEF CreateFails, checkpoint
<1>4. mishaps' \in 0..MaxMishaps
  BY MishapTyped DEF CreateFails, IInv
<1> HIDE DEF j
<1>5. RowMoves(j, Ended(j)) /\ StatusMoves(j, Ended(j))
  BY <1>1, <1>2, <1>3, <1>4, EndedMoves, FailedMoves
<1>. QED
  BY <1>1, <1>3, <1>5, SameAnswers, JobStep

LEMMA PollFailsIInv == ASSUME IInv, NEW r \in Requests, PollFails(r) PROVE IInv'
<1> DEFINE j == <<"checkpoint", r>>
<1>1. j \in Jobs
  BY DEF Jobs, Kinds
<1>2. job[j].state # "none" /\ WorkFailed(j) /\ job' = [job EXCEPT ![j] = Ended(j)]
  BY DEF PollFails, WorkFailed, Works
<1>3. UNCHANGED <<uploaded, filesUploaded, request, base, vouched>>
  BY DEF PollFails
<1>4. mishaps' \in 0..MaxMishaps
  BY MishapTyped DEF PollFails, IInv, TypeInv, TypeOK
<1>5. AnswersMove
  BY AbandonLemma DEF PollFails, AnswersMove
<1> HIDE DEF j
<1>6. RowMoves(j, Ended(j)) /\ StatusMoves(j, Ended(j))
  BY <1>1, <1>2, <1>3, <1>4, EndedMoves, FailedMoves
<1>. QED
  BY <1>1, <1>5, <1>6, JobStep

LEMMA CreateCheckpointIInv == ASSUME IInv, NEW r \in Requests, CreateCheckpoint(r) PROVE IInv'
<1> DEFINE j == <<"checkpoint", r>>
<1>1. j \in Jobs /\ j[1] = "checkpoint"
  BY DEF Jobs, Kinds
<1>2. job[j].state # "none" /\ job' = [job EXCEPT ![j] = Reached(j, "poll")]
  BY DEF CreateCheckpoint, Works
<1>3. UNCHANGED <<status, uploaded, filesUploaded, request, base, vouched, fault, mishaps>>
  BY DEF CreateCheckpoint
<1>4. answer' = [answer EXCEPT ![r] = "accepted"] /\ pushed' = pushed
  BY DEF CreateCheckpoint, Accept, Becomes
<1> HIDE DEF j
<1>5. base /\ filesUploaded
  BY <1>1, <1>2, JobNeeds
<1>6. AnswersMove
  BY <1>4, <1>5 DEF AnswersMove, Answers, IInv, TypeInv, TypeOK, ImageInv
<1>7. RowMoves(j, Reached(j, "poll")) /\ Reached(j, "poll").at = "poll"
      /\ Reached(j, "poll").state = "running"
  BY <1>1, <1>2, <1>3, ReachedMoves
<1>8. StatusMoves(j, Reached(j, "poll"))
  BY <1>3, <1>7 DEF StatusMoves, IInv, TypeInv, TypeOK, BaseInv, ImageInv, CompletedHasImage
<1>. QED
  BY <1>1, <1>6, <1>7, <1>8, JobStep

(* COMPLETED of the API means an image, so does COMPLETED of the version. *)
LEMMA PollCompletedIInv == ASSUME IInv, NEW r \in Requests, PollCompleted(r) PROVE IInv'
<1> DEFINE j == <<"checkpoint", r>>
<1>1. j \in Jobs
  BY DEF Jobs, Kinds
<1>2. job[j].state # "none" /\ job' = [job EXCEPT ![j] = Reached(j, "finished")]
  BY DEF PollCompleted, Works
<1>3. status' = "COMPLETED" /\ UNCHANGED <<uploaded, filesUploaded, request, base, fault, mishaps>>
  BY DEF PollCompleted
<1>4. vouched' \in {"image", "error"}
  BY DEF PollCompleted, Done, HasMessage, IInv, ImageInv
<1>5. AnswersMove
  BY AbandonLemma DEF PollCompleted, AnswersMove
<1> HIDE DEF j
<1>6. RowMoves(j, Reached(j, "finished"))
  BY <1>1, <1>2, <1>3, ReachedMoves
<1>7. StatusMoves(j, Reached(j, "finished"))
  BY <1>3, <1>4 DEF StatusMoves, IInv, TypeInv, TypeOK, Statuses, Building
<1>. QED
  BY <1>1, <1>5, <1>6, <1>7, JobStep

(* The row of the image job changes and that of the checkpoint job may appear. *)
LEMMA InsertCheckpointJobIInv ==
    ASSUME IInv, NEW r \in Requests, InsertCheckpointJob(r)
    PROVE  IInv'
<1> DEFINE this == <<"image", r>>
           next == <<"checkpoint", r>>
           row == Reached(this, "finished")
<1>1. this \in Jobs /\ next \in Jobs /\ this # next
  BY DEF Jobs, Kinds
<1>2. /\ job[this].state = "running" /\ job[this].at = "pushed"
      /\ status' = "CHECKPOINT_BUILD"
      /\ job' = [Inserted(job, next) EXCEPT ![this] = row]
      /\ fault' = IF Exists(next) THEN "lost" ELSE fault
      /\ UNCHANGED <<uploaded, filesUploaded, request, base, vouched, mishaps, answer, pushed>>
  BY DEF InsertCheckpointJob, Works, checkpoint
<1>3. row \in JobRow /\ row.state = "running" /\ row.at = "finished"
  BY <1>1, <1>2 DEF Reached, JobRow, IInv, TypeInv, TypeOK
<1> HIDE DEF this, row
<1>4. base /\ filesUploaded
  BY <1>1, <1>2, JobNeeds
<1>5. request[r].at = "returned"
  BY <1>2 DEF IInv, RequestInv, this
<1>6. /\ job' \in [Jobs -> JobRow]
      /\ \A i \in Jobs : i \notin {this, next} => job'[i] = job[i]
      /\ job'[this] = row
      /\ job'[next] \in {job[next], NewJob}
      /\ ~Exists(next) => job'[next] = NewJob
      /\ NewJob.state = "available" /\ NewJob.attempt = 0 /\ NewJob.at = "none"
  <2> HIDE DEF next
  <2>. QED
    BY <1>1, <1>2, <1>3, InsertedTyped DEF IInv
<1>7. TypeInv'
  <2>1. TypeOK'
    BY <1>2, <1>6 DEF IInv, TypeInv, TypeOK, Statuses
  <2>2. AttemptInv'
    BY <1>1, <1>3, <1>6, BuildsAssumption, SMT DEF IInv, TypeInv, AttemptInv
  <2>. QED
    BY <2>1, <2>2 DEF TypeInv
<1>8. RequestInv'
  <2> SUFFICES ASSUME NEW q \in Requests, request[q].at # "returned"
               PROVE  /\ job'[<<"image", q>>].state = "none"
                      /\ job'[<<"checkpoint", q>>].state = "none"
    BY <1>2 DEF RequestInv
  <2>1. q # r /\ <<"image", q>> \in Jobs /\ <<"checkpoint", q>> \in Jobs
    BY <1>5 DEF Jobs, Kinds
  <2>. QED
    BY <1>6, <2>1 DEF IInv, RequestInv, this
<1>9. PendingInv'
  BY <1>1, <1>2, <1>6 DEF PendingInv, Pending, Live
<1>10. FilesInv' /\ BaseInv' /\ ImageInv'
  BY <1>2, <1>4 DEF FilesInv, BaseInv, ImageInv, CompletedHasImage, IInv
<1>. QED
  BY <1>7, <1>8, <1>9, <1>10 DEF IInv

LEMMA CrashIInv == ASSUME IInv, Crash PROVE IInv'
<1>1. job \in [Jobs -> JobRow] /\ request \in [Requests -> CallState]
  BY DEF IInv, TypeInv, TypeOK
<1>2. \A i \in Jobs : job'[i] = IF job[i].state = "running"
                               THEN Parked("orphaned", job[i].attempt) ELSE job[i]
  BY DEF Crash
<1>3. \A i \in Jobs : job[i].state = "running" =>
          /\ job'[i] \in JobRow /\ job'[i].state = "orphaned" /\ job'[i].at = "none"
  BY <1>1, <1>2, ParkedTyped, SMT DEF JobRow
<1>4. job' \in [Jobs -> JobRow]
  BY <1>1, <1>2, <1>3 DEF Crash
<1>5. /\ Returned \in CallState /\ Returned.at = "returned"
      /\ Returned.seen = "PENDING" /\ Returned.files = FALSE
  BY DEF Returned, CallState, Statuses
<1>6. /\ request' \in [Requests -> CallState]
      /\ \A r \in Requests : request'[r] = request[r] \/ request'[r] = Returned
  BY <1>1, <1>5 DEF Crash
<1>7. /\ answer' \in [Requests -> Answers] /\ pushed' \subseteq Requests
      /\ \A r \in Requests : answer'[r] # "unused" => answer[r] # "unused"
      /\ \A r \in Requests : answer'[r] = "COMPLETED" => r \in pushed'
  BY AbandonLemma DEF Crash
<1>8. UNCHANGED <<status, uploaded, filesUploaded, base, vouched>> /\ mishaps' \in 0..MaxMishaps
  BY MishapTyped DEF Crash, IInv
<1>9. fault' \in {"none", "doubled", "lost"} /\ (fault = "lost" => fault' = "lost")
  BY DEF Crash, Doubled, IInv, TypeInv, TypeOK
<1>10. TypeInv'
  <2>1. AttemptInv'
    BY <1>2, <1>3 DEF AttemptInv, IInv, TypeInv
  <2>. QED
    BY <1>4, <1>6, <1>7, <1>8, <1>9, <2>1 DEF IInv, TypeInv, TypeOK
<1>11. \A r \in Requests : <<"image", r>> \in Jobs /\ <<"checkpoint", r>> \in Jobs
  BY DEF Jobs, Kinds
<1>12. \A i \in Jobs : job[i].state = "none" => job'[i].state = "none"
  BY <1>2
<1>12a. \A i \in Jobs : job[i].at # "pushed" => job'[i].at # "pushed"
  BY <1>2, <1>3
<1>13. RequestInv'
  BY <1>5, <1>6, <1>11, <1>12 DEF IInv, RequestInv
<1>14. PendingInv'
  BY <1>2, <1>3, <1>8, <1>9 DEF IInv, PendingInv, Pending, Live
<1>15. FilesInv'
  <2>1. CASE filesUploaded
    BY <1>8, <2>1 DEF FilesInv
  <2>2. ASSUME ~filesUploaded, NEW r \in Requests
        PROVE  /\ request'[r].at # "insert" /\ ~request'[r].files
               /\ job'[<<"image", r>>].state = "none" /\ job'[<<"checkpoint", r>>].state = "none"
               /\ answer'[r] = "unused"
    <3>1. request'[r].at # "insert" /\ ~request'[r].files
      BY <1>5, <1>6, <2>2 DEF IInv, FilesInv
    <3>2. job'[<<"image", r>>].state = "none" /\ job'[<<"checkpoint", r>>].state = "none"
      BY <1>11, <1>12, <2>2 DEF IInv, FilesInv
    <3>3. answer'[r] = "unused"
      BY <1>7, <2>2 DEF IInv, FilesInv
    <3>. QED
      BY <3>1, <3>2, <3>3
  <2>. QED
    BY <2>1, <2>2 DEF FilesInv
<1>16. BaseInv'
  <2>1. CASE base
    BY <1>8, <2>1 DEF BaseInv
  <2>2. CASE ~base
    BY <1>5, <1>6, <1>7, <1>8, <1>11, <1>12, <1>12a, <2>2 DEF IInv, BaseInv
  <2>. QED
    BY <2>1, <2>2
<1>17. ImageInv'
  BY <1>7, <1>8 DEF IInv, ImageInv, CompletedHasImage
<1>. QED
  BY <1>10, <1>13, <1>14, <1>15, <1>16, <1>17 DEF IInv

-----------------------------------------------------------------------------
(* The steps of the calls. *)
LEMMA UploadIInv == ASSUME IInv, Upload PROVE IInv'
<1>1. UNCHANGED <<status, filesUploaded, request, job, base, vouched, fault, mishaps, answer, pushed>>
      /\ uploaded' = TRUE
  BY DEF Upload, checkpoint
<1>2. TypeInv' /\ RequestInv' /\ PendingInv'
  BY <1>1 DEF IInv, TypeInv, TypeOK, AttemptInv, RequestInv, PendingInv, Pending, Live
<1>3. FilesInv' /\ BaseInv' /\ ImageInv'
  BY <1>1 DEF IInv, FilesInv, BaseInv, ImageInv, CompletedHasImage
<1>. QED
  BY <1>2, <1>3 DEF IInv

(* A step of a call that leaves the jobs alone. *)
LEMMA CallStep ==
    ASSUME IInv, NEW r \in Requests, NEW row \in CallState,
           request[r].at # "returned" \/ row.at = "returned",
           request' = [request EXCEPT ![r] = row],
           filesUploaded' \in BOOLEAN, filesUploaded => filesUploaded',
           (row.at = "insert" => filesUploaded'), (row.files => filesUploaded'),
           row.seen = "CHECKPOINT_BUILD_FAILED" => base,
           fault' \in {"none", "doubled", "lost"}, fault = "lost" => fault' = "lost",
           mishaps' \in 0..MaxMishaps,
           UNCHANGED <<status, uploaded, job, base, vouched, answer, pushed>>
    PROVE  IInv'
<1>1. request \in [Requests -> CallState] /\ request' \in [Requests -> CallState]
  BY DEF IInv, TypeInv, TypeOK
<1>2. \A q \in Requests : request'[q] = IF q = r THEN row ELSE request[q]
  BY <1>1
<1>3. TypeInv'
  BY <1>1 DEF IInv, TypeInv, TypeOK, AttemptInv
<1>4. RequestInv'
  BY <1>2 DEF IInv, RequestInv
<1>5. PendingInv'
  BY DEF IInv, PendingInv, Pending, Live
<1>6. FilesInv'
  <2>1. CASE filesUploaded'
    BY <2>1 DEF FilesInv
  <2>2. ASSUME ~filesUploaded', NEW q \in Requests
        PROVE  /\ request'[q].at # "insert" /\ ~request'[q].files
               /\ job'[<<"image", q>>].state = "none" /\ job'[<<"checkpoint", q>>].state = "none"
               /\ answer'[q] = "unused"
    <3>1. /\ ~filesUploaded /\ request[q].at # "insert" /\ ~request[q].files
          /\ job[<<"image", q>>].state = "none" /\ job[<<"checkpoint", q>>].state = "none"
          /\ answer[q] = "unused"
      BY <2>2 DEF IInv, FilesInv
    <3>. QED
      BY <1>2, <2>2, <3>1
  <2>. QED
    BY <2>1, <2>2 DEF FilesInv
<1>7. BaseInv'
  <2>1. CASE base
    BY <2>1 DEF BaseInv
  <2>2. CASE ~base
    BY <1>2, <2>2 DEF IInv, BaseInv
  <2>. QED
    BY <2>1, <2>2
<1>8. ImageInv'
  BY DEF IInv, ImageInv, CompletedHasImage
<1>. QED
  BY <1>3, <1>4, <1>5, <1>6, <1>7, <1>8 DEF IInv

LEMMA ReturnedTyped ==
    /\ Returned \in CallState /\ Returned.at = "returned" /\ Returned.seen = "PENDING"
    /\ Returned.files = FALSE
BY DEF Returned, CallState, Statuses

LEMMA FlavorVersionByIDIInv ==
    ASSUME IInv, NEW r \in Requests, FlavorVersionByID(r)
    PROVE  IInv'
<1> DEFINE row == [at |-> "files", seen |-> status, files |-> filesUploaded]
<1>1. row \in CallState /\ row.at = "files" /\ row.seen = status /\ row.files = filesUploaded
  BY DEF CallState, IInv, TypeInv, TypeOK
<1>2. request[r].at # "returned" /\ request' = [request EXCEPT ![r] = row]
  BY DEF FlavorVersionByID
<1>3. /\ fault' \in {"none", "doubled", "lost"} /\ (fault = "lost" => fault' = "lost")
      /\ mishaps' \in 0..MaxMishaps
  BY DEF FlavorVersionByID, Doubled, IInv, TypeInv, TypeOK
<1>4. UNCHANGED <<status, uploaded, job, base, vouched, answer, pushed, filesUploaded>>
  BY DEF FlavorVersionByID, checkpoint
<1>5. filesUploaded' \in BOOLEAN /\ (status = "CHECKPOINT_BUILD_FAILED" => base)
  BY <1>4 DEF IInv, TypeInv, TypeOK, BaseInv
<1>6. (filesUploaded => filesUploaded') /\ (row.files => filesUploaded')
  BY <1>1, <1>4
<1> HIDE DEF row
<1>. QED
  BY <1>1, <1>2, <1>3, <1>4, <1>5, <1>6, CallStep

LEMMA RequestFailsIInv == ASSUME IInv, NEW r \in Requests, RequestFails(r) PROVE IInv'
<1>1. mishaps' \in 0..MaxMishaps
  BY MishapTyped DEF RequestFails, IInv
<1>2. request' = [request EXCEPT ![r] = Returned]
      /\ UNCHANGED <<status, uploaded, job, base, vouched, answer, pushed, filesUploaded, fault>>
  BY DEF RequestFails, checkpoint
<1>3. /\ filesUploaded' \in BOOLEAN /\ (filesUploaded => filesUploaded')
      /\ fault' \in {"none", "doubled", "lost"} /\ (fault = "lost" => fault' = "lost")
  BY <1>2 DEF IInv, TypeInv, TypeOK
<1>. QED
  BY <1>1, <1>2, <1>3, ReturnedTyped, CallStep

(* The files are marked before the call goes on to insert a job. *)
LEMMA CheckFilesIInv == ASSUME IInv, NEW r \in Requests, CheckFiles(r) PROVE IInv'
<1> DEFINE go == [at |-> "insert", seen |-> request[r].seen, files |-> request[r].files]
<1>1. /\ request \in [Requests -> CallState] /\ uploaded \in BOOLEAN /\ filesUploaded \in BOOLEAN
      /\ request[r].files \in BOOLEAN /\ request[r].seen \in Statuses
  BY DEF IInv, TypeInv, TypeOK, CallState
<1>2. /\ request[r].at # "returned"
      /\ filesUploaded' = (filesUploaded \/ (~request[r].files /\ uploaded))
      /\ UNCHANGED <<status, uploaded, job, base, vouched, answer, pushed, fault, mishaps>>
  BY DEF CheckFiles, checkpoint
<1>3. \/ request' = [request EXCEPT ![r] = Returned]
      \/ request' = [request EXCEPT ![r] = go] /\ (request[r].files \/ uploaded)
  BY <1>1 DEF CheckFiles
<1>4. go \in CallState /\ go.seen = request[r].seen /\ go.files = request[r].files
  BY <1>1 DEF CallState
<1>5. (request[r].seen = "CHECKPOINT_BUILD_FAILED" => base) /\ (request[r].files => filesUploaded)
  BY DEF IInv, BaseInv, FilesInv
<1>6. /\ filesUploaded' \in BOOLEAN /\ (filesUploaded => filesUploaded')
      /\ (request[r].files => filesUploaded')
      /\ (request[r].files \/ uploaded => filesUploaded')
  BY <1>1, <1>2, <1>5
<1>7. /\ fault' \in {"none", "doubled", "lost"} /\ (fault = "lost" => fault' = "lost")
      /\ mishaps' \in 0..MaxMishaps
  BY <1>2 DEF IInv, TypeInv, TypeOK
<1> HIDE DEF go
<1>8. CASE request' = [request EXCEPT ![r] = Returned]
  BY <1>2, <1>6, <1>7, <1>8, ReturnedTyped, CallStep
<1>9. CASE request' = [request EXCEPT ![r] = go] /\ (request[r].files \/ uploaded)
  <2>1. filesUploaded' /\ (go.files => filesUploaded') /\ (go.seen = "CHECKPOINT_BUILD_FAILED" => base)
    BY <1>4, <1>5, <1>6, <1>9
  <2>. QED
    BY <1>2, <1>4, <1>6, <1>7, <1>9, <2>1, CallStep
<1>. QED
  BY <1>3, <1>8, <1>9

(* The call has no job yet, so the one it inserts is new. *)
LEMMA InsertJobIInv == ASSUME IInv, NEW r \in Requests, InsertJob(r) PROVE IInv'
<1> DEFINE kind == JobFor(request[r].seen)
           j == <<kind, r>>
<1>1. /\ request[r].at = "insert" /\ request' = [request EXCEPT ![r] = Returned]
      /\ status' = IF kind = "image" THEN "IMAGE_BUILD" ELSE "CHECKPOINT_BUILD"
      /\ job' = Inserted(job, j)
      /\ UNCHANGED <<uploaded, filesUploaded, base, vouched, fault, mishaps, answer, pushed>>
  BY DEF InsertJob, checkpoint
<1>2. kind \in Kinds /\ j \in Jobs
  BY DEF JobFor, Kinds, Jobs
<1>3. kind = "checkpoint" => base
  BY DEF JobFor, IInv, BaseInv
<1>4. filesUploaded
  BY <1>1 DEF IInv, FilesInv
<1>5. job[j].state = "none"
  BY <1>1, <1>2 DEF IInv, RequestInv, Kinds
<1>6. /\ job' \in [Jobs -> JobRow] /\ job'[j] = NewJob
      /\ \A i \in Jobs : i # j => job'[i] = job[i]
      /\ NewJob.state = "available" /\ NewJob.attempt = 0 /\ NewJob.at = "none"
  <2> HIDE DEF j
  <2>. QED
    BY <1>1, <1>2, <1>5, InsertedTyped DEF IInv, Exists
<1>7. request' \in [Requests -> CallState] /\ request'[r] = Returned
      /\ \A q \in Requests : q # r => request'[q] = request[q]
  BY <1>1, ReturnedTyped DEF IInv, TypeInv, TypeOK
<1>8. \A q \in Requests : <<"image", q>> \in Jobs /\ <<"checkpoint", q>> \in Jobs
  BY DEF Jobs, Kinds
<1>9. TypeInv'
  <2>1. TypeOK'
    BY <1>1, <1>6, <1>7 DEF IInv, TypeInv, TypeOK, Statuses
  <2>2. AttemptInv'
    BY <1>6, BuildsAssumption, SMT DEF IInv, TypeInv, AttemptInv
  <2>. QED
    BY <2>1, <2>2 DEF TypeInv
<1>10. RequestInv'
  <2> SUFFICES ASSUME NEW q \in Requests, request'[q].at # "returned"
               PROVE  /\ job'[<<"image", q>>].state = "none"
                      /\ job'[<<"checkpoint", q>>].state = "none"
    BY DEF RequestInv
  <2>1. q # r
    BY <1>7, ReturnedTyped
  <2>2. <<"image", q>> # j /\ <<"checkpoint", q>> # j
    BY <2>1
  <2>. QED
    BY <1>6, <1>7, <1>8, <2>1, <2>2 DEF IInv, RequestInv
<1>11. PendingInv'
  BY <1>2, <1>6 DEF PendingInv, Pending, Live
<1>12. FilesInv'
  BY <1>1, <1>4 DEF FilesInv
<1>13. BaseInv'
  <2>1. CASE base
    BY <1>1, <2>1 DEF BaseInv
  <2>2. CASE ~base
    <3>1. kind = "image"
      BY <1>2, <1>3, <2>2 DEF Kinds
    <3>2. \A q \in Requests : request'[q].seen # "CHECKPOINT_BUILD_FAILED" /\ answer'[q] = "unused"
      BY <1>1, <1>7, <2>2, ReturnedTyped DEF IInv, BaseInv
    <3>3. \A q \in Requests : <<"checkpoint", q>> # j
      BY <3>1
    <3>4. \A q \in Requests : job'[<<"checkpoint", q>>].state = "none"
      BY <1>6, <1>8, <2>2, <3>3 DEF IInv, BaseInv
    <3>5. \A q \in Requests : job'[<<"image", q>>].at # "pushed"
      BY <1>6, <1>8, <2>2 DEF IInv, BaseInv
    <3>. QED
      BY <1>1, <3>1, <3>2, <3>4, <3>5 DEF BaseInv
  <2>. QED
    BY <2>1, <2>2
<1>14. ImageInv'
  BY <1>1 DEF IInv, ImageInv, CompletedHasImage
<1>. QED
  BY <1>9, <1>10, <1>11, <1>12, <1>13, <1>14 DEF IInv

-----------------------------------------------------------------------------
LEMMA NextIInv == IInv /\ [BuildNext]_vars => IInv'
<1> SUFFICES ASSUME IInv, [BuildNext]_vars PROVE IInv'
  OBVIOUS
<1>1. CASE Upload \/ Crash \/ ServiceStep
  BY <1>1, UploadIInv, CrashIInv, ServiceIInv
<1>2. ASSUME NEW r \in Requests, Call(r) PROVE IInv'
  BY <1>2, FlavorVersionByIDIInv, CheckFilesIInv, InsertJobIInv, RequestFailsIInv DEF Call
<1>3. ASSUME NEW j \in Jobs, Fetch(j) \/ Timeout(j) \/ Rescue(j) PROVE IInv'
  BY <1>3, FetchIInv, TimeoutIInv, RescueIInv
<1>4. ASSUME NEW j \in Jobs, Worker(j) PROVE IInv'
  <2>1. j[2] \in Requests
    BY DEF Jobs
  <2>. QED
    BY <1>4, <2>1, JobCompletedIInv, PushBaseIInv, InsertCheckpointJobIInv, ImageFailsIInv,
       CreateCheckpointIInv, CreateFailsIInv, PollCompletedIInv, PollFailsIInv DEF Worker
<1>5. CASE UNCHANGED vars
  <2>1. UNCHANGED <<status, uploaded, filesUploaded, request, job, base, vouched, mishaps, fault,
                    answer, pushed>>
    BY <1>5 DEF vars, buildVars, checkpoint
  <2>2. TypeInv' /\ RequestInv' /\ PendingInv'
    BY <2>1 DEF IInv, TypeInv, TypeOK, AttemptInv, RequestInv, PendingInv, Pending, Live
  <2>3. FilesInv' /\ BaseInv' /\ ImageInv'
    BY <2>1 DEF IInv, FilesInv, BaseInv, ImageInv, CompletedHasImage
  <2>. QED
    BY <2>2, <2>3 DEF IInv
<1>. QED
  BY <1>1, <1>2, <1>3, <1>4, <1>5 DEF BuildNext

LEMMA Inductive == BuildSpec => []IInv
<1>1. BuildInit => IInv
  BY InitIInv
<1>2. IInv /\ [BuildNext]_vars => IInv'
  BY NextIInv
<1>. QED
  BY <1>1, <1>2, PTL DEF BuildSpec

(* Every variable keeps its type: in particular no job is attempted more    *)
(* often than MaxAttempts, whatever fails.                                  *)
THEOREM BuildTypeCorrect == BuildSpec => []TypeOK
<1>1. IInv => TypeOK
  BY DEF IInv, TypeInv
<1>. QED
  BY <1>1, Inductive, PTL

(* BuildFlavorVersion takes IMAGE_BUILD and CHECKPOINT_BUILD for a job that *)
(* is at work (flavor.go:308-315): there is one, unless a last attempt did  *)
(* not get to write its result or an image job was repeated.                *)
THEOREM BuildingStatusHasJob == BuildSpec => []BuildingHasJobUnlessFault
<1>1. IInv => BuildingHasJobUnlessFault
  BY DEF IInv, PendingInv, Pending, BuildingHasJobUnlessFault
<1>. QED
  BY <1>1, Inductive, PTL

(* CreateCheckpointWorker asks a node for a checkpoint of :base only when   *)
(* :base was pushed, over retries, resumed builds and crashes.              *)
THEOREM CheckpointsHaveBase == BuildSpec => []CheckpointNeedsBase
<1>1. IInv => CheckpointNeedsBase
  BY DEF IInv, FilesInv, BaseInv, CheckpointNeedsBase
<1>. QED
  BY <1>1, Inductive, PTL

(* The version becomes COMPLETED when its checkpoint image is there, or the *)
(* node answered COMPLETED with a message (create_checkpoint.go:156-166).   *)
THEOREM CompletedVersionsHaveImage == BuildSpec => []CompletedHasImage
<1>1. IInv => CompletedHasImage
  BY DEF IInv, ImageInv
<1>. QED
  BY <1>1, Inductive, PTL
-----------------------------------------------------------------------------
(* Builds that do not overlap, on top of IInv.  As long as no fault         *)
(* happened, one job at most has its result still to come, and only under   *)
(* the status of its stage; one call at most is between its read and its    *)
(* insert, and if what it read lets it insert a job, that is still the      *)
(* status and there is no job.                                              *)
Open(r) == request[r].at \in {"files", "insert"}

FinishedInv == \A j \in Jobs : job[j].at = "finished" => job[j].state = "running"

StageOf(j) == IF j[1] = "image" THEN "IMAGE_BUILD" ELSE "CHECKPOINT_BUILD"

Sole ==
    /\ \A i, j \in Jobs : Pending(i) /\ Pending(j) => i = j
    /\ \A j \in Jobs : Pending(j) => status = StageOf(j)
    /\ \A q, r \in Requests : Open(q) /\ Open(r) => q = r
    /\ \A r \in Requests : Open(r) /\ ~NothingToDo(request[r].seen) =>
                               request[r].seen = status /\ \A j \in Jobs : ~Pending(j)
    /\ \A r \in Requests : request[r].at = "insert" => ~NothingToDo(request[r].seen)

SoleInv == FinishedInv /\ (fault = "none" => Sole)

LEMMA InitSole == BuildInit => SoleInv
<1>1. NoJob.state = "none" /\ NoJob.at = "none" /\ Idle.at = "idle"
  BY DEF NoJob, Parked, Idle
<1>. QED
  BY <1>1 DEF BuildInit, SoleInv, FinishedInv, Sole, Open, Pending, Live

(* A step of one job that leaves no job pending that was not. *)
LEMMA SoleJobStep ==
    ASSUME IInv, SoleInv, NEW j \in Jobs, NEW row,
           job' = [job EXCEPT ![j] = row], UNCHANGED request,
           row.at = "finished" => row.state = "running",
           fault' = "none" =>
               /\ fault = "none"
               /\ row.state \in {"available", "running", "orphaned"} /\ row.at # "finished"
                      => Pending(j) /\ UNCHANGED status
               /\ UNCHANGED status \/ Pending(j)
    PROVE  SoleInv'
<1>1. job'[j] = row /\ \A i \in Jobs : i # j => job'[i] = job[i]
  BY DEF IInv, TypeInv, TypeOK
<1>2. FinishedInv'
  BY <1>1 DEF SoleInv, FinishedInv
<1>3. ASSUME fault' = "none" PROVE Sole'
  <2>1. Sole
    BY <1>3 DEF SoleInv
  <2>2. \A i \in Jobs : Pending(i)' => Pending(i) /\ UNCHANGED status
    <3> SUFFICES ASSUME NEW i \in Jobs, Pending(i)' PROVE Pending(i) /\ UNCHANGED status
      OBVIOUS
    <3>1. CASE i = j
      BY <1>1, <1>3, <3>1 DEF Pending, Live
    <3>2. CASE i # j
      BY <1>1, <1>3, <2>1, <3>2 DEF Pending, Live, Sole
    <3>. QED
      BY <3>1, <3>2
  <2>3. \A r \in Requests : (Open(r)' <=> Open(r)) /\ request'[r] = request[r]
    BY DEF Open
  <2>4. \A r \in Requests : Open(r) /\ ~NothingToDo(request[r].seen) => UNCHANGED status
    BY <1>3, <2>1 DEF Sole
  <2>. QED
    BY <2>1, <2>2, <2>3, <2>4 DEF Sole
<1>. QED
  BY <1>2, <1>3 DEF SoleInv

LEMMA RowFacts ==
    /\ \A n : Parked("completed", n).state = "completed" /\ Parked("completed", n).at = "none"
    /\ \A j \in Jobs : LastAttempt(j) => Ended(j).state = "discarded"
    /\ \A j, s : Reached(j, s).state = "running" /\ Reached(j, s).at = s
BY DEF Parked, Ended, Reached

LEMMA WorkFailedSole ==
    ASSUME IInv, SoleInv, NEW j \in Jobs, Pending(j), WorkFailed(j), UNCHANGED request
    PROVE  SoleInv'
<1>1. /\ Ended(j).at = "none" /\ (LastAttempt(j) => Ended(j).state = "discarded")
  BY EndedTyped, RowFacts DEF IInv
<1>2. job' = [job EXCEPT ![j] = Ended(j)]
  BY DEF WorkFailed
<1>3. fault' = "none" => fault = "none" /\ (UNCHANGED status \/ LastAttempt(j))
  BY DEF WorkFailed
<1>. QED
  BY <1>1, <1>2, <1>3, SoleJobStep

(* The steps of the jobs. *)
LEMMA JobSole ==
    ASSUME IInv, SoleInv, NEW j \in Jobs, Fetch(j) \/ Timeout(j) \/ Rescue(j) \/ JobCompleted(j)
    PROVE  SoleInv'
<1>1. Ended(j).at = "none"
  BY EndedTyped DEF IInv
<1>2. CASE Fetch(j)
  <2> DEFINE row == [state |-> "running", attempt |-> job[j].attempt + 1, at |-> "work"]
  <2>1. row.state = "running" /\ row.at = "work"
    OBVIOUS
  <2>2. job' = [job EXCEPT ![j] = row] /\ UNCHANGED <<request, status, fault>>
    BY <1>2 DEF Fetch
  <2>3. Pending(j)
    BY <1>2 DEF Fetch, Pending, Live, SoleInv, FinishedInv
  <2> HIDE DEF row
  <2>. QED
    BY <2>1, <2>2, <2>3, SoleJobStep
<1>3. CASE Timeout(j)
  <2>1. job' = [job EXCEPT ![j] = Ended(j)] /\ UNCHANGED <<request, status>>
    BY <1>3 DEF Timeout
  <2>2. fault' = "none" => fault = "none" /\ Pending(j)
    BY <1>3 DEF Timeout, Pending, Live
  <2>. QED
    BY <1>1, <2>1, <2>2, SoleJobStep
<1>4. CASE Rescue(j)
  <2>1. job' = [job EXCEPT ![j] = Ended(j)] /\ UNCHANGED <<request, status>>
    BY <1>4 DEF Rescue
  <2>2. Pending(j) /\ (fault' = "none" => fault = "none")
    BY <1>4 DEF Rescue, Pending, Live, SoleInv, FinishedInv
  <2>. QED
    BY <1>1, <2>1, <2>2, SoleJobStep
<1>5. CASE JobCompleted(j)
  <2>1. /\ job' = [job EXCEPT ![j] = Parked("completed", 0)]
        /\ UNCHANGED <<request, status, fault>>
    BY <1>5 DEF JobCompleted
  <2>. QED
    BY <2>1, RowFacts, SoleJobStep
<1>. QED
  BY <1>2, <1>3, <1>4, <1>5

(* The steps of the workers. *)
LEMMA WorkerSole ==
    ASSUME IInv, SoleInv, NEW r \in Requests,
           \/ PushBase(r) \/ ImageFails(r) \/ CreateCheckpoint(r) \/ CreateFails(r)
           \/ PollCompleted(r) \/ PollFails(r)
    PROVE  SoleInv'
<1> DEFINE image == <<"image", r>>
           checkpt == <<"checkpoint", r>>
<1>1. image \in Jobs /\ checkpt \in Jobs
  BY DEF Jobs, Kinds
<1>2. CASE PushBase(r)
  <2>1. /\ job' = [job EXCEPT ![image] = Reached(image, "pushed")]
        /\ UNCHANGED <<request, status, fault>> /\ Pending(image)
    BY <1>2 DEF PushBase, Works, Pending, Live
  <2>2. Reached(image, "pushed").state = "running" /\ Reached(image, "pushed").at = "pushed"
    BY RowFacts
  <2> HIDE DEF image, checkpt
  <2>. QED
    BY <1>1, <2>1, <2>2, SoleJobStep
<1>3. CASE ImageFails(r)
  <2>1. WorkFailed(image) /\ UNCHANGED request /\ Pending(image)
    BY <1>3 DEF ImageFails, Pending, Live
  <2> HIDE DEF image, checkpt
  <2>. QED
    BY <1>1, <2>1, WorkFailedSole
<1>4. CASE CreateCheckpoint(r)
  <2>1. /\ job' = [job EXCEPT ![checkpt] = Reached(checkpt, "poll")]
        /\ UNCHANGED <<request, status, fault>> /\ Pending(checkpt)
    BY <1>4 DEF CreateCheckpoint, Works, Pending, Live
  <2>2. Reached(checkpt, "poll").state = "running" /\ Reached(checkpt, "poll").at = "poll"
    BY RowFacts
  <2> HIDE DEF image, checkpt
  <2>. QED
    BY <1>1, <2>1, <2>2, SoleJobStep
<1>5. CASE CreateFails(r) \/ PollFails(r)
  <2>1. WorkFailed(checkpt) /\ UNCHANGED request /\ Pending(checkpt)
    BY <1>5 DEF CreateFails, PollFails, Works, Pending, Live
  <2> HIDE DEF image, checkpt
  <2>. QED
    BY <1>1, <2>1, WorkFailedSole
<1>6. CASE PollCompleted(r)
  <2>1. /\ job' = [job EXCEPT ![checkpt] = Reached(checkpt, "finished")]
        /\ UNCHANGED <<request, fault>> /\ Pending(checkpt)
    BY <1>6 DEF PollCompleted, Works, Pending, Live
  <2>2. Reached(checkpt, "finished").state = "running" /\ Reached(checkpt, "finished").at = "finished"
    BY RowFacts
  <2> HIDE DEF image, checkpt
  <2>. QED
    BY <1>1, <2>1, <2>2, SoleJobStep
<1>. QED
  BY <1>2, <1>3, <1>4, <1>5, <1>6

(* The image job hands over to the checkpoint job it inserts. *)
LEMMA InsertCheckpointJobSole ==
    ASSUME IInv, SoleInv, NEW r \in Requests, InsertCheckpointJob(r)
    PROVE  SoleInv'
<1> DEFINE this == <<"image", r>>
           next == <<"checkpoint", r>>
<1>1. this \in Jobs /\ next \in Jobs /\ this # next /\ StageOf(next) = "CHECKPOINT_BUILD"
  BY DEF Jobs, Kinds, StageOf
<1>2. /\ Works(this, "pushed") /\ status' = "CHECKPOINT_BUILD" /\ UNCHANGED request
      /\ job' = [Inserted(job, next) EXCEPT ![this] = Reached(this, "finished")]
      /\ fault' = "none" => fault = "none"
  BY DEF InsertCheckpointJob
<1> HIDE DEF this, next
<1>3. /\ job'[this] = Reached(this, "finished")
      /\ \A i \in Jobs : i \notin {this, next} => job'[i] = job[i]
      /\ job'[next] = job[next] \/ job'[next] = NewJob
  BY <1>1, <1>2, InsertedTyped DEF IInv
<1>4. NewJob.at = "none" /\ Reached(this, "finished").state = "running"
      /\ Reached(this, "finished").at = "finished"
  BY <1>1, InsertedTyped, RowFacts, SMT DEF IInv
<1>5. Pending(this)
  BY <1>2 DEF Works, Pending, Live
<1>6. FinishedInv'
  BY <1>1, <1>3, <1>4 DEF SoleInv, FinishedInv
<1>7. ASSUME fault' = "none" PROVE Sole'
  <2>1. Sole
    BY <1>2, <1>7 DEF SoleInv
  <2>2. \A i \in Jobs : Pending(i)' => i = next
    <3> SUFFICES ASSUME NEW i \in Jobs, Pending(i)', i # next PROVE FALSE
      OBVIOUS
    <3>1. i # this
      BY <1>3, <1>4 DEF Pending, Live
    <3>2. Pending(i)
      BY <1>3, <3>1 DEF Pending, Live
    <3>. QED
      BY <1>1, <1>5, <2>1, <3>1, <3>2 DEF Sole
  <2>3. \A q \in Requests : (Open(q)' <=> Open(q)) /\ request'[q] = request[q]
    BY <1>2 DEF Open
  <2>4. \A q \in Requests : Open(q) => NothingToDo(request[q].seen)
    BY <1>1, <1>5, <2>1 DEF Sole
  <2>. QED
    BY <1>1, <1>2, <2>1, <2>2, <2>3, <2>4 DEF Sole
<1>. QED
  BY <1>6, <1>7 DEF SoleInv

(* The steps of the calls. *)
LEMMA CallSole ==
    ASSUME IInv, SoleInv, NEW r \in Requests, Call(r)
    PROVE  SoleInv'
<1>1. Returned.at = "returned" /\ \A q \in Requests : q # r => request'[q] = request[q]
  BY DEF Returned, Call, FlavorVersionByID, CheckFiles, InsertJob, RequestFails,
     IInv, TypeInv, TypeOK
<1>2. CASE FlavorVersionByID(r)
  <2>1. UNCHANGED <<job, status>> /\ request'[r].at = "files" /\ request'[r].seen = status
    BY <1>2 DEF FlavorVersionByID, IInv, TypeInv, TypeOK
  <2>2. fault' = "none" => fault = "none" /\ \A q \in Requests : ~Open(q)
    BY <1>2 DEF FlavorVersionByID, Open, Doubled
  <2>3. FinishedInv' /\ \A j \in Jobs : Pending(j)' <=> Pending(j)
    BY <2>1 DEF SoleInv, FinishedInv, Pending, Live
  <2>4. \A q \in Requests : q # r => (Open(q)' <=> Open(q))
    BY <1>1 DEF Open
  <2>5. ASSUME fault' = "none" PROVE Sole'
    <3>1. Sole
      BY <2>2, <2>5 DEF SoleInv
    <3>2. ~NothingToDo(status) => \A j \in Jobs : ~Pending(j)
      BY <3>1 DEF Sole, StageOf, NothingToDo
    <3>3. \A q \in Requests : Open(q)' => q = r
      BY <2>2, <2>4, <2>5
    <3>. QED
      BY <2>1, <2>3, <3>1, <3>2, <3>3 DEF Sole, Open
  <2>. QED
    BY <2>3, <2>5 DEF SoleInv
<1>3. CASE CheckFiles(r) \/ RequestFails(r)
  <2>1. UNCHANGED <<job, status, fault>> /\ Open(r)
    BY <1>3 DEF CheckFiles, RequestFails, Open
  <2>2. \/ request'[r].at = "returned"
        \/ /\ request'[r].at = "insert" /\ request'[r].seen = request[r].seen
           /\ ~NothingToDo(request[r].seen)
    BY <1>1, <1>3, SMT DEF CheckFiles, RequestFails, IInv, TypeInv, TypeOK
  <2>3. FinishedInv' /\ \A j \in Jobs : Pending(j)' <=> Pending(j)
    BY <2>1 DEF SoleInv, FinishedInv, Pending, Live
  <2>4. \A q \in Requests : Open(q)' => Open(q)
    BY <1>1, <2>1 DEF Open
  <2>5. \A q \in Requests : Open(q)' => request'[q].seen = request[q].seen
    BY <1>1, <2>2 DEF Open
  <2>6. ASSUME fault' = "none", Sole PROVE Sole'
    BY <1>1, <2>1, <2>2, <2>3, <2>4, <2>5, <2>6 DEF Sole, NothingToDo
  <2>. QED
    BY <2>1, <2>3, <2>6 DEF SoleInv
<1>4. CASE InsertJob(r)
  <2> DEFINE j == <<JobFor(request[r].seen), r>>
  <2>1. /\ j \in Jobs /\ job' = Inserted(job, j) /\ status' = StageOf(j)
        /\ UNCHANGED fault /\ request'[r].at = "returned" /\ request[r].at = "insert"
    BY <1>1, <1>4 DEF InsertJob, JobFor, StageOf, Jobs, Kinds, IInv, TypeInv, TypeOK
  <2> HIDE DEF j
  <2>2. \A i \in Jobs : i # j => job'[i] = job[i]
    BY <2>1, InsertedTyped DEF IInv
  <2>3. (job'[j] = job[j] \/ job'[j] = NewJob) /\ NewJob.at = "none"
    BY <2>1, InsertedTyped DEF IInv
  <2>4. FinishedInv'
    BY <2>1, <2>2, <2>3 DEF SoleInv, FinishedInv
  <2>5. \A i \in Jobs : i # j => (Pending(i)' <=> Pending(i))
    BY <2>2 DEF Pending, Live
  <2>6. \A q \in Requests : ~(Open(q)' /\ (q = r \/ ~Open(q)))
    BY <1>1, <2>1 DEF Open
  <2>7. ASSUME fault' = "none", Sole PROVE Sole'
    <3>1. \A i \in Jobs : ~Pending(i)
      BY <2>1, <2>7 DEF Sole, Open
    <3>2. \A q \in Requests : ~Open(q)'
      BY <2>1, <2>6, <2>7 DEF Sole, Open
    <3>. QED
      BY <2>1, <2>5, <3>1, <3>2 DEF Sole, Open
  <2>. QED
    BY <2>1, <2>4, <2>7 DEF SoleInv
<1>. QED
  BY <1>2, <1>3, <1>4 DEF Call

LEMMA NextSole == IInv /\ SoleInv /\ [BuildNext]_vars => SoleInv'
<1> SUFFICES ASSUME IInv, SoleInv, [BuildNext]_vars PROVE SoleInv'
  OBVIOUS
<1>1. CASE UNCHANGED <<status, request, job, fault>>
  BY <1>1 DEF SoleInv, FinishedInv, Sole, Open, Pending, Live
<1>2. CASE Crash
  <2>1. fault' # "none"
    BY <1>2 DEF Crash, Doubled
  <2>2. \A j \in Jobs : job'[j] = IF job[j].state = "running"
                                  THEN Parked("orphaned", job[j].attempt) ELSE job[j]
    BY <1>2 DEF Crash
  <2>3. \A n : Parked("orphaned", n).at = "none"
    BY DEF Parked
  <2>4. FinishedInv'
    BY <2>2, <2>3 DEF SoleInv, FinishedInv
  <2>. QED
    BY <2>1, <2>4 DEF SoleInv
<1>3. ASSUME NEW r \in Requests, Call(r) PROVE SoleInv'
  BY <1>3, CallSole
<1>4. ASSUME NEW j \in Jobs, Fetch(j) \/ Timeout(j) \/ Rescue(j) \/ Worker(j) PROVE SoleInv'
  <2>1. j[2] \in Requests
    BY DEF Jobs
  <2>. QED
    BY <1>4, <2>1, JobSole, WorkerSole, InsertCheckpointJobSole DEF Worker
<1>5. CASE Upload \/ ServiceStep \/ UNCHANGED vars
  BY <1>1, <1>5 DEF Upload, ServiceStep, vars, buildVars
<1>. QED
  BY <1>2, <1>3, <1>4, <1>5 DEF BuildNext

(* The check of the status in BuildFlavorVersion (flavor.go:308-315) keeps  *)
(* the builds of a version apart: two jobs are at work together only after  *)
(* calls overlapped, the control plane died, or a status was lost.          *)
THEOREM BuildsDoNotOverlap == BuildSpec => []OneBuildAtATime
<1>1. SoleInv => OneBuildAtATime
  BY DEF SoleInv, Sole, Pending, Live, OneBuildAtATime
<1>2. BuildInit => SoleInv
  BY InitSole
<1>3. IInv /\ SoleInv /\ [BuildNext]_vars => SoleInv'
  BY NextSole
<1>. QED
  BY <1>1, <1>2, <1>3, Inductive, PTL DEF BuildSpec

(* A status is written for a job that is pending, or by the call that is    *)
(* open.                                                                    *)
LEMMA StatusStep ==
    ASSUME IInv, SoleInv, BuildNext, fault' = "none", status' # status
    PROVE  <<status, status'>> \in BuildSteps
<1>1. ASSUME NEW j \in Jobs, Pending(j), WorkFailed(j)
      PROVE  <<status, status'>> \in BuildSteps
  <2>1. fault = "none" /\ status' = FailedStatus(j)
    BY <1>1 DEF WorkFailed
  <2>2. status = StageOf(j)
    BY <1>1, <2>1 DEF SoleInv, Sole
  <2>. QED
    BY <2>1, <2>2 DEF StageOf, FailedStatus, BuildSteps
<1>2. ASSUME NEW r \in Requests, InsertJob(r)
      PROVE  <<status, status'>> \in BuildSteps
  <2>1. fault = "none" /\ Open(r)
    BY <1>2 DEF InsertJob, Open
  <2>2. request[r].seen = status /\ ~NothingToDo(status) /\ status \in Statuses
    BY <1>2, <2>1 DEF SoleInv, Sole, InsertJob, IInv, TypeInv, TypeOK
  <2>3. status' = IF JobFor(status) = "image" THEN "IMAGE_BUILD" ELSE "CHECKPOINT_BUILD"
    BY <1>2, <2>2 DEF InsertJob
  <2>. QED
    BY <2>2, <2>3 DEF JobFor, NothingToDo, Statuses, BuildSteps
<1>3. ASSUME NEW r \in Requests, InsertCheckpointJob(r)
      PROVE  <<status, status'>> \in BuildSteps
  <2>1. /\ <<"image", r>> \in Jobs /\ Pending(<<"image", r>>)
        /\ StageOf(<<"image", r>>) = "IMAGE_BUILD"
    BY <1>3 DEF InsertCheckpointJob, Works, Pending, Live, Jobs, Kinds, StageOf
  <2>2. fault = "none" /\ status' = "CHECKPOINT_BUILD"
    BY <1>3 DEF InsertCheckpointJob
  <2>. QED
    BY <2>1, <2>2 DEF SoleInv, Sole, BuildSteps
<1>4. ASSUME NEW r \in Requests, PollCompleted(r)
      PROVE  <<status, status'>> \in BuildSteps
  <2>1. /\ <<"checkpoint", r>> \in Jobs /\ Pending(<<"checkpoint", r>>)
        /\ StageOf(<<"checkpoint", r>>) = "CHECKPOINT_BUILD"
    BY <1>4 DEF PollCompleted, Works, Pending, Live, Jobs, Kinds, StageOf
  <2>2. fault = "none" /\ status' = "COMPLETED"
    BY <1>4 DEF PollCompleted
  <2>. QED
    BY <2>1, <2>2 DEF SoleInv, Sole, BuildSteps
<1>5. ASSUME NEW r \in Requests, ImageFails(r) \/ CreateFails(r) \/ PollFails(r)
      PROVE  <<status, status'>> \in BuildSteps
  <2>1. \E k \in Kinds : Pending(<<k, r>>) /\ WorkFailed(<<k, r>>)
    BY <1>5 DEF ImageFails, CreateFails, PollFails, Works, Pending, Live, Kinds
  <2>. QED
    BY <1>1, <2>1 DEF Jobs
<1>6. ASSUME NEW r \in Requests, Call(r) PROVE <<status, status'>> \in BuildSteps
  BY <1>2, <1>6 DEF Call, FlavorVersionByID, CheckFiles, RequestFails
<1>7. ASSUME NEW j \in Jobs, Fetch(j) \/ Timeout(j) \/ Rescue(j) \/ Worker(j)
      PROVE  <<status, status'>> \in BuildSteps
  <2>1. j[2] \in Requests
    BY DEF Jobs
  <2>2. Worker(j) /\ ~JobCompleted(j) /\ ~PushBase(j[2]) /\ ~CreateCheckpoint(j[2])
    BY <1>7 DEF Fetch, Timeout, Rescue, JobCompleted, PushBase, CreateCheckpoint
  <2>. QED
    BY <1>3, <1>4, <1>5, <2>1, <2>2 DEF Worker
<1>. QED
  BY <1>6, <1>7 DEF BuildNext, Upload, Crash, ServiceStep, buildVars

(* Calls and jobs write the status without looking at it (flavor.go:329-356,*)
(* create_image.go, create_checkpoint.go).  For any number of calls,        *)
(* attempts and failures: until a fault happens it goes from stage to       *)
(* stage, fails only at the stage it is in, and never leaves COMPLETED.     *)
THEOREM StatusMovesAlongBuild == BuildSpec => StatusFollowsBuild
<1>1. /\ BuildInit => SoleInv
      /\ IInv /\ SoleInv /\ [BuildNext]_vars => SoleInv'
  BY InitSole, NextSole
<1>2. IInv /\ SoleInv /\ [BuildNext]_vars
        => [fault' = "none" => status' = status \/ <<status, status'>> \in BuildSteps]_vars
  BY StatusStep
<1>. QED
  BY <1>1, <1>2, Inductive, PTL DEF BuildSpec, StatusFollowsBuild
=============================================================================
