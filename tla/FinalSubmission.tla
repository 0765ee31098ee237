---------------------------- MODULE FinalSubmission ----------------------------
(***************************************************************************)
(* The final report of a topic.  The leader of the topic puts a file on     *)
(* Google Drive and confirms it, or posts one directly; the teacher and the *)
(* secretary review it; a job every thirty minutes looks for files on Drive *)
(* whose confirmation was lost.  Who may hand in depends on the student's   *)
(* progress row, which the secretary and the ban check write, so those      *)
(* handlers are modelled here too.                                          *)
(*                                                                          *)
(* No handler opens a transaction: each of its statements commits on its    *)
(* own.  A handler arrives with its first read; the leader's handlers then  *)
(* `check` progress, deadline and submission; the `store` writes what was   *)
(* computed from the values read before.  Every other request, the job and  *)
(* the deadline may move in between.                                        *)
(***************************************************************************)
EXTENDS FiniteSets, Naturals

CONSTANTS
    Student,        \* students with an accepted project
    Topic,          \* their topics, all with a code and in one period
    File,           \* files
    Request,        \* handlers that can be in flight at the same time
    TopicOf,        \* the topic of each student
    Ops,            \* handlers the instance exercises
    StatusSent,     \* progress statuses the secretary sends in the instance
    VerdictSent,    \* review statuses the reviewers send in the instance
    NoProgress,     \* the student has no student_progress row
    NoSub,          \* the topic has no final_submissions row
    NoFile          \* not on Drive

Handlers == {"post", "init", "confirm", "review"}
LeaderOps == {"post", "init", "confirm"}

ProgressStatus   == {"ON_TRACK", "EXTENDED", "TOPIC_CHANGED", "BANNED"}
SubmissionStatus == {"PENDING", "APPROVED_BY_TEACHER", "APPROVED", "REJECTED"}
Approved         == {"APPROVED", "APPROVED_BY_TEACHER"}

ASSUME FinalSubmissionAssumption ==
    /\ TopicOf \in [Student -> Topic]
    /\ Ops \subseteq Handlers
    /\ StatusSent \subseteq ProgressStatus /\ VerdictSent \subseteq SubmissionStatus

Progress   == [status : ProgressStatus, is_banned : BOOLEAN]
Submission == [file : File, by : Student, status : SubmissionStatus]

ASSUME NoSubAssumption == NoSub \notin Submission

\* A file on Drive has the code of its topic for a name, in brackets or not.
DriveFile == [topic : Topic, bracketed : BOOLEAN]

NoArg == [op |-> "none"]

VARIABLES
    open,       \* FINAL_SUBMISSION is disabled or ahead and the period is open
    leader,     \* students whose project row has is_leader
    progress,   \* student_progress rows
    sub,        \* final_submissions rows: topic_id is unique
    drive,      \* the Drive folder
    sync,       \* files the job has listed and not looked at yet
    pc,         \* where each handler is
    arg         \* its input and the values it read

vars == <<open, leader, progress, sub, drive, sync, pc, arg>>

-----------------------------------------------------------------------------
(* Steps every handler is made of *)

Begin(r, op, step, a) ==
    /\ op \in Ops
    /\ pc[r] = "idle"
    /\ pc'  = [pc EXCEPT ![r] = step]
    /\ arg' = [arg EXCEPT ![r] = a]

Running(r, op, step) == pc[r] = step /\ arg[r].op = op

Finish(r) ==
    /\ pc'  = [pc EXCEPT ![r] = "idle"]
    /\ arg' = [arg EXCEPT ![r] = NoArg]

\* A statement fails: an assertion throws, a unique index refuses the row, the
\* Drive API answers with an error.
Fail(r) ==
    /\ pc[r] # "idle"
    /\ Finish(r)
    /\ UNCHANGED <<open, leader, progress, sub, drive, sync>>

-----------------------------------------------------------------------------
(* The leader's handlers: createSubmission, initDriveUpload, confirmDriveUpload *)

\* The student's project row is read; confirmDriveUpload is called for a file that
\* initDriveUpload created.
LeaderCalls(r, op, s, f) ==
    /\ op = "init" => drive[f] = NoFile
    /\ op = "confirm" => drive[f] # NoFile /\ drive[f].topic = TopicOf[s]
    /\ s \in leader
    /\ Begin(r, op, "check", [op |-> op, student |-> s, file |-> f])
    /\ UNCHANGED <<open, leader, progress, sub, drive, sync>>

MayHandIn(p) ==
    p # NoProgress => ~p.is_banned /\ p.status \in {"ON_TRACK", "EXTENDED"}

\* Mutant: the answer of the teacher does not close the submission.
StillOpen_UntilSecretary(x) == x # NoSub => x.status # "APPROVED"

StillOpen(x) == x # NoSub => x.status \notin Approved

StatusOf(x) == IF x = NoSub THEN "NONE" ELSE x.status

\* Only confirmDriveUpload makes use of the submission it saw.
Saw(r, status) ==
    IF arg[r].op # "confirm" THEN arg[r]
    ELSE [op |-> "confirm", student |-> arg[r].student, file |-> arg[r].file, seen |-> status]

\* Mutant: the final deadline is not asserted.
CheckEligibility_AnyTime(r) ==
    /\ pc[r] = "check" /\ arg[r].op \in LeaderOps
    /\ LET s == arg[r].student
       IN  /\ MayHandIn(progress[s])
           /\ StillOpen(sub[TopicOf[s]])
           /\ arg' = [arg EXCEPT ![r] = Saw(r, StatusOf(sub[TopicOf[s]]))]
    /\ pc' = [pc EXCEPT ![r] = "store"]
    /\ UNCHANGED <<open, leader, progress, sub, drive, sync>>

\* validateSubmissionEligibility, and the second look of confirmDriveUpload at
\* the submission; a PENDING or REJECTED submission does not stop the leader.
CheckEligibility(r) ==
    /\ pc[r] = "check" /\ arg[r].op \in LeaderOps
    /\ LET s == arg[r].student
       IN  /\ MayHandIn(progress[s])
           /\ open
           /\ StillOpen(sub[TopicOf[s]])
           /\ arg' = [arg EXCEPT ![r] = Saw(r, StatusOf(sub[TopicOf[s]]))]
    /\ pc' = [pc EXCEPT ![r] = "store"]
    /\ UNCHANGED <<open, leader, progress, sub, drive, sync>>

Handed(r) == [file |-> arg[r].file, by |-> arg[r].student, status |-> "PENDING"]

\* createSubmission always inserts: the unique topic_id refuses a second row.
CreateSubmission(r) ==
    /\ Running(r, "post", "store")
    /\ LET t == TopicOf[arg[r].student]
       IN  /\ sub[t] = NoSub
           /\ sub' = [sub EXCEPT ![t] = Handed(r)]
    /\ Finish(r)
    /\ UNCHANGED <<open, leader, progress, drive, sync>>

\* The empty file is created on Drive under the name the leader gave, which
\* validateFileName has accepted only in brackets.
InitDriveUpload(r) ==
    /\ Running(r, "init", "store")
    /\ drive[arg[r].file] = NoFile
    /\ drive' = [drive EXCEPT ![arg[r].file] =
                   [topic |-> TopicOf[arg[r].student], bracketed |-> TRUE]]
    /\ Finish(r)
    /\ UNCHANGED <<open, leader, progress, sub, sync>>

\* Insert when the handler saw no row, else update by id: the status that was
\* read is not looked at again.
ConfirmDriveUpload(r) ==
    /\ Running(r, "confirm", "store")
    /\ LET t == TopicOf[arg[r].student]
       IN  /\ arg[r].seen = "NONE" => sub[t] = NoSub
           /\ sub' = [sub EXCEPT ![t] = Handed(r)]
    /\ Finish(r)
    /\ UNCHANGED <<open, leader, progress, drive, sync>>

-----------------------------------------------------------------------------
(* reviewSubmissionForActor *)

\* The status that is stored for the one a reviewer sends.
Verdict(role, sent) ==
    IF role = "TEACHER" /\ sent = "APPROVED" THEN "APPROVED_BY_TEACHER" ELSE sent

Reviewable == {"PENDING", "APPROVED_BY_TEACHER"}

\* Mutant: the status of the submission is not looked at.
ReviewRead_AnyStatus(r, role, t, sent) ==
    /\ sub[t] # NoSub
    /\ Begin(r, "review", "store",
             [op |-> "review", topic |-> t, verdict |-> Verdict(role, sent),
              seen |-> sub[t].status])
    /\ UNCHANGED <<open, leader, progress, sub, drive, sync>>

ReviewRead(r, role, t, sent) ==
    /\ sub[t] # NoSub /\ sub[t].status \in Reviewable
    /\ Begin(r, "review", "store",
             [op |-> "review", topic |-> t, verdict |-> Verdict(role, sent),
              seen |-> sub[t].status])
    /\ UNCHANGED <<open, leader, progress, sub, drive, sync>>

ReviewWrite(r) ==
    /\ Running(r, "review", "store")
    /\ sub' = [sub EXCEPT ![arg[r].topic].status = arg[r].verdict]
    /\ Finish(r)
    /\ UNCHANGED <<open, leader, progress, drive, sync>>

-----------------------------------------------------------------------------
(* Progress rows.  Each of these handlers reads the row and then writes it.   *)
(* Nothing that comes in between changes what the write leaves: is_banned is  *)
(* never taken back and a row that appears makes the insert fail.  Read and   *)
(* write are therefore one step.                                              *)

\* updateStudentProgress.  A new row gets the status alone: is_banned has its
\* default, false.  A status that is no ban leaves is_banned as it is.
UpdateStudentProgress(s, sent) ==
    /\ progress' = [progress EXCEPT ![s] =
                       [status    |-> sent,
                        is_banned |-> @ # NoProgress /\ (@.is_banned \/ sent = "BANNED")]]
    /\ UNCHANGED <<open, leader, sub, drive, sync, pc, arg>>

\* getOrCreateStudentProgress
GetOrCreateStudentProgress(s) ==
    /\ progress[s] = NoProgress
    /\ progress' = [progress EXCEPT ![s] = [status |-> "ON_TRACK", is_banned |-> FALSE]]
    /\ UNCHANGED <<open, leader, sub, drive, sync, pc, arg>>

\* One round of checkAndBanInactiveStudents: any student not banned may have been
\* without a report for thirty days.
BanInactive(s) ==
    /\ progress[s] # NoProgress /\ ~progress[s].is_banned
    /\ UpdateStudentProgress(s, "BANNED")

-----------------------------------------------------------------------------
(* syncDriveSubmissions *)

\* The key under which the job looks for a project: the name up to the dot, when
\* that is letters and digits.
Code(t)  == <<"code", t>>
NoKey    == <<"none">>
SyncKey(f) == IF drive[f].bracketed THEN NoKey ELSE Code(drive[f].topic)

\* projects.project_id is a uuid wherever it is assigned.
ProjectId(s)    == <<"uuid", s>>
ProjectsWith(k) == {s \in Student : ProjectId(s) = k}

\* The files of the last 24 hours; in the model no file grows older than that.
Listed == {f \in File : drive[f] # NoFile}

StartSync ==
    /\ sync = {} /\ Listed # {}
    /\ sync' = Listed
    /\ UNCHANGED <<open, leader, progress, sub, drive, pc, arg>>

\* One file of the list: a row is inserted when the project is found and its
\* topic has none.
SyncFile(f) ==
    /\ f \in sync
    /\ sync'  = sync \ {f}
    /\ sub' = [t \in Topic |->
                 LET found == {s \in ProjectsWith(SyncKey(f)) : TopicOf[s] = t}
                 IN  IF found # {} /\ sub[t] = NoSub
                     THEN [file |-> f, by |-> CHOOSE s \in found : TRUE, status |-> "PENDING"]
                     ELSE sub[t]]
    /\ UNCHANGED <<open, leader, progress, drive, pc, arg>>

-----------------------------------------------------------------------------
(* What the rest of the system does *)

\* The final deadline passes, is moved or switched.
ToggleGate ==
    /\ open' = ~open
    /\ UNCHANGED <<leader, progress, sub, drive, sync, pc, arg>>

\* changeLeader, in one transaction.
ChangeLeader(s) ==
    /\ leader' = {q \in leader : TopicOf[q] # TopicOf[s]} \cup {s}
    /\ UNCHANGED <<open, progress, sub, drive, sync, pc, arg>>

-----------------------------------------------------------------------------

Init ==
    /\ open \in BOOLEAN
    /\ leader \in {l \in SUBSET Student : \A s, q \in l : TopicOf[s] = TopicOf[q] => s = q}
    /\ progress = [s \in Student |-> NoProgress]
    /\ sub = [t \in Topic |-> NoSub]
    /\ drive = [f \in File |-> NoFile]
    /\ sync = {}
    /\ pc = [r \in Request |-> "idle"]
    /\ arg = [r \in Request |-> NoArg]

Arrive(r) ==
    \/ \E op \in LeaderOps, s \in Student, f \in File : LeaderCalls(r, op, s, f)
    \/ \E role \in {"TEACHER", "SECRETARY"}, t \in Topic, v \in VerdictSent : ReviewRead(r, role, t, v)

Proceed(r) ==
    \/ CheckEligibility(r)
    \/ CreateSubmission(r) \/ InitDriveUpload(r) \/ ConfirmDriveUpload(r)
    \/ ReviewWrite(r)

Sync == StartSync \/ \E f \in File : SyncFile(f)

Tracking == \E s \in Student :
    \/ \E sent \in StatusSent : UpdateStudentProgress(s, sent)
    \/ GetOrCreateStudentProgress(s) \/ BanInactive(s)

Surroundings == ToggleGate \/ \E s \in Student : ChangeLeader(s)

Next == (\E r \in Request : Arrive(r) \/ Proceed(r) \/ Fail(r)) \/ Tracking \/ Sync \/ Surroundings

Spec == Init /\ [][Next]_vars

\* A request that has arrived ends, and the job runs every thirty minutes.
FairSpec ==
    /\ Spec
    /\ \A r \in Request : WF_vars(Proceed(r) \/ Fail(r))
    /\ WF_vars(Sync)

-----------------------------------------------------------------------------
(* Properties *)

\* What a handler holds at each of its steps.  The submission that a
\* confirmation or a review saw was open to it.
LeaderCall  == [op : LeaderOps, student : Student, file : File]
ConfirmCall == [op : {"confirm"}, student : Student, file : File,
                seen : {"NONE"} \cup (SubmissionStatus \ Approved)]
ReviewCall  == [op : {"review"}, topic : Topic, verdict : SubmissionStatus, seen : Reviewable]

Calls(step) ==
    CASE step = "idle"  -> {NoArg}
      [] step = "check" -> LeaderCall
      [] step = "store" -> {a \in LeaderCall : a.op # "confirm"} \cup ConfirmCall \cup ReviewCall

\* The rows have the columns of the schema, and a handler holds values only
\* while it runs.
TypeOK ==
    /\ open \in BOOLEAN /\ leader \subseteq Student
    /\ progress \in [Student -> Progress \cup {NoProgress}]
    /\ sub \in [Topic -> Submission \cup {NoSub}]
    /\ drive \in [File -> DriveFile \cup {NoFile}]
    /\ sync \subseteq File
    /\ pc \in [Request -> {"idle", "check", "store"}]
    /\ DOMAIN arg = Request
    /\ \A r \in Request : arg[r] \in Calls(pc[r])

\* The inductive invariant: the rows are well formed; whatever else moves, a confirmation that
\* goes on to store saw the submission open or absent, a review that goes on to write saw one to
\* decide, and the row it is about to write is still there (the tests of confirmDriveUpload and
\* of reviewSubmissionForActor, which stand before the write in statements of their own).
SubmissionInv ==
    /\ TypeOK
    /\ \A r \in Request : Running(r, "review", "store") => sub[arg[r].topic] # NoSub

\* A file of student s becomes the submission of his topic.
HandsIn(s) ==
    LET t == TopicOf[s]
    IN  /\ sub'[t] # NoSub /\ sub'[t].by = s
        /\ \/ sub[t] = NoSub
           \/ sub[t].by # s
           \/ sub[t].file # sub'[t].file

\* A student who has for good lost the lead of his topic, the right to hand in or
\* the time to do so hands in nothing more, whatever was in flight when he lost it.
LostRightsEndHandingIn ==
    \A s \in Student :
        \/ <>[](s \notin leader)
        \/ <>[](~MayHandIn(progress[s]))
        \/ <>[](~open)
        => <>[][~HandsIn(s)]_vars

\* An approved submission changes by a request that had read the row before.
OnlyStaleRequestsReopen ==
    \A t \in Topic :
        /\ sub[t] # NoSub /\ sub[t].status \in Approved
        /\ \/ sub'[t].file # sub[t].file \/ sub'[t].by # sub[t].by
           \/ sub[t].status = "APPROVED" /\ sub'[t] # sub[t]
        => \E r \in Request : pc[r] = "store" /\ arg[r].op \in {"confirm", "review"}
                                /\ arg[r].seen # sub[t].status

\* Every step is such a step: a request that begins after an approval reopens it
\* neither by a new file nor by a new verdict.
ApprovalsReopenedByStaleOnly == [][OnlyStaleRequestsReopen]_vars

=============================================================================
