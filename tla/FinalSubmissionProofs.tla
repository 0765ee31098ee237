------------------------- MODULE FinalSubmissionProofs -------------------------
(* Proofs about FinalSubmission, for any number of students, topics, files and *)
(* overlapping requests.                                                       *)
EXTENDS FinalSubmission, TLAPS

\* A step of a handler gives it what belongs to its next step.
LEMMA Moved ==
    ASSUME TypeOK, NEW r \in Request, NEW step \in {"idle", "check", "store"},
           NEW a \in Calls(step),
           pc' = [pc EXCEPT ![r] = step], arg' = [arg EXCEPT ![r] = a]
    PROVE  /\ pc' \in [Request -> {"idle", "check", "store"}]
           /\ DOMAIN arg' = Request
           /\ \A q \in Request : arg'[q] \in Calls(pc'[q])
<1>1. pc' \in [Request -> {"idle", "check", "store"}] /\ DOMAIN arg' = Request
  BY DEF TypeOK
<1>2. ASSUME NEW q \in Request PROVE arg'[q] \in Calls(pc'[q])
  <2>1. CASE q = r
    <3>1. pc'[r] = step /\ arg'[r] = a
      BY DEF TypeOK
    <3>. QED BY <2>1, <3>1
  <2>2. CASE q # r
    <3>1. pc'[q] = pc[q] /\ arg'[q] = arg[q]
      BY <2>2 DEF TypeOK
    <3>. QED BY <3>1 DEF TypeOK
  <2>. QED BY <2>1, <2>2
<1>. QED BY <1>1, <1>2

\* A handler that ends holds nothing.
LEMMA Finished ==
    ASSUME TypeOK, NEW r \in Request, Finish(r)
    PROVE  /\ pc' \in [Request -> {"idle", "check", "store"}]
           /\ DOMAIN arg' = Request
           /\ \A q \in Request : arg'[q] \in Calls(pc'[q])
<1>1. NoArg \in Calls("idle")
  BY DEF Calls
<1>. QED BY <1>1, Moved DEF Finish

\* What a handler holds at the store, told apart by its name.
LEMMA AtStore ==
    ASSUME TypeOK, NEW r \in Request, pc[r] = "store"
    PROVE  /\ arg[r].op \in {"post", "init"} => arg[r] \in LeaderCall
           /\ arg[r].op = "confirm" => arg[r] \in ConfirmCall
           /\ arg[r].op = "review" => arg[r] \in ReviewCall
<1>1. arg[r] \in {a \in LeaderCall : a.op # "confirm"} \cup ConfirmCall \cup ReviewCall
  BY DEF TypeOK, Calls
<1>. QED BY <1>1 DEF LeaderCall, ConfirmCall, ReviewCall, LeaderOps

LEMMA TypeInit == Init => TypeOK
<1>. SUFFICES ASSUME Init PROVE TypeOK
  OBVIOUS
<1>1. \A r \in Request : arg[r] \in Calls(pc[r])
  BY DEF Init, Calls
<1>. QED BY <1>1 DEF Init, TypeOK

\* A leader's request arrives.
LEMMA LeaderCallsType ==
    ASSUME TypeOK, NEW r \in Request, NEW op \in LeaderOps, NEW s \in Student, NEW f \in File,
           LeaderCalls(r, op, s, f)
    PROVE  TypeOK'
<1>. DEFINE a == [op |-> op, student |-> s, file |-> f]
<1>1. a \in Calls("check")
  BY DEF Calls, LeaderCall
<1>2. pc' = [pc EXCEPT ![r] = "check"] /\ arg' = [arg EXCEPT ![r] = a]
  BY DEF LeaderCalls, Begin
<1>. HIDE DEF a
<1>3. /\ pc' \in [Request -> {"idle", "check", "store"}] /\ DOMAIN arg' = Request
      /\ \A q \in Request : arg'[q] \in Calls(pc'[q])
  BY <1>1, <1>2, Moved
<1>. QED BY <1>3 DEF LeaderCalls, TypeOK

\* The eligibility is checked; a confirmation remembers an open submission.
LEMMA CheckType ==
    ASSUME TypeOK, NEW r \in Request, CheckEligibility(r)
    PROVE  TypeOK'
<1>. DEFINE st == StatusOf(sub[TopicOf[arg[r].student]])
            a  == Saw(r, st)
<1>1. arg[r] \in LeaderCall
  BY DEF TypeOK, CheckEligibility, Calls
<1>2. st \in {"NONE"} \cup (SubmissionStatus \ Approved)
  <2>1. TopicOf[arg[r].student] \in Topic
    BY <1>1, FinalSubmissionAssumption DEF LeaderCall
  <2>2. StillOpen(sub[TopicOf[arg[r].student]])
    BY DEF CheckEligibility
  <2>3. sub[TopicOf[arg[r].student]] \in Submission \cup {NoSub}
    BY <2>1 DEF TypeOK
  <2>. QED BY <2>2, <2>3 DEF StillOpen, StatusOf, Submission
<1>3. a \in Calls("store")
  <2>1. CASE arg[r].op = "confirm"
    <3>1. a \in ConfirmCall
      BY <1>1, <1>2, <2>1 DEF Saw, LeaderCall, ConfirmCall
    <3>. QED BY <3>1 DEF Calls
  <2>2. CASE arg[r].op # "confirm"
    BY <1>1, <2>2 DEF Saw, Calls
  <2>. QED BY <2>1, <2>2
<1>4. pc' = [pc EXCEPT ![r] = "store"] /\ arg' = [arg EXCEPT ![r] = a]
  BY DEF CheckEligibility
<1>. HIDE DEF a
<1>5. /\ pc' \in [Request -> {"idle", "check", "store"}] /\ DOMAIN arg' = Request
      /\ \A q \in Request : arg'[q] \in Calls(pc'[q])
  BY <1>3, <1>4, Moved
<1>. QED BY <1>5 DEF CheckEligibility, TypeOK

\* A review reads a submission that is still to be decided.
LEMMA ReviewReadType ==
    ASSUME TypeOK, NEW r \in Request, NEW role \in {"TEACHER", "SECRETARY"},
           NEW t \in Topic, NEW v \in VerdictSent, ReviewRead(r, role, t, v)
    PROVE  TypeOK'
<1>. DEFINE a == [op |-> "review", topic |-> t, verdict |-> Verdict(role, v), seen |-> sub[t].status]
<1>1. a \in Calls("store")
  <2>1. Verdict(role, v) \in SubmissionStatus
    BY FinalSubmissionAssumption DEF Verdict, SubmissionStatus
  <2>2. a \in ReviewCall
    BY <2>1 DEF ReviewRead, ReviewCall
  <2>. QED BY <2>2 DEF Calls
<1>2. pc' = [pc EXCEPT ![r] = "store"] /\ arg' = [arg EXCEPT ![r] = a]
  BY DEF ReviewRead, Begin
<1>. HIDE DEF a
<1>3. /\ pc' \in [Request -> {"idle", "check", "store"}] /\ DOMAIN arg' = Request
      /\ \A q \in Request : arg'[q] \in Calls(pc'[q])
  BY <1>1, <1>2, Moved
<1>. QED BY <1>3 DEF ReviewRead, TypeOK

\* A row stays a row; what is stored under it is well formed.
LEMMA StoredType ==
    ASSUME SubmissionInv, NEW t \in Topic, NEW x \in Submission,
           sub' = [sub EXCEPT ![t] = x]
    PROVE  /\ sub' \in [Topic -> Submission \cup {NoSub}]
           /\ \A u \in Topic : sub[u] # NoSub => sub'[u] \in Submission
<1>1. sub \in [Topic -> Submission \cup {NoSub}]
  BY DEF SubmissionInv, TypeOK
<1>. QED BY <1>1

\* The step that stores the leader's file.
LEMMA HandedType ==
    ASSUME TypeOK, NEW r \in Request, pc[r] = "store",
           arg[r].op \in {"post", "init", "confirm"}
    PROVE  /\ TopicOf[arg[r].student] \in Topic
           /\ Handed(r) \in Submission
           /\ arg[r].file \in File
<1>1. arg[r].student \in Student /\ arg[r].file \in File
  BY AtStore DEF LeaderCall, ConfirmCall
<1>. QED BY <1>1, FinalSubmissionAssumption DEF Handed, Submission, SubmissionStatus

\* The write of a review leaves a well-formed row.
LEMMA ReviewedType ==
    ASSUME SubmissionInv, NEW r \in Request, ReviewWrite(r)
    PROVE  \E x \in Submission :
              /\ arg[r].topic \in Topic /\ x.status = arg[r].verdict
              /\ x.file = sub[arg[r].topic].file /\ x.by = sub[arg[r].topic].by
              /\ sub' = [sub EXCEPT ![arg[r].topic] = x]
<1>. DEFINE t == arg[r].topic
            x == [sub[t] EXCEPT !.status = arg[r].verdict]
<1>1. arg[r] \in ReviewCall
  BY AtStore DEF SubmissionInv, ReviewWrite, Running
<1>2. t \in Topic /\ arg[r].verdict \in SubmissionStatus
  BY <1>1 DEF ReviewCall
<1>3. sub[t] \in Submission
  BY <1>2 DEF SubmissionInv, TypeOK, ReviewWrite
<1>4. /\ x \in Submission /\ x.status = arg[r].verdict
      /\ x.file = sub[t].file /\ x.by = sub[t].by
  BY <1>2, <1>3 DEF Submission
<1>5. sub' = [sub EXCEPT ![t] = x]
  BY DEF ReviewWrite
<1>. QED BY <1>2, <1>4, <1>5

-----------------------------------------------------------------------------
(* One lemma per kind of step *)

\* A request arrives: nothing is stored.
LEMMA ArriveStep ==
    ASSUME SubmissionInv, NEW r \in Request, Arrive(r)
    PROVE  SubmissionInv'
<1>1. TypeOK
  BY DEF SubmissionInv
<1>2. CASE \E op \in LeaderOps, s \in Student, f \in File : LeaderCalls(r, op, s, f)
  <2>1. PICK op \in LeaderOps, s \in Student, f \in File : LeaderCalls(r, op, s, f)
    BY <1>2
  <2>2. TypeOK'
    BY <1>1, <2>1, LeaderCallsType
  <2>3. ASSUME NEW q \in Request, Running(q, "review", "store")'
        PROVE  sub'[arg'[q].topic] # NoSub
    <3>1. q # r
      BY <1>1, <2>1, <2>3 DEF LeaderCalls, Begin, Running, TypeOK
    <3>. QED BY <1>1, <2>1, <2>3, <3>1 DEF LeaderCalls, Begin, Running, TypeOK, SubmissionInv
  <2>. QED BY <2>2, <2>3 DEF SubmissionInv
<1>3. CASE \E role \in {"TEACHER", "SECRETARY"}, t \in Topic, v \in VerdictSent : ReviewRead(r, role, t, v)
  <2>1. PICK role \in {"TEACHER", "SECRETARY"}, t \in Topic, v \in VerdictSent : ReviewRead(r, role, t, v)
    BY <1>3
  <2>2. TypeOK'
    BY <1>1, <2>1, ReviewReadType
  <2>3. ASSUME NEW q \in Request, Running(q, "review", "store")'
        PROVE  sub'[arg'[q].topic] # NoSub
    <3>1. CASE q = r
      <4>1. arg'[r].topic = t
        BY <1>1, <2>1 DEF ReviewRead, Begin, TypeOK
      <4>. QED BY <2>1, <3>1, <4>1 DEF ReviewRead
    <3>2. CASE q # r
      BY <1>1, <2>1, <2>3, <3>2 DEF ReviewRead, Begin, Running, TypeOK, SubmissionInv
    <3>. QED BY <3>1, <3>2
  <2>. QED BY <2>2, <2>3 DEF SubmissionInv
<1>. QED BY <1>2, <1>3 DEF Arrive

\* A handler that ends, whatever it stored: no row has gone.
LEMMA EndStep ==
    ASSUME SubmissionInv, NEW r \in Request, Finish(r),
           \A t \in Topic : sub[t] # NoSub => sub'[t] # NoSub
    PROVE  \A q \in Request : Running(q, "review", "store")' => sub'[arg'[q].topic] # NoSub
<1>. SUFFICES ASSUME NEW q \in Request, Running(q, "review", "store")'
              PROVE  sub'[arg'[q].topic] # NoSub
  OBVIOUS
<1>1. q # r
  BY DEF Finish, Running, SubmissionInv, TypeOK
<1>2. pc'[q] = pc[q] /\ arg'[q] = arg[q]
  BY <1>1 DEF Finish, SubmissionInv, TypeOK
<1>3. Running(q, "review", "store")
  BY <1>2 DEF Running
<1>4. arg[q].topic \in Topic
  BY <1>3, AtStore DEF Running, ReviewCall, SubmissionInv
<1>. QED BY <1>2, <1>3, <1>4 DEF SubmissionInv

\* A handler takes its next step.
LEMMA ProceedStep ==
    ASSUME SubmissionInv, NEW r \in Request, Proceed(r)
    PROVE  SubmissionInv'
<1>1. TypeOK
  BY DEF SubmissionInv
<1>2. CASE CheckEligibility(r)
  <2>1. TypeOK'
    BY <1>1, <1>2, CheckType
  <2>2. ASSUME NEW q \in Request, Running(q, "review", "store")'
        PROVE  sub'[arg'[q].topic] # NoSub
    <3>1. q # r
      <4>1. arg[r] \in LeaderCall /\ arg[r].op # "review"
        BY <1>1, <1>2 DEF CheckEligibility, TypeOK, Calls, LeaderCall, LeaderOps
      <4>2. arg'[r] = Saw(r, StatusOf(sub[TopicOf[arg[r].student]]))
        BY <1>1, <1>2 DEF CheckEligibility, TypeOK
      <4>3. arg'[r].op # "review"
        BY <4>1, <4>2 DEF Saw
      <4>. QED BY <2>2, <4>3 DEF Running
    <3>. QED BY <1>1, <1>2, <2>2, <3>1 DEF CheckEligibility, Running, TypeOK, SubmissionInv
  <2>. QED BY <2>1, <2>2 DEF SubmissionInv
<1>3. CASE CreateSubmission(r) \/ ConfirmDriveUpload(r)
  <2>1. Finish(r) /\ pc[r] = "store" /\ arg[r].op \in {"post", "init", "confirm"}
    BY <1>3 DEF CreateSubmission, ConfirmDriveUpload, Running
  <2>2. sub' = [sub EXCEPT ![TopicOf[arg[r].student]] = Handed(r)]
    BY <1>3 DEF CreateSubmission, ConfirmDriveUpload
  <2>3. /\ sub' \in [Topic -> Submission \cup {NoSub}]
        /\ \A u \in Topic : sub[u] # NoSub => sub'[u] \in Submission
    BY <1>1, <2>1, <2>2, HandedType, StoredType
  <2>4. \A u \in Topic : sub[u] # NoSub => sub'[u] # NoSub
    BY <2>1, <2>2, <2>3, <1>1, HandedType, NoSubAssumption
  <2>5. UNCHANGED <<open, leader, progress, drive, sync>>
    BY <1>3 DEF CreateSubmission, ConfirmDriveUpload
  <2>6. TypeOK'
    BY <1>1, <2>1, <2>3, <2>5, Finished DEF TypeOK
  <2>. QED BY <2>1, <2>4, <2>6, EndStep DEF SubmissionInv
<1>4. CASE InitDriveUpload(r)
  <2>1. Finish(r) /\ pc[r] = "store" /\ arg[r].op = "init" /\ sub' = sub
    BY <1>4 DEF InitDriveUpload, Running
  <2>2. [topic |-> TopicOf[arg[r].student], bracketed |-> TRUE] \in DriveFile
    BY <1>1, <2>1, HandedType DEF DriveFile
  <2>3. drive' \in [File -> DriveFile \cup {NoFile}]
    BY <1>1, <1>4, <2>2 DEF InitDriveUpload, TypeOK
  <2>4. TypeOK'
    BY <1>1, <1>4, <2>1, <2>3, Finished DEF InitDriveUpload, TypeOK
  <2>. QED BY <2>1, <2>4, EndStep DEF SubmissionInv
<1>5. CASE ReviewWrite(r)
  <2>1. PICK x \in Submission : /\ arg[r].topic \in Topic
                                /\ sub' = [sub EXCEPT ![arg[r].topic] = x]
    BY <1>5, ReviewedType
  <2>2. /\ sub' \in [Topic -> Submission \cup {NoSub}]
        /\ \A u \in Topic : sub[u] # NoSub => sub'[u] \in Submission
    BY <2>1, StoredType
  <2>3. \A u \in Topic : sub[u] # NoSub => sub'[u] # NoSub
    BY <2>2, NoSubAssumption
  <2>4. TypeOK'
    BY <1>1, <1>5, <2>2, Finished DEF ReviewWrite, TypeOK
  <2>. QED BY <1>5, <2>3, <2>4, EndStep DEF ReviewWrite, SubmissionInv
<1>. QED BY <1>2, <1>3, <1>4, <1>5 DEF Proceed

\* A handler fails.
LEMMA FailStep ==
    ASSUME SubmissionInv, NEW r \in Request, Fail(r)
    PROVE  SubmissionInv'
<1>1. TypeOK'
  BY Finished DEF Fail, TypeOK, SubmissionInv
<1>. QED BY <1>1, EndStep DEF Fail, SubmissionInv

\* A progress row is written.
LEMMA TrackingStep ==
    ASSUME SubmissionInv, Tracking
    PROVE  SubmissionInv'
<1>1. PICK s \in Student : \/ \E sent \in StatusSent : UpdateStudentProgress(s, sent)
                           \/ GetOrCreateStudentProgress(s) \/ BanInactive(s)
  BY DEF Tracking
<1>2. ASSUME NEW sent \in ProgressStatus, UpdateStudentProgress(s, sent)
      PROVE  progress' \in [Student -> Progress \cup {NoProgress}]
  <2>. DEFINE p == [status |-> sent,
                    is_banned |-> progress[s] # NoProgress /\ (progress[s].is_banned \/ sent = "BANNED")]
  <2>1. p.is_banned \in BOOLEAN
    OBVIOUS
  <2>2. p \in Progress
    BY <2>1 DEF Progress
  <2>3. progress' = [progress EXCEPT ![s] = p]
    BY <1>2 DEF UpdateStudentProgress
  <2>. HIDE DEF p
  <2>. QED BY <2>2, <2>3 DEF SubmissionInv, TypeOK
<1>3. progress' \in [Student -> Progress \cup {NoProgress}]
  <2>1. CASE \E sent \in StatusSent : UpdateStudentProgress(s, sent)
    BY <1>2, <2>1, FinalSubmissionAssumption
  <2>2. CASE GetOrCreateStudentProgress(s)
    BY <2>2 DEF GetOrCreateStudentProgress, Progress, ProgressStatus, SubmissionInv, TypeOK
  <2>3. CASE BanInactive(s)
    BY <1>2, <2>3 DEF BanInactive, ProgressStatus
  <2>. QED BY <1>1, <2>1, <2>2, <2>3
<1>4. UNCHANGED <<open, leader, sub, drive, sync, pc, arg>>
  BY <1>1 DEF UpdateStudentProgress, GetOrCreateStudentProgress, BanInactive
<1>. QED BY <1>3, <1>4 DEF SubmissionInv, TypeOK, Running

\* The job lists or looks at a file.
LEMMA SyncStep ==
    ASSUME SubmissionInv, Sync
    PROVE  SubmissionInv'
<1>1. CASE StartSync
  BY <1>1 DEF StartSync, Listed, SubmissionInv, TypeOK, Running
<1>2. CASE \E f \in File : SyncFile(f)
  <2>1. PICK f \in File : SyncFile(f)
    BY <1>2
  <2>2. ASSUME NEW t \in Topic
        PROVE  /\ sub'[t] \in Submission \cup {NoSub}
               /\ sub[t] # NoSub => sub'[t] # NoSub
    <3>. DEFINE found == {s \in ProjectsWith(SyncKey(f)) : TopicOf[s] = t}
    <3>1. sub'[t] = IF found # {} /\ sub[t] = NoSub
                    THEN [file |-> f, by |-> CHOOSE s \in found : TRUE, status |-> "PENDING"]
                    ELSE sub[t]
      BY <2>1 DEF SyncFile
    <3>2. found # {} => (CHOOSE s \in found : TRUE) \in Student
      BY DEF ProjectsWith
    <3>. QED BY <3>1, <3>2 DEF Submission, SubmissionStatus, SubmissionInv, TypeOK
  <2>3. sub' \in [Topic -> Submission \cup {NoSub}]
    <3>1. sub' = [t \in Topic |-> sub'[t]]
      BY <2>1 DEF SyncFile
    <3>. QED BY <2>2, <3>1
  <2>4. TypeOK'
    BY <2>1, <2>3 DEF SyncFile, SubmissionInv, TypeOK
  <2>5. ASSUME NEW q \in Request, Running(q, "review", "store")'
        PROVE  sub'[arg'[q].topic] # NoSub
    <3>1. Running(q, "review", "store") /\ arg'[q] = arg[q]
      BY <2>1, <2>5 DEF SyncFile, Running
    <3>2. arg[q].topic \in Topic
      BY <3>1, AtStore DEF Running, ReviewCall, SubmissionInv
    <3>. QED BY <2>2, <3>1, <3>2 DEF SubmissionInv
  <2>. QED BY <2>4, <2>5 DEF SubmissionInv
<1>. QED BY <1>1, <1>2 DEF Sync

\* The deadline and the leader change.
LEMMA SurroundingsStep ==
    ASSUME SubmissionInv, Surroundings
    PROVE  SubmissionInv'
<1>1. CASE ToggleGate
  BY <1>1 DEF ToggleGate, SubmissionInv, TypeOK, Running
<1>2. CASE \E s \in Student : ChangeLeader(s)
  BY <1>2 DEF ChangeLeader, SubmissionInv, TypeOK, Running
<1>. QED BY <1>1, <1>2 DEF Surroundings

-----------------------------------------------------------------------------

\* The invariant behind the two-level review: validateSubmissionEligibility and
\* reviewSubmission hand only open submissions to what is stored later.
THEOREM SubmissionInvariant == Spec => []SubmissionInv
<1>1. Init => SubmissionInv
  <2>. SUFFICES ASSUME Init PROVE SubmissionInv
    OBVIOUS
  <2>. QED BY TypeInit DEF Init, SubmissionInv, Running
<1>2. SubmissionInv /\ [Next]_vars => SubmissionInv'
  <2>. SUFFICES ASSUME SubmissionInv, [Next]_vars PROVE SubmissionInv'
    OBVIOUS
  <2>1. CASE Next
    BY <2>1, ArriveStep, ProceedStep, FailStep, TrackingStep, SyncStep, SurroundingsStep DEF Next
  <2>2. CASE UNCHANGED vars
    BY <2>2 DEF vars, SubmissionInv, TypeOK, Running
  <2>. QED BY <2>1, <2>2
<1>. QED BY <1>1, <1>2, PTL DEF Spec

\* The step that changes an approved submission is the store of a request that saw
\* another status.
LEMMA ReopeningStep ==
    ASSUME SubmissionInv, Next
    PROVE  OnlyStaleRequestsReopen
<1>. SUFFICES ASSUME NEW t \in Topic, sub[t] # NoSub, sub[t].status \in Approved,
                     \/ sub'[t].file # sub[t].file \/ sub'[t].by # sub[t].by
                     \/ sub[t].status = "APPROVED" /\ sub'[t] # sub[t]
              PROVE  \E r \in Request : /\ pc[r] = "store" /\ arg[r].op \in {"confirm", "review"}
                                        /\ arg[r].seen # sub[t].status
  BY DEF OnlyStaleRequestsReopen
<1>1. TypeOK
  BY DEF SubmissionInv
<1>2. sub'[t] # sub[t]
  OBVIOUS
<1>3. ~Tracking /\ ~Surroundings
  BY <1>2 DEF Tracking, UpdateStudentProgress, GetOrCreateStudentProgress, BanInactive,
              Surroundings, ToggleGate, ChangeLeader
<1>4. ~Sync
  BY <1>2 DEF Sync, StartSync, SyncFile
<1>5. PICK r \in Request : Arrive(r) \/ Proceed(r) \/ Fail(r)
  BY <1>3, <1>4 DEF Next
<1>6. ConfirmDriveUpload(r) \/ ReviewWrite(r)
  <2>1. ~Arrive(r) /\ ~Fail(r)
    BY <1>2 DEF Arrive, LeaderCalls, ReviewRead, Fail
  <2>2. ~CheckEligibility(r) /\ ~InitDriveUpload(r)
    BY <1>2 DEF CheckEligibility, InitDriveUpload
  <2>3. ~CreateSubmission(r)
    BY <1>1, <1>2 DEF CreateSubmission, TypeOK
  <2>. QED BY <1>5, <2>1, <2>2, <2>3 DEF Proceed
<1>7. CASE ConfirmDriveUpload(r)
  <2>1. pc[r] = "store" /\ arg[r].op = "confirm"
    BY <1>7 DEF ConfirmDriveUpload, Running
  <2>2. arg[r].seen \notin Approved
    BY <1>1, <2>1, AtStore DEF ConfirmCall, Approved
  <2>. QED BY <2>1, <2>2
<1>8. CASE ReviewWrite(r)
  <2>1. pc[r] = "store" /\ arg[r].op = "review"
    BY <1>8 DEF ReviewWrite, Running
  <2>2. arg[r].seen \in Reviewable
    BY <1>1, <2>1, AtStore DEF ReviewCall
  <2>3. sub'[t].file = sub[t].file /\ sub'[t].by = sub[t].by
    <3>1. PICK x \in Submission : /\ arg[r].topic \in Topic
                                  /\ x.file = sub[arg[r].topic].file /\ x.by = sub[arg[r].topic].by
                                  /\ sub' = [sub EXCEPT ![arg[r].topic] = x]
      BY <1>8, ReviewedType
    <3>. QED BY <1>1, <3>1 DEF TypeOK
  <2>4. sub[t].status = "APPROVED"
    BY <2>3
  <2>. QED BY <2>1, <2>2, <2>4 DEF Reviewable
<1>. QED BY <1>6, <1>7, <1>8

\* Only a request that read the submission before its approval can undo it, in
\* confirmDriveUpload or reviewSubmission, however many overlap.
THEOREM ReopenedByStaleOnly == Spec => ApprovalsReopenedByStaleOnly
<1>1. SubmissionInv /\ [Next]_vars => [OnlyStaleRequestsReopen]_vars
  BY ReopeningStep
<1>. QED BY <1>1, SubmissionInvariant, PTL DEF Spec, ApprovalsReopenedByStaleOnly

=============================================================================
