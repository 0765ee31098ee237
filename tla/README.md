# Verification of the graduation-project backend

This directory holds TLA+ models of the backend (NestJS, Prisma, PostgreSQL),
the TLC configurations that check them on small instances and TLAPS proofs of
what holds for instances of any size. Paths are relative to `src/src/modules/`
of the repository; `PROJECT.json` maps every definition to its lines.

## 1. Inventory

The backend runs a university's graduation projects from the opening of a
registration period to the published grade. All state is in PostgreSQL; handlers
are HTTP requests that run concurrently in one or more Node processes, and there
are cron jobs. No handler asks for an isolation level, so every transaction is
at READ COMMITTED; most handlers open no transaction at all.

| component | state it keeps | operations | what makes it correct |
|---|---|---|---|
| Topic registration (`topic/`) | `project` rows (one per student), `topics` rows with `status`, `locked_at`, `max_students`, `registered_students` | register, cancel, approve/reject, manual assign, update, force update, bulk moderation, lock, change leader; lists | no topic above its limit; the counter equals the members; an accepted student stays accepted; every open request can be answered; one leader; all lists show the same |
| Escalation (`admin-config/governance-scheduler`) | `project.status` | hourly: PENDING becomes WAITING_SECRETARY after the approval deadline | no request waits forever |
| Periods and governance (`registration-period/`, `governance/`, `admin-config/`, topics of `topic/`) | periods, deadlines, configuration, quota rows, topics | open, close, configure, override; create, move, delete, moderate topics | periods keep time; a teacher is given no topic beyond his quota; counters and overrides fit the limits |
| Deadline alerts (`admin-config/alert-dispatch`) | `deadline_alert_logs` | five-minute job, manual sending | one worker per recipient, a mail recorded as SENT was sent and is not sent again, everybody is tried |
| Final submissions (`submission/`) | `final_submissions`, Google Drive folder | post, init/confirm upload, two-level review, half-hourly recovery job | only the entitled leader hands in, before the deadline; an approval stands |
| Progress reports (`progress-tracking/`) | `progress_reports`, `student_progress` | report, update, two-level review, archive, MISSING job, bans; boards | an approved text stands; every milestone that passed is answered; counts agree |
| Scoring (`scoring/`) | `independent_scores`, `scoring_results`, ranks, revisions | sheets by stage, submit, finalise meeting, bonus, publish, rank, revise; transcripts | a grade follows from its final sheets; nothing decided changes; all views show one grade; ranks follow scores |
| Committees, defense sessions (`committee/`, `defense/`) | committees with their seats, sessions with their projects | create, update, delete, complete; add, remove, order projects | nobody sits twice or judges whom he supervised; positions are distinct and closed up |
| Accounts (`auth/`, `user/`, `student/`, `teacher/`, `faculty-secretary/`) | users with roles, mailed links, students, teachers, secretaries | register, verify, reset, change password; create, import, remove, restore, assign | a link works once; every owner gets in; people and accounts stay in step; a faculty has one secretary |
| Statistics and dashboards (`dashboard/` and others) | none | counts of projects, topics and reports | every count agrees with the rows and with the other counts |
| Notifications, mail, audit, upload, forms, chat | single rows or none | CRUD, imports, calls to services | |

Interaction: an open period lets topics be proposed; registration produces the
`project` row (topic, leader) that submissions, progress, scoring and sessions
start from; committees own the sessions and give the roles of the score sheets;
governance deadlines are the gates every handler asserts; the scheduler writes
the rows of registrations, periods, reports and alerts; a progress ban takes
away the right to hand in; every person above has an account.

Hard behaviour: check-then-act across `await`s without a lock (capacity, status,
quota, eligibility); a counter recomputed at READ COMMITTED; updates by id of a
row read earlier; cron passes that overlap with themselves and with requests;
batches that die after their claim; a handler that breaks off between two of its
statements; two copies of one fact in different tables; the same number computed
by different queries and in a different order of rounding. `PROJECT.json` lists
each place under `hazards`.

## 2. Modules

| module | models | proofs |
|---|---|---|
| `TopicRegistry` | what the registration promises to who reads its tables (abstract) | |
| `TopicRegistration` | registration handlers, their transactions, escalation; refines `TopicRegistry` | `TopicRegistrationProofs` |
| `TopicBoards` | extends it: every list and board of topics and registrations | `TopicRegistrationProofs` |
| `PeriodGovernance` | periods, the job that opens and closes them, limits, quotas, topics that count against them | `PeriodGovernanceProofs` |
| `AlertLedger` | what the alert log promises (abstract) | |
| `AlertDispatch` | the batches of mails, refines `AlertLedger` | `AlertDispatchProofs` |
| `FinalSubmission` | submissions, reviews, progress row, Drive job | `FinalSubmissionProofs` |
| `ProgressReports` | milestones, reports, reviews, stored count, MISSING job | `ProgressReportsProofs` |
| `ReportBoards` | extends it: every list and board of reports | `ProgressReportsProofs` |
| `Sums` | sums over a set, for the boards | |
| `Faculties` | which teachers a board takes for those of a faculty | |
| `Scoring` | the five sheets of a project, its result row, finalisation, bonus, publication | `ScoringProofs` |
| `Transcripts` | extends it: what each role is shown of a grade | `ScoringProofs` |
| `PostDefense` | extends that: ranking, places by hand, revision window, revisions | `ScoringProofs` |
| `Defense` | committees, sessions and the projects in them | `DefenseProofs` |
| `Accounts` | accounts, links, students, teachers, secretaries | `AccountsProofs` |
| `MC...` | values of the constants, scopes, symmetry | |

**Scopes.** Five of the modules have many handlers, and all of them on one
instance are too many states. A variable `scope`, chosen in `Init` from the
constant `Scopes` and never changed, says which handlers, requests and rows a
behaviour exercises; one run then asks the same question of several instances.
The actions themselves do not depend on it beyond being permitted or not.

**Steps.** In all modules a request that is in flight has a place (`pc[r]`) and
what it has read (`arg[r]`). Reads that follow each other without a write are
one step where nothing can tell them apart; every write is a step of its own
unless a transaction joins them. `Fail` (`Rollback`, `Abort`, `BreakOff`) stands
for an assertion that fails, a database error and a process that dies.

**TopicRegistration.** `pc[r]` is one of `idle`, `check`, `write`, `commit`.
Reads before the transaction are the arriving action (`RegisterRead`,
`CancelRead`, ...), reads and assertions inside it `...Check`, the updates
`...Write`, and `Commit` the recomputed counter and COMMIT. `dirtyRow` and
`dirtyTopic` are a transaction's uncommitted writes; reads see committed rows
and the request's own writes, and writes wait for the row lock (a topic or row
another request has written). `forceUpdate` and `updateTopic` change one column
per call; a call that changes several is the several calls in sequence as far as
the properties go. The escalation is one UPDATE of every PENDING row; the step
is its commit, at a moment when no request holds the lock of any of them. Left
out: the ban check at registration, creating the progress row, audit rows.
`Registry == INSTANCE TopicRegistry WITH ...` is the refinement. The abstract
state is what a reader of the committed tables sees (`Shown`): who asks for each
topic (PENDING or WAITING_SECRETARY), who is on it, its limit, the offered topics
(APPROVED and not locked), and the stored counts. It has no handlers, rows, locks or
uncommitted writes; it changes by six moves: a student asks, a request ends, a
request is accepted (others are turned down with it only if the topic is then full),
students are assigned, a limit changes, topics are offered or withdrawn. A whole
handler is one move, at its commit.

**TopicBoards, ReportBoards, Transcripts** hold no state. Each list, board or
transcript is an operator over the variables of the module extended, written after
its own query; the properties compare them with each other and with what the
handlers accept. A board of a faculty is an operator of a set of teachers, and
`Faculties` says which set: `teachers.faculty_id` may be null and changes, and
`teacher.remove` only marks a teacher as deleted, so a *roster* gives each teacher
a faculty or none and says who is deleted. The dashboards take `Staff` (the
teachers of the faculty who are not deleted), the lists of the progress page
`TeachersOf` (deleted ones too), and nobody's dashboard has the teachers
`Outside`. Nothing in the modelled handlers depends on the roster, so the
properties quantify over every roster in every state instead of changing it by
actions. The dashboards find a report by the teacher stored in it, `getStats` by
its student's project as it is now (`FacultyStudents`); the two part when a
project changes hands. A sum over topics, teachers or students is a number of
pairs (`Added` of `Sums`), not a recursion over the set, so that it can be
reasoned about for every set.

**PeriodGovernance.** `period[p]` is the status; `started`, `creation` and
`over` say which dates have come, may still be used, or have passed, and `Tick`
moves them. A handler that checks before its transaction takes two steps, one
that checks inside takes one (`InOneStep`). `quota[p][t]` is the quota row with
its cached counter and status, `JobOpens` and `JobCloses` the hourly job, which
reads the periods to close and closes them later.

**AlertDispatch.** One deadline and one event. `log[x]` is the recipient's row,
`batch[b]` one call of `sendManual` or `sendAutomatic`; each `await` is a step:
`Resolve`, `Create` (the insert that the unique index may refuse), `Find`,
`Claim` (one conditional update), `Send`, `Record`, `Fail`. `Abort` stops a batch
at any step. `Tick` is five minutes. The recipients a batch resolved may be
stale; `Move` moves the date and keeps the rows of the log, `Switch` turns the
deadline or the kill switch. Deleting a deadline is left out. `Ledger ==
INSTANCE AlertLedger WITH ...` is the refinement: `state[x]` is the status of the
row, `attempts[x]` its counter and `mailed[x]` whether a mail went out, which is
history that no column holds.

**FinalSubmission.** No handler opens a transaction: every statement is a step.
A handler arrives with its first read, `check` is eligibility plus the
submission found, `store` writes what follows from those values. `Fail` is an
assertion, a unique violation or a Drive error. `updateStudentProgress`,
`getOrCreateStudentProgress` and the ban of inactive students are one step each:
`is_banned` is never taken back and a row that appears makes the insert fail, so
nothing between their read and their write changes the outcome. Whether a
student has been inactive is left open. Files do not age past the 24 hours the
job looks back, and a topic's students are fixed; the leader changes.

**ProgressReports.** `milestone[m]` is a PERIODIC_REPORT deadline, `report[i]` a
report with its status and `text`, which counts its edits, and with the teacher
the project had when it was stored; `project[s]` is the row of the student's
project, with its teacher; `submitted[s]` is the stored count. A review sends
APPROVED or REJECTED (or an action that means the same), which each level turns
into its own status, any other status, which is stored as it was sent, or feedback
alone (`Sent`, `Verdict`). Creating is check, look, insert, count, store; the job
lists the milestones that passed (`JobLists`), reads the students of one
(`JobReads`) and inserts their rows (`JobMarks`), or dies (`JobAborts`).
Milestones are moved, disabled and removed and projects change at any moment in
the scopes that allow it.

**Scoring.** One project. `sheet[role]` is the `independent_scores` row of a role
(`GVHD` is the supervisor's), `result` the `scoring_results` row. `SubmitWrite`
stores the sheet, `FindResult`/`CreateResult`, `CollectScores` and `SaveResult`
are `updateScoringResult`; the transactions of `issueScoreSheets` and
`finalizeMeeting` are their last step. A handler holds a sheet by its id, so a
sheet deleted meanwhile is not found (`ids`), even if the role has a new one. With
`Faults`, a handler may die after its first write. `updateScore` may set any
status (`scope.sent`); `byHand` records whether it has set PASSED or FAILED on the
supervisor's sheet, which no column tells from what `submitScore` sets. Marks are
whole hundredths and weighted scores fifteenths of a hundredth, so every
intermediate value is exact and `Round2` and `Mean2` are the code's roundings; the
error of binary floating point is left out. Left out as well: access rules and
deadlines of the sheets (any teacher may act at any time: more behaviours than the
code has), a second sheet of one role, the columns of single scores.

**PostDefense** adds the other projects of the year with fixed published scores
(`OtherScore`), `place[p]` (rank and override) and the revision window;
`computeRankings` reads and then writes, and projects of one score come in any
order, as the sort leaves them.

**Defense.** No transaction anywhere, so each statement is a step: a committee
can exist without its members, an update drops members before it adds them, a
session's projects are pruned, listed and renumbered one row at a time
(`Plan`, `Prune`, `List`, `Renumber`). `order[p]` is the position of a project in
a session, 0 if it is not there. Times of day and rooms are left out.

**Accounts.** A person stands for an address and a code, both unique. `link[k]`
is a mailed token with its kind; `sets` counts the passwords it set, which no
column holds. Creations write user, roles and person as the code orders them,
with a step for each statement outside a transaction. `CanLogIn` is what `login`
asks for. Passwords themselves are only set or not set by the owner.

**Composition.** `MCScoring` runs grading, transcripts, ranking and revisions
together, `MCTopicRegistration` and `MCProgressReports` the handlers with all
boards, `PeriodGovernance` the periods with the job and the topics, and
`Defense` committees with sessions. Components that only share a gate (a
deadline, a ban, a status of a project) meet in the variable that stands for it:
`ProjectChanges` in `ProgressReports`, the moving deadlines of
`TopicRegistration` and `FinalSubmission`, the supervisors of `Defense`.

## 3. Runs

All twelve find no error.

| run | shows | bounds |
|---|---|---|
| `TopicSerial` | one request at a time: refinement of `TopicRegistry` (`KeepsRegistry`, so members are kept too), exact counter, requests answerable, lists and boards agree | 2 students, 2 topics, 2 teachers, 2 faculties and every roster, limit 1, batches of 2, 8 handlers, approval deadline moving |
| `TopicSerialGroup` | no admission beyond the limit, the filling approval answers everybody, one leader after a change | 3 students on 1 topic of at most 2, all 10 handlers |
| `TopicOverlap` | overlapping admissions overbook by at most what the other requests admit | 3 students, 2 topics, 2 requests |
| `TopicEscalation` | no request stays PENDING once the deadline passed | 1 student, 2 topics, 2 requests, fairness |
| `PeriodSerial` | quota rows are sound, nobody is given a topic beyond his quota, periods open and close in time, no topic enters a closed period | 2 periods, 2 teachers, `MaxTopics` 2, limit and ceiling 1, 1 request with clock and job, 4 scopes, fairness |
| `AlertClaims` | one worker per recipient, take-over of stale claims only, refinement of `AlertLedger`, `AlertInv` | 1 recipient, 3 batches, 1 death, 4 ticks, 2 attempts |
| `AlertWindow` | a late recipient is tried although one batch dies | 2 recipients, 2 batches, 1 death, 4 ticks, 3 attempts, fairness |
| `Submissions` | lost rights end handing in; only requests older than an approval undo it; `SubmissionInv` | 2 students on 1 topic, 1 file, 2 requests, reviews with APPROVED and REJECTED, bans |
| `ReportsReviewed` | an approved text stands, counts, lists and boards agree, every milestone that passed is answered | 2 students, 2 teachers, 1 faculty and every roster, `MaxMilestones` 2, `MaxReports` 2, `MaxEdits` 1, up to 2 requests with job and clock, every status a review may send, 6 scopes, fairness |
| `ScoringSerial` | one request at a time, until `updateScore` decides the supervisor's sheet: the grade is the one its sheets and bonus give, decisions stand, all views show one grade, ranks follow scores around the places set by hand | 5 sheets, marks 3.07 and 8, bonus 3, 2 other projects, `MaxPlace` 3, `MaxRevisions` 1, statuses sent by `updateScore`: IN_PROGRESS for the sheets of supervisor and external reviewer (no guard tells it from PENDING), and in a scope of their own PASSED, SUBMITTED and FAILED, 3 scopes |
| `DefenseDays` | seats, positions and supervisors stay apart, whatever statement was a request's last | 6 teachers, 3 projects, `MaxCommittees` 2, `MaxSessions` 2, `MaxOrder` 5, up to 2 requests, 4 scopes |
| `AccountsLife` | a link sets a password once, owners get in, people match accounts, role and faculty go together | 2 people, 2 faculties, `MaxAccounts` 3, `MaxLinks` 2, up to 2 requests, 8 scopes, fairness |

Why the bounds are enough: every hazard concerns at most two writers of one row
(two requests, or one with the job and the clock), one more student than a topic
has room for, one more topic than the student is on or the quota allows, one more
faculty, committee or period than the one at stake. `RowId` has one id more than
there are requests, so a fresh id always exists; a deleted row's id is reused only
when nobody holds it. The clock of the alerts runs past the window and the age at
which a claim is stale (3 ticks); three batches let one hold, one take over and
one compete. Of the marks one fails and one passes; 3.07 is a mark whose mean with
8 makes the views differ by a hundredth either way, and the bonus lifts the
passing ones above ten. Two other projects, one of the same score as the graded
one, make ties and a free place between two that are taken. Two teachers and one
faculty, with rosters in which a teacher has no faculty or is deleted, are a
board, a teacher on none and a report whose project went from one to the other;
the topics add a second faculty. `MaxOrder` lets additions leave gaps and
renumbering close them; three accounts let one be removed and created again.
`MaxTime`, `MaxAttempts`, `MaxAborts`, `MaxTopicLimit`, `MaxBatch`, `MaxTopics`,
`MaxMilestones`, `MaxReports`, `MaxEdits`, `MaxPlace`, `MaxRevisions`,
`MaxCommittees`, `MaxSessions`, `MaxOrder`, `MaxAccounts` and `MaxLinks` are the
only bounds on counters and on rows created.

All configurations set `CHECK_DEADLOCK FALSE`: the system rests when nothing
arrives, and the clock of the alerts ends at `MaxTime`.

**Fairness.** Nothing is assumed of students, teachers, staff or deadlines,
except in `Accounts`.

- `TopicRegistration`: weak fairness of every request that has arrived (a Node
  request ends, by a commit or by an error) and strong fairness of the hourly
  job: its UPDATE waits for the row locks in turn, so requests that keep locking
  rows do not starve it.
- `AlertDispatch`: the clock ticks, the job fires when it may and a batch that
  has not died goes on; `Tick` waits for the pass of an instant whose window is
  open.
- `FinalSubmission`: a request in flight ends and the job runs.
- `PeriodGovernance`: both halves of the hourly job run and a request ends.
- `ProgressReports`: the job runs every hour and goes on (it may die, and the
  next pass starts anew).
- `Accounts`, in the scope `Links` only: a request ends; mail of each kind gets
  through infinitely often if it is tried infinitely often; and an owner who
  cannot log in asks for a link and follows it whenever he again and again can.
  `OwnersGetIn` is a promise to people who keep trying, so these are its
  hypotheses rather than facts of the code.

## 4. Proofs

Proved by TLAPS for every value of the constants:

- `TypeCorrect`: the type invariant of the registration, with any overlap.
- `SerialCounter`, `SerialAdmission`, `SerialMembership`, under the hypothesis
  `Serial` (at most one request is in flight): the counter is exact, no step
  admits beyond the limit, no accepted student is taken off. They are not
  inductive by themselves: between `check` and `commit` a handler relies on
  what it read and the transaction has counted rows nobody else sees. `SerialInv`
  adds `FoundStillHolds` (before the write, what was read still holds) and
  `WrittenIsSound` (before the commit, the uncommitted rows lose no member, stay
  within the limit and were counted). `Serial` is necessary: section 5 says what
  two overlapping approvals do.
- `SerialRequestsHaveTheirTeacher`, `SerialApprovalsAnswer`,
  `SerialLeaderChanges`, under `Serial` too, while deadlines and the hourly job
  interleave. Each has an invariant of its own. `OwnerInv`: a request
  that places a row knows the topic's owner, one that approves means an open
  request (approving a rejected one could revive it under a new owner), one that
  replaces a teacher finds nobody who asks him, and uncommitted rows fit
  uncommitted owners. `ApprovalInv`: after the write nobody is PENDING if the
  topic is full, counting the rows only the transaction sees. `LeaderInv`: the
  list taken in the check has every leader, and the rows written leave the one
  named.
- `SerialImplementsRegistry`, under `Serial`: the tables implement `TopicRegistry`,
  the counter included. A commit changes rows of several students and topics
  at once, and what it changes was decided steps before, so `RegistryInv` carries the
  refinement to where it is decided. While a request still has to write,
  `KnowsMove` says that what its move asks for holds: the topic is offered, a place
  is free, the new limit is not below the members. Once it has written, its
  uncommitted rows and topics, laid over the committed ones, are one move away or
  show no change (`Lawful`). One lemma per write establishes that, with
  `SerialInv` (members), `OwnerInv` (an approval finds its request open) and
  `ApprovalInv` (whom a filling approval turns down). The commit then makes the move
  that was prepared; the hourly job, between any two steps, shows nothing, committed
  or prepared (`EscalationShowsNothing`). TLC finds `RegistryInv` true in all
  states of the instance of `TopicSerial`.
- `SerialBoardsAgree`, under `Serial`, and in every state `SerialBoards`: all
  lists and boards agree. What they show follows from three invariants: types,
  `CounterExact` (the stored counter beside the computed one) and
  `RequestHasItsTeacher` (boards find a request by its own teacher, topics by
  theirs). `AddedUp` is the lemma behind every sum: if the owners' sets are
  disjoint and owner `q` counts `n[q]`, numbering each set gives a bijection
  between the pairs `Added` counts and the union, so the sum is its cardinality.
  `OffersAndFaculties` is the part that needs neither of the last two and holds
  with any overlap: the offered topics are those `registerTopic` finds room on,
  and, for every roster, the boards of the faculties together with what belongs to
  the teachers on none of them add up to the administrator's. `StaffApart` and
  `StaffCover` are what a roster gives: the staffs of two faculties are apart, and
  a teacher is on one of them or outside.
- `OverlapOverbooks`, with any number of overlapping requests and all handlers:
  a topic whose limit is not lowered (`LimitKept`) has at most `(requests - 1) *
  MaxBatch` members too many. `FixedLimitsOverbook` is the case of the run, where
  `updateTopic` and `forceUpdate` are not in use, and there nothing is assumed of
  the steps. `OverlapInv` counts, with the members, the students whom a request in
  flight *claims*: it can make them members without looking at that limit again.
  A registration or an assignment claims from its check on. An approval claims the
  student on whatever topic his row is by then, for it finds the row by id: a row
  that was moved since it was read passes from the claim of the request that moved
  it to the claim of the approval. Every step but a check leaves the members and
  claims of a topic as they were or fewer; a check finds the members and its own
  claim within the limit, and each other request claims a batch at most. What is
  written and not committed fits a claim or changes nothing (`Fits`), and no two
  transactions write one row. `LimitKept` is necessary, as section 5 says.
- `AlertInvariant`, `Exclusive`, `Implements`: with `Prompt` (`MaxHold <
  StaleClaim`: a worker settles its claim before it counts as stale) no two
  batches work on one recipient, and the batches implement `AlertLedger`. The
  invariant says that a batch holding a recipient has the row's claim date, and
  that no other one has. The mail timeouts (20 s, `core/config/mail.config.ts`
  28-31) against the 15 minutes of a stale claim justify `Prompt`. Without it a
  stalled worker settles the row as FAILED over another one's claim
  (`alert-dispatch.service.ts:185-188` names the row, not the claim).
- `SubmissionInvariant`, `ReopenedByStaleOnly`: rows and requests stay well
  formed, and an approved submission is changed only by a request that had read
  it in another state, however many overlap. The invariant records what a
  request in flight saw: a confirmation saw no approval, a review saw a
  submission to decide, and that row still exists.
- `PeriodGovernanceProofs`: `TypeCorrect`, with any overlap; `SerialQuotaRows` and
  `SerialQuota` under `Serial`: quota rows are sound and no step gives a teacher
  a topic beyond his quota, while the clock and the hourly job interleave freely.
  The invariant adds `ReadHolds`, that what a handler has read still holds when
  it writes. `Serial` is necessary: two overlapping creations exceed the quota.
- `ProgressReportsProofs`: `TypeCorrect` and `CountsNeverAhead`, with any overlap
  of requests, job and clock. The stored count is behind the rows for a while and
  never ahead of them, because the rows are numbered without gaps (`Compact`), a
  student has one row per milestone, rows are only added, and a count a handler
  took can only have become too small (`Placed`). `ReportBoardsAddUp`, with any
  overlap and for every roster: the boards that go by the stored teacher add up to
  the administrator's with the reports of teachers on no board, those that go by
  the project add up with the students of no faculty (`SharedOut`), and the stored
  counts of a set of students do not exceed their reports. The counts are added up
  as pairs; each pair is mapped to a report of its student, no two to one
  (`AddedBound`), which `CountsNeverAhead` makes possible. `SerialTextStands`,
  under `Serial`: no step edits a text while it stands as approved, and none
  reopens what the second level approved or archived, whatever status a review
  sends (`StepsHold`: an edit that has passed its check still has its report in a
  status that permits it, and a review one that waits for a review). `Serial` is
  necessary, as section 5 says.

- `AccountsProofs`: `TypeCorrect`, `FacultyWithRole`, `LinksOnce` and
  `PeopleFitAccounts`, for any number of people, accounts, links and requests.
  `Inv` says what each request in flight holds: the accounts it made or is about
  to remove exist, a link it read is a row or is gone, nobody else deletes what
  it relies on. On top of it stand four invariants, one for each theorem.
  `StaffInv`: a faculty is held with the role, also while a request has only
  done half of it. `LinksInv`, one request at a time: a link that lives has set
  no password. `TeachersInv`, with any overlap, and `StudentsInv`, where
  administrators neither give nor take the role of students: an account is
  matched by its row or is *between*, that is, in the hands of the one request
  that is making or removing both. The requests name at least one person
  (`@ArrayMinSize(1)` in the request classes of `student/` and `teacher/`).
- `DefenseProofs`: `TypeCorrect`, with any overlap. `NoSupervisorHears`, one
  request at a time or where committees keep their seats: a handler that is about
  to add projects has checked them against the committee that hears them
  (`SupervisorsInv`). `SoundOneByOne` and `ClosesUp`, one request at a time that
  may break off after any statement: seats do not conflict, positions are
  distinct, and after a removal they are closed up. `AloneInv` follows the
  request through its statements: the seats it will insert are free (`SeatsFit`),
  the rows it names live (`Lives`), the positions it hands out lie behind all
  that are taken, and while it renumbers, the rows done have their numbers and
  the rest keep their order above them (`Numbered`).
- `ScoringProofs`: `PostTypeCorrect`, with any overlap and handlers that die
  anywhere. `Held` says what keeps a write from meeting a row that is gone: a
  handler names only sheets that exist, one that updates the result has a row to
  update. The other four take `Undisturbed` (requests come one by one and none
  dies between its writes), and their properties speak of the time before
  `updateScore` has sent PASSED or FAILED for the supervisor's sheet (`~byHand`);
  on the other sheets it may send what it likes, for what closes them is the
  result, whatever their own status. Section 5 says what happens otherwise.
  `GradeSound`, `ViewsSound` and `DecisionsKept` rest on `GradeInv`:
  `SupervisorHolds` (a finalised project has a supervisor's sheet handed in and
  passing, for the sheet has no stage lock and its own status protects it),
  `GradeHolds` (a finalised score is the one of the meeting, unrounded and without
  bonus, or the one a bonus or the publication made of it), `Undecided` and
  `Current` (what a handler has read and checked is so until it writes). The
  arithmetic is exact: rounding and the cap at ten commute (`RoundCapped`), a mean
  that is rounded first moves the total by a hundredth at most (`Close`), and five
  marks that pass give a total that passes (`PassingTotal`). `RankingCorrect`
  rests on `RankInv` and on what one run does for any set of rows (`RanksGiven`).
  The i-th free place is the one up to which i are free, so that the cursor needs
  no recursion, and its existence is that of a least number with i free places up
  to it (`CursorIs`).

The assumptions on the constants are those named `...Assumption` in the modules;
`RowIdAssumption` says that the database's id sequence never gives an id a
handler still holds.

Only model-checked: the liveness properties (`NoRequestWaitsForever`,
`EveryoneIsTried`, `LostRightsEndHandingIn`, `PeriodsKeepTime`,
`TopicsEndWithPeriod`, `EveryMilestoneAnswered`, `OwnersGetIn`; TLAPS does not
do fairness). Every invariant and every other action property of the runs is the
statement of a theorem.

## 5. Observed and not a run

What the code does that its comments, messages or tables do not say, met while
modelling; the properties above state what remains true.

Registration and quotas:

- Two approvals that overlap both pass `assertCapacity` and overbook a topic
  (`OverbookingBounded` says by how much), and each recounts without the other's
  row, so `registered_students` stays wrong until the next change
  (`topic/topic.utils.ts:13-16` against `topic/topic.service.ts:2100`).
- A cancellation deletes by id a row that was approved since it read it
  (`topic.service.ts:2328-2333`).
- A list locked while a request is pending can end with a member and no leader.
- The limit of a topic that is not APPROVED may be lowered below its members. And
  `forceUpdate` (like `updateTopic` on an APPROVED topic) counts the occupied
  places when it starts: students who are admitted under the old limit before it
  writes stay, so that three assignments, one by one, and one edit that overlaps
  them leave a topic with limit 1 three members. No bound on overbooking holds then.
- `listAvailableTopics` counts full topics in its `total`; the count of
  approvals that wait for a teacher takes PENDING only, the one of each topic
  WAITING_SECRETARY as well; the teacher's progress board leaves out ASSIGNED
  students whom the MISSING job includes. Totals of the dashboards differ by
  design: pending, approved and rejected leave out the other two statuses.
- `teacher.remove` refuses only while the teacher has projects
  (`teacher/teacher.service.ts:196`): his topics stay, are offered and may be
  chosen, and they are on the administrator's board and on no faculty's, like
  those of a teacher whose `faculty_id` is null.
- Two creations at once exceed a quota by one; moving a topic into another
  period and approving rejected topics in bulk or by force check no quota.
- Deleting or moving a topic leaves the old quota counter too high, and a row
  without override keeps its stored limit after the period's is lowered:
  `QuotaRowsSound` says `>=` for that reason. Bulk moderation recounts every
  teacher in every period of the list.
- A stale `openPeriod` can reopen a closed period until the job closes it.
- Codes of topics have no part for the period, so generating one can fail on the
  unique index.

Submissions and reports:

- `confirmDriveUpload` puts an approval that committed between its read and its
  update back to PENDING.
- `createSubmission` inserts always, so after a rejection it fails on the
  unique `topic_id`; the leader can only confirm another upload.
- The recovery job finds files in Drive and logs them; it writes no row
  (`submission/submission.cron.service.ts:60`, 78), so an upload whose
  confirmation was lost stays lost.
- Any teacher may review any submission, and a review does not name the file its
  author saw.
- A report handed in again becomes PENDING_TEACHER, which no reviewer accepts
  and only boards with a full total show. MISSING rows count as submitted after
  the next recount, and MISSING or REJECTED rows can be edited and keep their
  status.
- A review may send any status in place of a decision
  (`progress-tracking/progress-tracking.service.ts:603`): the second level can put
  a report the teacher approved back to PENDING, REVISION_REQUESTED or MISSING, in
  which the student may edit it again, and the first can store APPROVED_BY_TEACHER
  or ARCHIVED directly.
- A report keeps the teacher it was stored with. When the project changes hands it
  stays on the old teacher's list and board and only he may review it first, while
  `getStats` counts it with the new teacher's students. The list of a faculty's
  reports takes deleted teachers, its dashboards do not.
- With overlap a student's edit may land after the teacher's approval, and
  archiving and the secretary's review overwrite each other.
- `getBanWarnings` warns nobody who has a `last_report_date`, though
  `checkAndBanInactiveStudents` bans them; the reports a secretary is told are
  overdue are PENDING ones, which she may not review.

Scoring:

- The supervisor's sheet has no stage lock. It is safe in `ScoringSerial` because
  a sheet that counts is SUBMITTED, or FAILED with the project rejected. If
  `submitScore` dies between the sheet and the result (`Faults`), or `updateScore`
  is sent PASSED or FAILED as its status, which `UpdateScoreDto` accepts
  (`scoring/scoring.dto.ts:100-103`, `scoring/scoring.service.ts:344`), it may
  still be submitted after the meeting and even after the publication: one request
  after the other and without any fault, the score is then computed anew without
  the bonus, a decision or a published grade changes, the list says BLOCKED while
  the transcript still builds, and the rank stays where the old score put it.
  `GradeFollowsSheets`, `ViewsAgree`, `DecisionsStand` and `RankingSound`
  therefore speak of the time before (`byHand`).
- A preview computed before `finalizeMeeting` and written after it replaces the
  final score (`scoring/scoring.service.ts:1426` against 631), and a bonus that
  was read before a publication is written after it.
- A supervisor who passes a sheet after failing it does not lift REJECTED_GVHD.
- `deleteScore` (`scoring.service.ts:1095`) accepts PASSED sheets, even after
  the publication.
- List and review round the internal mean before weighing it, the transcript
  does not: totals may differ by a hundredth. `finalizeMeeting` stores a score
  that is not rounded.
- `updateRank` neither looks whether the place is taken nor whether the result
  is published; when it overlaps with `computeRankings` or a publication, places
  may be shared until the ranks are computed again.

Committees and sessions:

- `updateCommittee` recreates only the seats named in the request, against its
  message at `committee/committee.service.ts:495`, and one that breaks off can
  leave an external reviewer who is also a member.
- A committee whose members are not inserted yet passes the check of supervisors.
- `addProjectsToSession` with a project that is there already leaves a gap in the
  order; no handler but completion looks whether a session is COMPLETED or
  CANCELLED.
- `scoreProject`'s insert is refused always (a number for an enum), so
  "Mark all projects as defended" (`defense/defense.service.ts:790`) never does.
  `autoCreateScoreSheets` is never called.

Accounts:

- Two overlapping requests with one link both set the password; `verifyEmail`
  leaves the token unused, though `docs/student-registration-flow.md` says it
  "Marks token as used"; `user.create` mails no link.
- `user.remove` of a secretary leaves her faculty occupied; an `updateSecretary`
  that overlaps with a removal gives a faculty to a profile that is gone;
  `removeSecretary` and a restore of the account give a SECRETARY without
  faculty.
- `user.create` and `user.update` accept roles that were deleted,
  `assignUserRoles` refuses them.
- `createStudent` opens no transaction: one that breaks off, or that meets a
  student row without account, leaves a user who blocks the next attempt. A
  removal that breaks off, or one of an unlinked student that overlaps with the
  registration, leaves an account without student.

## 6. Not modelled

- Notifications, mail providers, audit log, chat, uploads and forms: single-row
  work, append-only rows or input and output that no other component reads for a
  decision. What the others need of the mail is `Send` of `AlertDispatch` and
  `MailSent` of `Accounts`.
- `login`, `refresh` and the switch of roles: they keep no state beside the
  signed token; `CanLogIn` is the condition of the first.
- Roles and permissions as rows that administrators edit, personal data, the
  reading of spreadsheets, exports, searches and pages of lists.
- The academic report, upcoming events, recent activities and the history of
  configurations: they only read, and compare with nothing.
- Codes of topics, templates of reports, the text of mails: formatting.
- `resolveOrCreateStudent` (`scoring/scoring.service.ts:2100-2136`), called when a
  student asks for his transcript or his revision or hands one in (2140, 2381,
  2424): it inserts a `students` row with made-up data and the next code when the
  account has none. `Accounts` has no action for it. It would give an account
  whose student is missing (after a `createStudent` or a removal that broke off,
  section 5) a new row, and one that runs between the two statements of a removal
  a row the removal knows nothing of, so `PeopleMatchAccounts` says nothing of
  requests to `scoring/`.
- Deleting and moving teachers between faculties have no actions beside the
  boards: the rosters of `Faculties` stand for their outcomes.
