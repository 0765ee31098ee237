----------------------------- MODULE AlertDispatch -----------------------------
(***************************************************************************)
(* The mails that announce one governance deadline (AlertDispatchService    *)
(* and the five-minute job of GovernanceSchedulerService), for one event.   *)
(*                                                                          *)
(* A batch is one call of sendManual or sendAutomatic.  Batches overlap:    *)
(* the cron decorator does not wait for the previous pass, and a secretary  *)
(* may start one at any time.  They exclude each other per recipient        *)
(* through deadline_alert_logs, whose row (deadline, event, role,           *)
(* recipient) is unique.  Every await is a step of its own, and a batch can *)
(* die between any two: a statement outside the try block throws, or the    *)
(* process is killed.                                                       *)
(*                                                                          *)
(* One unit of `now` is the five minutes between two passes of the job.     *)
(***************************************************************************)
EXTENDS Integers

CONSTANTS
    Recipient,     \* those the deadline concerns
    Batch,         \* calls that can be in flight at the same time
    Window,        \* alertWindowMs: 10 min
    StaleClaim,    \* staleClaimMs: 15 min
    MaxHold,       \* longest time a worker may need between claim and record
    Allowed,       \* what else happens in the instance
    MaxTime,       \* bound on the clock
    MaxAttempts,   \* bound on attempt_count
    MaxAborts,     \* bound on the batches that die
    Nobody

ASSUME AlertDispatchAssumption ==
    /\ Window \in Nat \ {0} /\ StaleClaim \in Nat \ {0} /\ MaxHold \in Nat
    /\ MaxTime \in Nat /\ MaxAttempts \in Nat /\ MaxAborts \in Nat
    /\ Allowed \subseteq {"manual", "switch", "move", "complete"}
    /\ Nobody \notin Recipient

VARIABLES
    now,       \* the clock
    due,       \* targetAt: deadline_at less the offset of the event
    enabled,   \* the deadline's enabled flag and the kill switch alerts_enabled
    fired,     \* the job's pass of this instant has run
    missing,   \* recipients whose action is still outstanding
    log,       \* rows of deadline_alert_logs
    mailed,    \* mails that reached each recipient
    batch,     \* the batches in flight
    aborts     \* batches that have died

vars == <<now, due, enabled, fired, missing, log, mailed, batch, aborts>>

AlertStatus == {"PROCESSING", "SENT", "FAILED"}
Entry == [status : {"none"} \cup AlertStatus, claimed_at : Nat, attempt_count : Nat]
NoEntry == [status |-> "none", claimed_at |-> 0, attempt_count |-> 0]

Step == {"idle", "resolve", "next", "find", "claim", "send", "record", "fail"}

\* todo: the recipients still to be handled; at: when the claim was made.
Work == [step : Step, todo : SUBSET Recipient, cur : Recipient \cup {Nobody}, at : Nat]
Idle == [step |-> "idle", todo |-> {}, cur |-> Nobody, at |-> 0]

-----------------------------------------------------------------------------
(* Where a batch is *)

Holding(b) == batch[b].step \in {"send", "record", "fail"}

Go(b, step) == batch' = [batch EXCEPT ![b].step = step]

\* The loop goes on with the next recipient, or the call returns.
Done(b) ==
    batch' = [batch EXCEPT ![b] = IF batch[b].todo = {} THEN Idle
                                  ELSE [@ EXCEPT !.step = "next", !.cur = Nobody]]

Quiet == UNCHANGED <<now, due, enabled, missing, aborts>>

-----------------------------------------------------------------------------
(* processAlerts, sendAutomatic, sendManual *)

\* Mutant: the window closes one pass early.
InWindow_OnePass == due <= now /\ now < due + Window - 1

InWindow == due <= now /\ now < due + Window

\* The pass of the job that finds the deadline's window open.
Fire(b) ==
    /\ batch[b].step = "idle" /\ ~fired
    /\ enabled /\ InWindow
    /\ fired' = TRUE
    /\ Go(b, "resolve")
    /\ Quiet /\ UNCHANGED <<log, mailed>>

\* sendAutomatic looks at the switches again and finds who is late.
Resolve(b) ==
    /\ batch[b].step = "resolve"
    /\ batch' = [batch EXCEPT ![b] = IF enabled /\ missing # {}
                                     THEN [@ EXCEPT !.step = "next", !.todo = missing]
                                     ELSE Idle]
    /\ Quiet /\ UNCHANGED <<fired, log, mailed>>

\* A secretary picks recipients; neither the switches nor the date matter.
SendManual(b) ==
    /\ "manual" \in Allowed
    /\ batch[b].step = "idle"
    /\ \E who \in (SUBSET missing) \ {{}} :
          batch' = [batch EXCEPT ![b] = [@ EXCEPT !.step = "next", !.todo = who]]
    /\ Quiet /\ UNCHANGED <<fired, log, mailed>>

-----------------------------------------------------------------------------
(* claimAlert *)

\* CREATE succeeds, or the unique index refuses it and the row is looked up next.
Create(b) ==
    /\ batch[b].step = "next"
    /\ \E x \in batch[b].todo :
          IF log[x].status = "none"
          THEN /\ log' = [log EXCEPT ![x] = [status |-> "PROCESSING", claimed_at |-> now,
                                             attempt_count |-> 1]]
               /\ batch' = [batch EXCEPT ![b] = [step |-> "send", todo |-> @.todo \ {x},
                                                 cur |-> x, at |-> now]]
          ELSE /\ batch' = [batch EXCEPT ![b] = [step |-> "find", todo |-> @.todo \ {x},
                                                 cur |-> x, at |-> @.at]]
               /\ UNCHANGED log
    /\ Quiet /\ UNCHANGED <<fired, mailed>>

\* Somebody already has his mail: skipped.  Otherwise the clock is read here, and
\* the row may change again before the update below.
Find(b) ==
    /\ batch[b].step = "find"
    /\ IF log[batch[b].cur].status = "SENT"
       THEN Done(b)
       ELSE batch' = [batch EXCEPT ![b] = [@ EXCEPT !.step = "claim", !.at = now]]
    /\ Quiet /\ UNCHANGED <<fired, log, mailed>>

\* Mutant: a claim counts as abandoned from the start.
Free_AnyClaim(x, at) == log[x].status \in {"FAILED", "PROCESSING"}

\* The condition of the conditional update.
Free(x, at) ==
    \/ log[x].status = "FAILED"
    \/ log[x].status = "PROCESSING" /\ log[x].claimed_at + StaleClaim <= at

\* Mutant: a worker that takes over leaves the old claimed_at.
Claim_KeepsDate(b) ==
    /\ batch[b].step = "claim"
    /\ LET x == batch[b].cur
       IN  IF Free(x, batch[b].at)
           THEN /\ log[x].attempt_count < MaxAttempts
                /\ log' = [log EXCEPT ![x] = [status |-> "PROCESSING", claimed_at |-> @.claimed_at,
                                              attempt_count |-> @.attempt_count + 1]]
                /\ Go(b, "send")
           ELSE Done(b) /\ UNCHANGED log
    /\ Quiet /\ UNCHANGED <<fired, mailed>>

\* One UPDATE: the worker whose update matches has the claim, the others skip.
Claim(b) ==
    /\ batch[b].step = "claim"
    /\ LET x == batch[b].cur
       IN  IF Free(x, batch[b].at)
           THEN /\ log[x].attempt_count < MaxAttempts
                /\ log' = [log EXCEPT ![x] = [status |-> "PROCESSING", claimed_at |-> batch[b].at,
                                              attempt_count |-> @.attempt_count + 1]]
                /\ Go(b, "send")
           ELSE Done(b) /\ UNCHANGED log
    /\ Quiet /\ UNCHANGED <<fired, mailed>>

-----------------------------------------------------------------------------
(* The body of sendBatch *)

\* Mutant: the log is written as soon as the mail is handed over, ok or not.
Send_AlwaysOk(b) ==
    /\ batch[b].step = "send"
    /\ \E reached \in BOOLEAN :
          mailed' = [mailed EXCEPT ![batch[b].cur] = IF reached THEN @ + 1 ELSE @]
    /\ Go(b, "record")
    /\ Quiet /\ UNCHANGED <<fired, log>>

\* The provider takes the mail or not, and the call returns or throws; a call that
\* throws may have been carried out all the same.
Send(b) ==
    /\ batch[b].step = "send"
    /\ \E reached, ok \in BOOLEAN :
          /\ ok => reached
          /\ mailed' = [mailed EXCEPT ![batch[b].cur] = IF reached THEN @ + 1 ELSE @]
          /\ Go(b, IF ok THEN "record" ELSE "fail")
    /\ Quiet /\ UNCHANGED <<fired, log>>

\* The update to SENT is inside the try block: when it throws, the row is set to
\* FAILED although the mail went out.
Record(b) ==
    /\ batch[b].step = "record"
    /\ \/ /\ log' = [log EXCEPT ![batch[b].cur].status = "SENT"]
          /\ Done(b)
       \/ Go(b, "fail") /\ UNCHANGED log
    /\ Quiet /\ UNCHANGED <<fired, mailed>>

Fail(b) ==
    /\ batch[b].step = "fail"
    /\ log' = [log EXCEPT ![batch[b].cur].status = IF @ = "PROCESSING" THEN "FAILED" ELSE @]
    /\ Done(b)
    /\ Quiet /\ UNCHANGED <<fired, mailed>>

\* The batch dies; the claim it holds stays PROCESSING.
Abort(b) ==
    /\ batch[b].step # "idle" /\ aborts < MaxAborts
    /\ aborts' = aborts + 1
    /\ batch'  = [batch EXCEPT ![b] = Idle]
    /\ UNCHANGED <<now, due, enabled, fired, missing, log, mailed>>

-----------------------------------------------------------------------------
(* The clock and the rest of the system *)

\* A worker is past its claim, or has read the clock for it, for at most MaxHold;
\* the job's pass has run when its window is open, unless all batches are busy.
Tick ==
    /\ now < MaxTime
    /\ \A b \in Batch : Holding(b) \/ batch[b].step = "claim" => now - batch[b].at < MaxHold
    /\ enabled /\ InWindow => fired \/ \A b \in Batch : batch[b].step # "idle"
    /\ now'   = now + 1
    /\ fired' = FALSE
    /\ UNCHANGED <<due, enabled, missing, log, mailed, batch, aborts>>

\* updateConfig turns the deadline or the alerts off and on.
Switch ==
    /\ "switch" \in Allowed
    /\ enabled' = ~enabled
    /\ UNCHANGED <<now, due, fired, missing, log, mailed, batch, aborts>>

\* updateConfig moves the deadline; its row and the log rows stay.
Move ==
    /\ "move" \in Allowed
    /\ \E d \in 0 .. MaxTime : due' = d
    /\ UNCHANGED <<now, enabled, fired, missing, log, mailed, batch, aborts>>

\* A recipient does what he was to be reminded of.
Complete ==
    /\ "complete" \in Allowed
    /\ \E x \in missing : missing' = missing \ {x}
    /\ UNCHANGED <<now, due, enabled, fired, log, mailed, batch, aborts>>

-----------------------------------------------------------------------------
Init ==
    /\ now = 0 /\ due = 1 /\ enabled = TRUE /\ fired = FALSE /\ aborts = 0
    /\ missing \in SUBSET Recipient
    /\ log    = [x \in Recipient |-> NoEntry]
    /\ mailed = [x \in Recipient |-> 0]
    /\ batch  = [b \in Batch |-> Idle]

Start(b)   == Fire(b) \/ SendManual(b)
Proceed(b) ==
    \/ Resolve(b) \/ Create(b) \/ Find(b) \/ Claim(b)
    \/ Send(b) \/ Record(b) \/ Fail(b)

Environment == Tick \/ Switch \/ Move \/ Complete

Next == (\E b \in Batch : Start(b) \/ Proceed(b) \/ Abort(b)) \/ Environment

Spec == Init /\ [][Next]_vars

\* The job fires on time, and a batch that has started goes on; nobody has to send
\* a mail by hand.
FairSpec ==
    /\ Spec
    /\ \A b \in Batch : WF_vars(Proceed(b))
    /\ WF_vars(\E b \in Batch : Fire(b))
    /\ WF_vars(Tick)

-----------------------------------------------------------------------------
(* Properties *)

\* Every variable has its type; a batch past its claim has a recipient in hand.
TypeOK ==
    /\ now \in Nat /\ due \in Nat /\ aborts \in Nat
    /\ enabled \in BOOLEAN /\ fired \in BOOLEAN
    /\ missing \subseteq Recipient
    /\ log \in [Recipient -> Entry]
    /\ mailed \in [Recipient -> Nat]
    /\ batch \in [Batch -> Work]
    /\ \A b \in Batch : batch[b].step \in {"find", "claim", "send", "record", "fail"}
                           => batch[b].cur \in Recipient

\* No two batches are at work on the same recipient: the claim of one is not free
\* for another, whatever failed before (the conditional update of claimAlert).
ClaimsExclusive ==
    \A b, c \in Batch : Holding(b) /\ Holding(c) /\ batch[b].cur = batch[c].cur => b = c

\* While alerts are on, everybody who stays late is tried at least once, even when
\* a batch dies before it comes to him: the window holds two passes of the job.
EveryoneIsTried ==
    []enabled => \A x \in Recipient : <>(x \notin missing \/ log[x].status # "none")

-----------------------------------------------------------------------------
(* The ledger the batches keep together *)

state    == [x \in Recipient |-> log[x].status]
attempts == [x \in Recipient |-> log[x].attempt_count]

Ledger == INSTANCE AlertLedger WITH
             Recipient <- Recipient, state <- state, attempts <- attempts, mailed <- mailed

\* Overlapping and dying batches together behave like one careful clerk: no mail
\* without an open attempt, one mail per attempt, none after SENT (sendBatch).
KeepsLedger == Ledger!LedgerSpec

\* A worker with a claim made it no longer than MaxHold ago; its row is open and
\* dated by it, its attempt is not used up before the mail, and a mail has gone out
\* before the record.
ClaimSound(b) ==
    LET w == batch[b]
        e == log[w.cur]
    IN  /\ Holding(b) \/ w.step = "claim" => w.at <= now /\ now - w.at <= MaxHold
        /\ Holding(b) => e.status = "PROCESSING" /\ e.claimed_at = w.at
        /\ w.step \in {"find", "claim"} => e.status # "none"
        /\ w.step = "send" => mailed[w.cur] < e.attempt_count
        /\ w.step = "record" => mailed[w.cur] > 0

\* The inductive invariant behind ClaimsExclusive and KeepsLedger.
AlertInv ==
    /\ TypeOK
    /\ ClaimsExclusive
    /\ \A b \in Batch : ClaimSound(b)
    /\ \A x \in Recipient :
          /\ mailed[x] <= log[x].attempt_count
          /\ log[x].status = "none" => log[x].attempt_count = 0

=============================================================================
