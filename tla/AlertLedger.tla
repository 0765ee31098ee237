------------------------------ MODULE AlertLedger ------------------------------
(***************************************************************************)
(* What deadline_alert_logs promises for one deadline and one event: a      *)
(* recipient is mailed only while a worker's attempt is open, at most once  *)
(* per attempt, is recorded as SENT only after a mail has gone out, and is  *)
(* never mailed again after that.                                           *)
(***************************************************************************)
EXTENDS Naturals

CONSTANT Recipient

VARIABLES
    state,      \* status of the recipient's row, "none" while there is no row
    attempts,   \* attempt_count
    mailed      \* mails that reached the recipient

ledger == <<state, attempts, mailed>>

LedgerInit ==
    /\ state    = [x \in Recipient |-> "none"]
    /\ attempts = [x \in Recipient |-> 0]
    /\ mailed   = [x \in Recipient |-> 0]

\* An attempt starts: the first one, one after a failure, or one that takes over
\* from a worker that gave up.
Attempt(x) ==
    /\ state[x] # "SENT"
    /\ state'    = [state EXCEPT ![x] = "PROCESSING"]
    /\ attempts' = [attempts EXCEPT ![x] = @ + 1]
    /\ UNCHANGED mailed

Mail(x) ==
    /\ state[x] = "PROCESSING" /\ mailed[x] < attempts[x]
    /\ mailed' = [mailed EXCEPT ![x] = @ + 1]
    /\ UNCHANGED <<state, attempts>>

Settle(x, outcome) ==
    /\ state[x] = "PROCESSING"
    /\ outcome = "SENT" => mailed[x] > 0
    /\ state' = [state EXCEPT ![x] = outcome]
    /\ UNCHANGED <<attempts, mailed>>

LedgerNext ==
    \E x \in Recipient : \/ Attempt(x)
                         \/ Mail(x)
                         \/ \E outcome \in {"SENT", "FAILED"} : Settle(x, outcome)

LedgerSpec == LedgerInit /\ [][LedgerNext]_ledger

=============================================================================
