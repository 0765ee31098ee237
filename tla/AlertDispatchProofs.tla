-------------------------- MODULE AlertDispatchProofs --------------------------
(***************************************************************************)
(* Proofs about AlertDispatch, for any number of recipients and of          *)
(* overlapping batches, and any values of the time limits.                  *)
(***************************************************************************)
EXTENDS AlertDispatch, TLAPS

\* A worker settles its claim before the claim counts as abandoned.
Prompt == MaxHold < StaleClaim

\* The part of TypeOK about the batches, and the part about the flags.
BatchesTyped ==
    /\ batch \in [Batch -> Work]
    /\ \A b \in Batch : batch[b].step \in {"find", "claim", "send", "record", "fail"}
                           => batch[b].cur \in Recipient

FlagsTyped == enabled \in BOOLEAN /\ fired \in BOOLEAN

\* Replacing the work of one batch by typed work keeps the batches typed.
LEMMA ReplaceTyped ==
    ASSUME BatchesTyped, NEW b \in Batch, NEW w \in Work,
           w.step \in {"find", "claim", "send", "record", "fail"} => w.cur \in Recipient,
           batch' = [batch EXCEPT ![b] = w]
    PROVE  BatchesTyped'
  BY DEF BatchesTyped

\* A batch without work is typed work.
LEMMA IdleTyped == Idle \in Work /\ Idle.step = "idle"
  BY DEF Idle, Work, Step

\* Going to another step is typed when the batch has a recipient for it.
LEMMA GoTyped ==
    ASSUME BatchesTyped, NEW b \in Batch, NEW step \in Step, Go(b, step),
           step \in {"find", "claim", "send", "record", "fail"} => batch[b].cur \in Recipient
    PROVE  BatchesTyped'
<1> DEFINE w == [batch[b] EXCEPT !.step = step]
<1>1. batch[b] \in Work
  BY DEF BatchesTyped
<1>2. w \in Work /\ w.step = step /\ w.cur = batch[b].cur
  BY <1>1 DEF Work, Step
<1>3. batch' = [batch EXCEPT ![b] = w]
  BY DEF Go
<1> QED
  BY <1>2, <1>3, ReplaceTyped

\* The end of an iteration is typed.
LEMMA DoneTyped ==
    ASSUME BatchesTyped, NEW b \in Batch, Done(b)
    PROVE  BatchesTyped'
<1> DEFINE w == IF batch[b].todo = {} THEN Idle
                ELSE [batch[b] EXCEPT !.step = "next", !.cur = Nobody]
<1>1. batch[b] \in Work
  BY DEF BatchesTyped
<1>2. w \in Work /\ w.step \in {"idle", "next"}
  BY <1>1, IdleTyped DEF Work, Step
<1>3. batch' = [batch EXCEPT ![b] = w]
  BY DEF Done
<1> QED
  BY <1>2, <1>3, ReplaceTyped

LEMMA InitSound == Init => AlertInv
<1> SUFFICES ASSUME Init PROVE AlertInv
  OBVIOUS
<1> USE DEF Init
<1>1. TypeOK
  <2>1. NoEntry \in Entry
    BY DEF NoEntry, Entry
  <2>2. BatchesTyped
    BY IdleTyped DEF BatchesTyped
  <2>3. FlagsTyped
    BY Zenon DEF FlagsTyped
  <2>4. now \in Nat /\ due \in Nat /\ aborts \in Nat /\ missing \subseteq Recipient
    OBVIOUS
  <2>5. log \in [Recipient -> Entry] /\ mailed \in [Recipient -> Nat]
    BY <2>1
  <2> QED BY <2>2, <2>3, <2>4, <2>5 DEF TypeOK, BatchesTyped, FlagsTyped
<1>2. ClaimsExclusive
  BY DEF ClaimsExclusive, Holding, Idle
<1>3. \A b \in Batch : ClaimSound(b)
  BY DEF ClaimSound, Holding, Idle
<1>4. \A x \in Recipient :
                     /\ mailed[x] <= log[x].attempt_count
                     /\ log[x].status = "none" => log[x].attempt_count = 0
  <2> TAKE x \in Recipient
  <2>1. log[x] = NoEntry /\ mailed[x] = 0
    OBVIOUS
  <2> QED BY <2>1 DEF NoEntry
<1> QED
  BY <1>1, <1>2, <1>3, <1>4 DEF AlertInv

\* The batches stay typed.
LEMMA BatchesStep == BatchesTyped /\ missing \subseteq Recipient /\ now \in Nat /\ [Next]_vars => BatchesTyped'
<1> SUFFICES ASSUME BatchesTyped, missing \subseteq Recipient, now \in Nat, [Next]_vars
             PROVE  BatchesTyped'
  OBVIOUS
<1>1. ASSUME NEW b \in Batch, Start(b) PROVE BatchesTyped'
  <2>1. CASE Fire(b)
    BY <2>1, GoTyped DEF Fire, Step
  <2>2. CASE SendManual(b)
    <3>1. PICK who \in (SUBSET missing) \ {{}} :
             batch' = [batch EXCEPT ![b] = [@ EXCEPT !.step = "next", !.todo = who]]
      BY <2>2 DEF SendManual
    <3> DEFINE w == [batch[b] EXCEPT !.step = "next", !.todo = who]
    <3>2. batch[b] \in Work
      BY DEF BatchesTyped
    <3>3. w \in Work /\ w.step = "next"
      BY <3>2 DEF Work, Step
    <3> QED BY <3>1, <3>3, ReplaceTyped
  <2> QED BY <1>1, <2>1, <2>2 DEF Start
<1>2. ASSUME NEW b \in Batch, Proceed(b) PROVE BatchesTyped'
  <2>w. batch[b] \in Work
    BY DEF BatchesTyped
  <2>1. CASE Resolve(b)
    <3> DEFINE w == IF enabled /\ missing # {}
                    THEN [batch[b] EXCEPT !.step = "next", !.todo = missing]
                    ELSE Idle
    <3>1. w \in Work /\ w.step \in {"idle", "next"}
      BY <2>w, IdleTyped DEF Work, Step
    <3>2. batch' = [batch EXCEPT ![b] = w]
      BY <2>1 DEF Resolve
    <3> QED BY <3>1, <3>2, ReplaceTyped
  <2>2. CASE Create(b)
    <3>1. PICK x \in batch[b].todo, step \in {"send", "find"}, at \in {now, batch[b].at} :
             batch' = [batch EXCEPT ![b] = [step |-> step, todo |-> @.todo \ {x},
                                            cur |-> x, at |-> at]]
      BY <2>2 DEF Create
    <3> DEFINE w == [step |-> step, todo |-> batch[b].todo \ {x}, cur |-> x, at |-> at]
    <3>2. w \in Work /\ w.cur \in Recipient
      BY <2>w DEF Work, Step
    <3> QED BY <3>1, <3>2, ReplaceTyped
  <2>3. CASE Find(b)
    <3>1. CASE Done(b)
      BY <3>1, DoneTyped
    <3>2. CASE batch' = [batch EXCEPT ![b] = [@ EXCEPT !.step = "claim", !.at = now]]
      <4> DEFINE w == [batch[b] EXCEPT !.step = "claim", !.at = now]
      <4>1. w \in Work /\ w.cur \in Recipient
        BY <2>3, <2>w DEF Work, Step, Find, BatchesTyped
      <4> QED BY <3>2, <4>1, ReplaceTyped
    <3> QED BY <2>3, <3>1, <3>2 DEF Find
  <2>4. CASE Claim(b)
    BY <2>4, GoTyped, DoneTyped DEF Claim, Step, BatchesTyped
  <2>5. CASE Send(b)
    BY <2>5, GoTyped DEF Send, Step, BatchesTyped
  <2>6. CASE Record(b)
    BY <2>6, GoTyped, DoneTyped DEF Record, Step, BatchesTyped
  <2>7. CASE Fail(b)
    BY <2>7, DoneTyped DEF Fail
  <2> QED BY <1>2, <2>1, <2>2, <2>3, <2>4, <2>5, <2>6, <2>7 DEF Proceed
<1>3. ASSUME NEW b \in Batch, Abort(b) PROVE BatchesTyped'
  BY <1>3, IdleTyped, ReplaceTyped DEF Abort
<1>4. CASE Environment
  BY <1>4 DEF Environment, Tick, Switch, Move, Complete, BatchesTyped
<1>5. CASE UNCHANGED vars
  BY <1>5 DEF vars, BatchesTyped
<1> QED BY <1>1, <1>2, <1>3, <1>4, <1>5 DEF Next

\* The flags stay Boolean.
LEMMA FlagsStep == FlagsTyped /\ [Next]_vars => FlagsTyped'
  BY Zenon DEF FlagsTyped, Next, vars, Start, Proceed, Environment, Quiet, Fire, SendManual,
     Resolve, Create, Find, Claim, Send, Record, Fail, Abort, Tick, Switch, Move, Complete

\* The counters, the rows and the recipients keep their types.
LEMMA DataStep ==
    ASSUME TypeOK, [Next]_vars
    PROVE  /\ now' \in Nat /\ due' \in Nat /\ aborts' \in Nat
           /\ missing' \subseteq Recipient
           /\ log' \in [Recipient -> Entry]
           /\ mailed' \in [Recipient -> Nat]
<1> USE AlertDispatchAssumption
<1> USE DEF TypeOK
<1>1. ASSUME NEW b \in Batch, Start(b) \/ Abort(b)
      PROVE  UNCHANGED <<now, due, missing, log, mailed>> /\ aborts' \in Nat
  <2>1. CASE Fire(b)
    BY <2>1 DEF Fire, Quiet
  <2>2. CASE SendManual(b)
    BY <2>2 DEF SendManual, Quiet
  <2>3. CASE Abort(b)
    BY <2>3 DEF Abort
  <2> QED BY <1>1, <2>1, <2>2, <2>3 DEF Start
<1>2. ASSUME NEW b \in Batch, Proceed(b)
      PROVE  /\ UNCHANGED <<now, due, missing, aborts>>
             /\ log' \in [Recipient -> Entry] /\ mailed' \in [Recipient -> Nat]
  <2>w. batch[b] \in Work
    OBVIOUS
  <2>q. Quiet
    BY <1>2 DEF Proceed, Resolve, Create, Find, Claim, Send, Record, Fail
  <2>m. mailed' \in [Recipient -> Nat]
    <3>1. CASE Send(b)
      BY <3>1 DEF Send
    <3> QED BY <1>2, <3>1 DEF Proceed, Resolve, Create, Find, Claim, Record, Fail
  <2>l. log' \in [Recipient -> Entry]
    <3>1. CASE Create(b)
      BY <3>1, <2>w DEF Create, Entry, AlertStatus, Work
    <3>2. CASE Claim(b)
      <4>1. batch[b].cur \in Recipient /\ batch[b].at \in Nat
        BY <3>2, <2>w DEF Claim, Work
      <4> QED BY <3>2, <4>1 DEF Claim, Entry, AlertStatus
    <3>3. CASE Record(b)
      BY <3>3 DEF Record, Entry, AlertStatus
    <3>4. CASE Fail(b)
      BY <3>4 DEF Fail, Entry, AlertStatus
    <3> QED BY <1>2, <3>1, <3>2, <3>3, <3>4 DEF Proceed, Resolve, Find, Send
  <2> QED BY <2>q, <2>m, <2>l DEF Quiet
<1>3. CASE Tick \/ Switch \/ Complete
  BY <1>3 DEF Tick, Switch, Complete
<1>4. CASE Move
  BY <1>4 DEF Move
<1>5. CASE UNCHANGED vars
  BY <1>5 DEF vars
<1> QED BY <1>1, <1>2, <1>3, <1>4, <1>5 DEF Next, Environment

\* The types survive every step.
LEMMA TypeStep == TypeOK /\ [Next]_vars => TypeOK'
  BY BatchesStep, FlagsStep, DataStep DEF TypeOK, BatchesTyped, FlagsTyped

\* A batch is not disturbed by what another one does to a recipient it does not
\* hold, as long as that recipient has a row.
LEMMA OthersKeep ==
    ASSUME AlertInv, NEW c \in Batch, NEW x \in Recipient,
           batch'[c] = batch[c], now' = now,
           \A y \in Recipient \ {x} : log'[y] = log[y] /\ mailed'[y] = mailed[y],
           ~(Holding(c) /\ batch[c].cur = x),
           log'[x].status # "none" \/ log'[x].status = log[x].status
    PROVE  ClaimSound(c)' /\ Holding(c)' = Holding(c)
<1>1. batch[c].step \in {"find", "claim", "send", "record", "fail"} => batch[c].cur \in Recipient
  BY DEF AlertInv, TypeOK
<1>2. ClaimSound(c)
  BY DEF AlertInv
<1> QED
  BY <1>1, <1>2 DEF ClaimSound, Holding

\* A recipient held by one worker is free for no other: its claim is PROCESSING
\* and, since workers are prompt, not old enough.
LEMMA HeldIsNotFree ==
    ASSUME Prompt, AlertInv, NEW b \in Batch, NEW c \in Batch,
           batch[b].step = "claim", Holding(c), batch[c].cur = batch[b].cur
    PROVE  ~Free(batch[b].cur, batch[b].at)
<1>1. /\ now \in Nat /\ batch[b].at \in Nat /\ batch[c].at \in Nat
      /\ MaxHold \in Nat /\ StaleClaim \in Nat
  BY AlertDispatchAssumption DEF AlertInv, TypeOK, Work
<1>2. /\ log[batch[c].cur].status = "PROCESSING"
      /\ log[batch[c].cur].claimed_at = batch[c].at
      /\ now - batch[c].at <= MaxHold
  BY DEF AlertInv, ClaimSound
<1>3. batch[b].at <= now
  BY DEF AlertInv, ClaimSound
<1> QED
  BY <1>1, <1>2, <1>3 DEF Free, Prompt

\* Only one batch changes in a step of a batch.
LEMMA OneBatchMoves ==
    ASSUME TypeOK, NEW b \in Batch, Start(b) \/ Proceed(b) \/ Abort(b)
    PROVE  /\ \A c \in Batch \ {b} : batch'[c] = batch[c]
           /\ now' = now
<1>1. CASE Start(b)
  BY <1>1 DEF Start, Fire, SendManual, Go, Quiet, TypeOK
<1>2. CASE Abort(b)
  BY <1>2 DEF Abort, TypeOK
<1>3. CASE Proceed(b)
  <2>1. \A c \in Batch \ {b} : batch'[c] = batch[c]
    BY <1>3 DEF Proceed, Resolve, Create, Find, Claim, Send, Record, Fail, Go, Done, TypeOK
  <2>2. now' = now
    BY <1>3 DEF Proceed, Resolve, Create, Find, Claim, Send, Record, Fail, Quiet
  <2> QED BY <2>1, <2>2
<1> QED
  BY <1>1, <1>2, <1>3

\* A step of a batch that changes the rows and mails of no recipient.
LEMMA PrivateStep ==
    ASSUME AlertInv, NEW b \in Batch, Start(b) \/ Proceed(b) \/ Abort(b),
           UNCHANGED <<log, mailed>>,
           ClaimSound(b)',
           Holding(b)' => Holding(b) /\ batch'[b].cur = batch[b].cur
    PROVE  ClaimsExclusive' /\ \A c \in Batch : ClaimSound(c)'
<1>1. /\ \A c \in Batch \ {b} : batch'[c] = batch[c]
      /\ now' = now
  BY OneBatchMoves DEF AlertInv
<1>2. \A c \in Batch \ {b} : ClaimSound(c)' /\ (Holding(c)' <=> Holding(c))
  BY <1>1 DEF AlertInv, ClaimSound, Holding
<1>3. ClaimsExclusive'
  BY <1>1, <1>2 DEF AlertInv, ClaimsExclusive
<1> QED
  BY <1>2, <1>3

\* A step of a batch on a recipient that no other batch holds.
LEMMA OwnStep ==
    ASSUME AlertInv, NEW b \in Batch, Proceed(b), NEW x \in Recipient,
           \A y \in Recipient \ {x} : log'[y] = log[y] /\ mailed'[y] = mailed[y],
           log'[x].status # "none",
           \A c \in Batch \ {b} : ~(Holding(c) /\ batch[c].cur = x),
           ClaimSound(b)',
           Holding(b)' => batch'[b].cur = x
    PROVE  ClaimsExclusive' /\ \A c \in Batch : ClaimSound(c)'
<1>1. /\ \A c \in Batch \ {b} : batch'[c] = batch[c]
      /\ now' = now
  BY OneBatchMoves DEF AlertInv
<1>2. ASSUME NEW c \in Batch \ {b} PROVE ClaimSound(c)' /\ Holding(c)' = Holding(c)
  BY <1>1, OthersKeep
<1>3. ClaimsExclusive'
  BY <1>1, <1>2 DEF AlertInv, ClaimsExclusive, Holding
<1> QED
  BY <1>2, <1>3

\* Nobody else works on the recipient of a batch that holds it.
LEMMA HeldAlone ==
    ASSUME AlertInv, NEW b \in Batch, Holding(b), NEW c \in Batch \ {b}
    PROVE  ~(Holding(c) /\ batch[c].cur = batch[b].cur)
  BY DEF AlertInv, ClaimsExclusive

\* What a batch is left with at the end of an iteration asks for nothing.
LEMMA DoneSound ==
    ASSUME TypeOK, NEW b \in Batch, Done(b)
    PROVE  ClaimSound(b)' /\ ~Holding(b)'
<1>1. batch[b] \in Work
  BY DEF TypeOK
<1>2. batch'[b].step \in {"idle", "next"}
  BY <1>1 DEF Done, Idle, Work, TypeOK
<1> QED
  BY <1>2 DEF ClaimSound, Holding

\* The claims stay exclusive and sound over every step of a batch.
LEMMA BatchStep ==
    ASSUME Prompt, AlertInv, NEW b \in Batch, Start(b) \/ Proceed(b) \/ Abort(b)
    PROVE  /\ ClaimsExclusive' /\ \A c \in Batch : ClaimSound(c)'
           /\ \A x \in Recipient :
                 /\ mailed'[x] <= log'[x].attempt_count
                 /\ log'[x].status = "none" => log'[x].attempt_count = 0
<1> DEFINE Mails == \A x \in Recipient :
                     /\ mailed[x] <= log[x].attempt_count
                     /\ log[x].status = "none" => log[x].attempt_count = 0
<1>t. /\ batch \in [Batch -> Work] /\ log \in [Recipient -> Entry]
      /\ mailed \in [Recipient -> Nat] /\ now \in Nat /\ missing \subseteq Recipient
      /\ MaxHold \in Nat /\ TypeOK
      /\ batch[b].step \in {"find", "claim", "send", "record", "fail"}
            => batch[b].cur \in Recipient
  BY AlertDispatchAssumption DEF AlertInv, TypeOK
<1>w. /\ batch[b].todo \subseteq Recipient /\ batch[b].at \in Nat
      /\ \A x \in Recipient : /\ log[x].attempt_count \in Nat
                               /\ mailed[x] \in Nat /\ mailed[x] <= log[x].attempt_count
  BY <1>t DEF Work, Entry, AlertInv
<1>s. ClaimSound(b) /\ Mails
  BY DEF AlertInv
<1>1. CASE Start(b)
  <2>1. batch'[b].step \in {"resolve", "next"}
    <3>1. CASE Fire(b)
      BY <3>1, <1>t DEF Fire, Go, Work
    <3>2. CASE SendManual(b)
      BY <3>2, <1>t DEF SendManual, Work
    <3> QED BY <1>1, <3>1, <3>2 DEF Start
  <2>2. UNCHANGED <<log, mailed>>
    BY <1>1, Zenon DEF Start, Fire, SendManual
  <2>3. ClaimSound(b)' /\ ~Holding(b)'
    BY <2>1 DEF ClaimSound, Holding
  <2> QED BY <2>2, <2>3, <1>s, <1>1, PrivateStep
<1>2. CASE Abort(b)
  <2>1. ClaimSound(b)' /\ ~Holding(b)' /\ UNCHANGED <<log, mailed>>
    BY <1>2, <1>t DEF Abort, Idle, ClaimSound, Holding
  <2> QED BY <2>1, <1>s, <1>2, PrivateStep
<1>3. CASE Resolve(b)
  <2>1. batch'[b].step \in {"idle", "next"}
    BY <1>3, <1>t DEF Resolve, Idle, Work
  <2>2. ClaimSound(b)' /\ ~Holding(b)' /\ UNCHANGED <<log, mailed>>
    BY <2>1, <1>3 DEF Resolve, ClaimSound, Holding
  <2> QED BY <2>2, <1>s, <1>3, PrivateStep DEF Proceed
<1>4. CASE Create(b)
  <2>1. PICK x \in batch[b].todo :
           IF log[x].status = "none"
           THEN /\ log' = [log EXCEPT ![x] = [status |-> "PROCESSING", claimed_at |-> now,
                                              attempt_count |-> 1]]
                /\ batch' = [batch EXCEPT ![b] = [step |-> "send", todo |-> @.todo \ {x},
                                                  cur |-> x, at |-> now]]
           ELSE /\ batch' = [batch EXCEPT ![b] = [step |-> "find", todo |-> @.todo \ {x},
                                                  cur |-> x, at |-> @.at]]
                /\ UNCHANGED log
    BY <1>4 DEF Create
  <2>2. x \in Recipient /\ mailed' = mailed /\ now' = now
    BY <2>1, <1>w, <1>4 DEF Create, Quiet
  <2>3. CASE log[x].status = "none"
    <3>1. /\ log'[x] = [status |-> "PROCESSING", claimed_at |-> now, attempt_count |-> 1]
          /\ \A y \in Recipient \ {x} : log'[y] = log[y]
          /\ batch'[b].step = "send" /\ batch'[b].cur = x /\ batch'[b].at = now
      BY <2>1, <2>2, <2>3, <1>t
    <3>2. \A c \in Batch \ {b} : ~(Holding(c) /\ batch[c].cur = x)
      BY <2>3 DEF AlertInv, ClaimSound
    <3>3. mailed[x] = 0
      <4>1. log[x].attempt_count = 0
        BY <2>2, <2>3 DEF AlertInv
      <4> QED BY <4>1, <2>2, <1>w
    <3>4. ClaimSound(b)'
      BY <3>1, <3>3, <2>2, <1>t DEF ClaimSound, Holding
    <3>5. Mails'
      BY <3>1, <3>3, <2>2, <1>s
    <3> QED BY <3>1, <3>2, <3>4, <3>5, <2>2, <1>4, OwnStep DEF Proceed
  <2>4. CASE log[x].status # "none"
    <3>1. batch'[b].step = "find" /\ batch'[b].cur = x /\ log' = log
      BY <2>1, <2>4, <1>t
    <3>2. ClaimSound(b)' /\ ~Holding(b)'
      BY <3>1, <2>4 DEF ClaimSound, Holding
    <3> QED BY <3>1, <3>2, <2>2, <1>s, <1>4, PrivateStep DEF Proceed
  <2> QED BY <2>3, <2>4
<1>5. CASE Find(b)
  <2>1. UNCHANGED <<log, mailed, now>>
    BY <1>5 DEF Find, Quiet
  <2>2. ClaimSound(b)' /\ ~Holding(b)'
    <3>1. CASE Done(b)
      BY <3>1, <1>t, DoneSound
    <3>2. CASE batch' = [batch EXCEPT ![b] = [@ EXCEPT !.step = "claim", !.at = now]]
      <4>1. batch'[b].step = "claim" /\ batch'[b].at = now /\ batch'[b].cur = batch[b].cur
        BY <3>2, <1>t DEF Work
      <4> QED BY <4>1, <2>1, <1>5, <1>s, <1>t DEF Find, ClaimSound, Holding
    <3> QED BY <1>5, <3>1, <3>2 DEF Find
  <2> QED BY <2>1, <2>2, <1>s, <1>5, PrivateStep DEF Proceed
<1>6. CASE Claim(b)
  <2> DEFINE x == batch[b].cur
  <2>1. x \in Recipient /\ UNCHANGED <<mailed, now>>
    BY <1>6, <1>t DEF Claim, Quiet
  <2>2. CASE Free(x, batch[b].at)
    <3>1. /\ log'[x] = [status |-> "PROCESSING", claimed_at |-> batch[b].at,
                        attempt_count |-> log[x].attempt_count + 1]
          /\ \A y \in Recipient \ {x} : log'[y] = log[y]
      BY <1>6, <2>1, <2>2, <1>t DEF Claim
    <3>2. batch'[b].step = "send" /\ batch'[b].cur = x /\ batch'[b].at = batch[b].at
      BY <1>6, <2>2, <1>t DEF Claim, Go, Work
    <3>3. \A c \in Batch \ {b} : ~(Holding(c) /\ batch[c].cur = x)
      BY <1>6, <2>2, HeldIsNotFree DEF Claim
    <3>4. ClaimSound(b)'
      BY <3>1, <3>2, <2>1, <1>6, <1>s, <1>w DEF Claim, ClaimSound, Holding
    <3>5. Mails'
      BY <3>1, <2>1, <1>w, <1>s
    <3> QED BY <3>1, <3>2, <3>3, <3>4, <3>5, <2>1, <1>6, OwnStep DEF Proceed
  <2>3. CASE ~Free(x, batch[b].at)
    <3>1. Done(b) /\ UNCHANGED log
      BY <1>6, <2>3 DEF Claim
    <3> QED BY <3>1, <2>1, <1>s, <1>t, <1>6, DoneSound, PrivateStep DEF Proceed
  <2> QED BY <2>2, <2>3
<1>7. CASE Send(b)
  <2> DEFINE x == batch[b].cur
  <2>1. x \in Recipient /\ UNCHANGED <<log, now>> /\ Holding(b)
    BY <1>7, <1>t DEF Send, Quiet, Holding
  <2>2. PICK reached \in BOOLEAN, ok \in BOOLEAN :
           /\ ok => reached
           /\ mailed' = [mailed EXCEPT ![x] = IF reached THEN @ + 1 ELSE @]
           /\ Go(b, IF ok THEN "record" ELSE "fail")
    BY <1>7 DEF Send
  <2>3. /\ mailed'[x] \in {mailed[x], mailed[x] + 1}
        /\ \A y \in Recipient \ {x} : mailed'[y] = mailed[y]
        /\ ok => mailed'[x] = mailed[x] + 1
    BY <2>1, <2>2, <1>t
  <2>4. /\ batch'[b].step = IF ok THEN "record" ELSE "fail"
        /\ batch'[b].cur = x /\ batch'[b].at = batch[b].at
    BY <2>2, <1>t DEF Go, Work
  <2>5. mailed[x] < log[x].attempt_count /\ log[x].status = "PROCESSING"
    BY <1>7, <2>1, <1>s DEF Send, ClaimSound
  <2>6. ok => mailed'[x] > 0
    BY <2>3, <2>1, <1>w
  <2>7. ClaimSound(b)'
    BY <2>1, <2>4, <2>6, <1>s DEF ClaimSound, Holding
  <2>8. Mails'
    BY <2>1, <2>3, <2>5, <1>w, <1>s
  <2> QED BY <2>1, <2>3, <2>4, <2>5, <2>7, <2>8, <1>7, HeldAlone, OwnStep DEF Proceed
<1>8. CASE Record(b)
  <2> DEFINE x == batch[b].cur
  <2>1. x \in Recipient /\ UNCHANGED <<mailed, now>> /\ Holding(b)
    BY <1>8, <1>t DEF Record, Quiet, Holding
  <2>2. CASE log' = [log EXCEPT ![x].status = "SENT"] /\ Done(b)
    <3>1. /\ log'[x].status = "SENT" /\ log'[x].attempt_count = log[x].attempt_count
          /\ \A y \in Recipient \ {x} : log'[y] = log[y]
      BY <2>1, <2>2, <1>t DEF Entry
    <3>2. Mails'
      BY <3>1, <2>1, <1>s
    <3> QED BY <3>1, <3>2, <2>1, <2>2, <1>8, <1>t, DoneSound, HeldAlone, OwnStep DEF Proceed
  <2>3. CASE Go(b, "fail") /\ UNCHANGED log
    <3>1. batch'[b].step = "fail" /\ batch'[b].cur = x /\ batch'[b].at = batch[b].at
      BY <2>3, <1>t DEF Go, Work
    <3>2. ClaimSound(b)'
      BY <3>1, <2>1, <2>3, <1>s DEF ClaimSound, Holding
    <3> QED BY <3>1, <3>2, <2>1, <2>3, <1>s, <1>8, PrivateStep DEF Proceed
  <2> QED BY <1>8, <2>2, <2>3 DEF Record
<1>9. CASE Fail(b)
  <2> DEFINE x == batch[b].cur
  <2>1. x \in Recipient /\ UNCHANGED <<mailed, now>> /\ Holding(b) /\ Done(b)
    BY <1>9, <1>t DEF Fail, Quiet, Holding
  <2>2. log[x].status = "PROCESSING"
    BY <2>1, <1>s DEF ClaimSound
  <2>3. /\ log'[x].status = "FAILED" /\ log'[x].attempt_count = log[x].attempt_count
        /\ \A y \in Recipient \ {x} : log'[y] = log[y]
    BY <1>9, <2>1, <2>2, <1>t DEF Fail, Entry
  <2>4. Mails'
    BY <2>1, <2>3, <1>s
  <2> QED BY <2>1, <2>3, <2>4, <1>9, <1>t, DoneSound, HeldAlone, OwnStep DEF Proceed
<1> QED
  BY <1>1, <1>2, <1>3, <1>4, <1>5, <1>6, <1>7, <1>8, <1>9 DEF Proceed

\* The clock, the switches and the recipients leave the claims sound.
LEMMA EnvironmentStep ==
    ASSUME AlertInv, Environment
    PROVE  /\ ClaimsExclusive' /\ \A c \in Batch : ClaimSound(c)'
           /\ UNCHANGED <<log, mailed>>
<1>1. UNCHANGED <<log, mailed, batch>>
  BY Zenon DEF Environment, Tick, Switch, Move, Complete
<1>2. ClaimsExclusive'
  BY <1>1 DEF AlertInv, ClaimsExclusive, Holding
<1>3. CASE Tick
  <2>1. \A b \in Batch : batch[b].at \in Nat
    BY DEF AlertInv, TypeOK, Work
  <2>2. now \in Nat /\ now' = now + 1 /\ MaxHold \in Nat
    BY <1>3, AlertDispatchAssumption DEF Tick, AlertInv, TypeOK
  <2>3. ASSUME NEW b \in Batch PROVE ClaimSound(b)'
    <3>1. Holding(b) \/ batch[b].step = "claim" => now - batch[b].at < MaxHold
      BY <1>3 DEF Tick
    <3>2. ClaimSound(b)
      BY DEF AlertInv
    <3> QED BY <3>1, <3>2, <2>1, <2>2, <1>1 DEF ClaimSound, Holding
  <2> QED BY <1>1, <1>2, <2>3
<1>4. CASE Switch \/ Move \/ Complete
  <2>1. now' = now
    BY <1>4, Zenon DEF Switch, Move, Complete
  <2>2. \A b \in Batch : ClaimSound(b)'
    BY <2>1, <1>1 DEF AlertInv, ClaimSound, Holding
  <2> QED BY <1>1, <1>2, <2>2
<1> QED
  BY <1>3, <1>4 DEF Environment

\* Every step keeps the invariant.
LEMMA InvStep == Prompt /\ AlertInv /\ [Next]_vars => AlertInv'
<1> SUFFICES ASSUME Prompt, AlertInv, [Next]_vars PROVE AlertInv'
  OBVIOUS
<1>1. TypeOK'
  BY TypeStep DEF AlertInv
<1>2. ASSUME NEW b \in Batch, Start(b) \/ Proceed(b) \/ Abort(b) PROVE AlertInv'
  BY <1>1, <1>2, BatchStep DEF AlertInv
<1>3. CASE Environment
  BY <1>1, <1>3, EnvironmentStep DEF AlertInv
<1>4. CASE UNCHANGED vars
  BY <1>1, <1>4 DEF vars, AlertInv, ClaimsExclusive, ClaimSound, Holding
<1> QED
  BY <1>2, <1>3, <1>4 DEF Next

\* When workers settle their claims before they count as abandoned, the claims of
\* claimAlert are sound in every reachable state, however many batches overlap or
\* die, and whatever the provider does.
THEOREM AlertInvariant == ASSUME Prompt PROVE Spec => []AlertInv
<1>1. Init => AlertInv
  BY InitSound
<1>2. AlertInv /\ [Next]_vars => AlertInv'
  BY InvStep
<1> QED
  BY <1>1, <1>2, PTL DEF Spec

\* Under the same assumption no two batches are ever at work on one recipient.
THEOREM Exclusive == ASSUME Prompt PROVE Spec => []ClaimsExclusive
<1>1. AlertInv => ClaimsExclusive
  BY DEF AlertInv
<1> QED
  BY <1>1, AlertInvariant, PTL

\* A step of a batch is a step of the ledger or leaves it alone.
LEMMA LedgerStep ==
    ASSUME AlertInv, [Next]_vars
    PROVE  [Ledger!LedgerNext]_(Ledger!ledger)
<1> USE DEF Ledger!ledger, state, attempts
<1>t. log \in [Recipient -> Entry] /\ mailed \in [Recipient -> Nat]
  BY DEF AlertInv, TypeOK
<1>1. ASSUME UNCHANGED <<log, mailed>> PROVE UNCHANGED Ledger!ledger
  BY <1>1
<1>2. ASSUME NEW b \in Batch, Proceed(b)
      PROVE  [Ledger!LedgerNext]_(Ledger!ledger)
  <2> DEFINE x == batch[b].cur
  <2>w. batch[b].todo \subseteq Recipient
    BY DEF AlertInv, TypeOK, Work
  <2>x. batch[b].step \in {"claim", "send", "record", "fail"} => x \in Recipient
    BY DEF AlertInv, TypeOK
  <2>s. ClaimSound(b)
    BY DEF AlertInv
  <2>1. CASE Create(b)
    <3>1. CASE UNCHANGED log
      BY <2>1, <3>1, <1>1 DEF Create
    <3>2. CASE log' # log
      <4>1. PICK y \in Recipient :
               /\ log[y].status = "none"
               /\ log' = [log EXCEPT ![y] = [status |-> "PROCESSING", claimed_at |-> now,
                                             attempt_count |-> 1]]
        BY <2>1, <3>2, <2>w DEF Create
      <4>2. log[y].attempt_count = 0 /\ mailed' = mailed
        BY <2>1, <4>1 DEF AlertInv, Create
      <4>3. state' = [state EXCEPT ![y] = "PROCESSING"]
        BY <4>1, <1>t
      <4>4. attempts' = [attempts EXCEPT ![y] = @ + 1]
        <5>1. log'[y].attempt_count = 1 /\ \A z \in Recipient \ {y} : log'[z] = log[z]
          BY <4>1, <1>t
        <5>2. attempts[y] + 1 = 1
          BY <4>2
        <5>3. attempts' = [z \in Recipient |-> IF z = y THEN 1 ELSE attempts[z]]
          BY <5>1
        <5> QED BY <5>2, <5>3
      <4>5. state[y] # "SENT"
        BY <4>1
      <4> QED BY <4>2, <4>3, <4>4, <4>5 DEF Ledger!LedgerNext, Ledger!Attempt
    <3> QED BY <3>1, <3>2
  <2>2. CASE Claim(b)
    <3>1. CASE UNCHANGED log
      BY <2>2, <3>1, <1>1 DEF Claim
    <3>2. CASE log' # log
      <4>1. /\ Free(x, batch[b].at) /\ x \in Recipient /\ mailed' = mailed
            /\ log' = [log EXCEPT ![x] = [status |-> "PROCESSING", claimed_at |-> batch[b].at,
                                          attempt_count |-> @.attempt_count + 1]]
        BY <2>2, <3>2, <2>x DEF Claim
      <4>2. state' = [state EXCEPT ![x] = "PROCESSING"]
        BY <4>1, <1>t
      <4>3. attempts' = [attempts EXCEPT ![x] = @ + 1]
        BY <4>1, <1>t
      <4>4. state[x] # "SENT"
        BY <4>1 DEF Free
      <4> QED BY <4>1, <4>2, <4>3, <4>4 DEF Ledger!LedgerNext, Ledger!Attempt
    <3> QED BY <3>1, <3>2
  <2>3. CASE Send(b)
    <3>1. x \in Recipient /\ log' = log
      BY <2>3, <2>x DEF Send
    <3>2. state[x] = "PROCESSING" /\ mailed[x] < attempts[x]
      BY <2>3, <2>s, <3>1 DEF Send, ClaimSound, Holding
    <3>3. mailed' = [mailed EXCEPT ![x] = @ + 1] \/ mailed' = mailed
      BY <2>3, <3>1, <1>t DEF Send
    <3> QED BY <3>1, <3>2, <3>3 DEF Ledger!LedgerNext, Ledger!Mail
  <2>4. CASE Record(b)
    <3>1. CASE UNCHANGED log
      BY <2>4, <3>1, <1>1 DEF Record
    <3>2. CASE log' # log
      <4>1. x \in Recipient /\ mailed' = mailed /\ log' = [log EXCEPT ![x].status = "SENT"]
        BY <2>4, <3>2, <2>x DEF Record
      <4>2. state[x] = "PROCESSING" /\ mailed[x] > 0
        BY <2>4, <2>s, <4>1 DEF Record, ClaimSound, Holding
      <4>3. state' = [state EXCEPT ![x] = "SENT"] /\ attempts' = attempts
        BY <4>1, <1>t DEF Entry
      <4>4. Ledger!Settle(x, "SENT")
        BY <4>1, <4>2, <4>3 DEF Ledger!Settle
      <4> QED BY <4>1, <4>4 DEF Ledger!LedgerNext
    <3> QED BY <3>1, <3>2
  <2>5. CASE Fail(b)
    <3>1. x \in Recipient /\ mailed' = mailed /\ log[x].status = "PROCESSING"
      BY <2>5, <2>x, <2>s DEF Fail, ClaimSound, Holding
    <3>2. log' = [log EXCEPT ![x].status = "FAILED"]
      BY <2>5, <3>1 DEF Fail
    <3>3. state' = [state EXCEPT ![x] = "FAILED"] /\ attempts' = attempts /\ state[x] = "PROCESSING"
      BY <3>1, <3>2, <1>t DEF Entry
    <3>4. Ledger!Settle(x, "FAILED")
      BY <3>1, <3>3 DEF Ledger!Settle
    <3> QED BY <3>1, <3>4 DEF Ledger!LedgerNext
  <2>6. CASE Resolve(b) \/ Find(b)
    BY <2>6, <1>1 DEF Resolve, Find
  <2> QED BY <1>2, <2>1, <2>2, <2>3, <2>4, <2>5, <2>6 DEF Proceed
<1>3. ASSUME NEW b \in Batch, Start(b) \/ Abort(b) PROVE UNCHANGED Ledger!ledger
  <2>1. UNCHANGED <<log, mailed>>
    BY <1>3, Zenon DEF Start, Fire, SendManual, Abort
  <2> QED BY <2>1, <1>1
<1>4. CASE Environment
  BY <1>4, EnvironmentStep, <1>1
<1>5. CASE UNCHANGED vars
  BY <1>5, <1>1 DEF vars
<1> QED
  BY <1>2, <1>3, <1>4, <1>5 DEF Next

\* Under the same assumption the batches implement the ledger: no mail without an
\* open attempt, one mail per attempt, none after SENT.
THEOREM Implements == ASSUME Prompt PROVE Spec => KeepsLedger
<1>1. Init => Ledger!LedgerInit
  BY DEF Init, Ledger!LedgerInit, state, attempts, NoEntry
<1>2. AlertInv /\ [Next]_vars => [Ledger!LedgerNext]_(Ledger!ledger)
  BY LedgerStep
<1> QED
  BY <1>1, <1>2, AlertInvariant, PTL DEF Spec, KeepsLedger, Ledger!LedgerSpec

=============================================================================
