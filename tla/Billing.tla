------------------------------ MODULE Billing ------------------------------
(***************************************************************************)
(* One restaurant's subscription: its charges, the payment gateway, and    *)
(* every request that may touch them concurrently -- Pay now, the verify   *)
(* poll, Paystack's webhooks, the administrator's endpoints and the        *)
(* billing sweep (app/services/billing.py and the routers that call it).   *)
(*                                                                         *)
(* The database is PostgreSQL at READ COMMITTED (RowLock) or SQLite        *)
(* (~RowLock).  A session keeps the first copy of a row it loads (the      *)
(* identity map; expire_on_commit=False and no populate_existing), so a    *)
(* process carries its own `sub' and works on that copy even after it has  *)
(* taken the row lock, and a commit writes only the columns whose value    *)
(* differs from the copy.                                                  *)
(*                                                                         *)
(* Days are the unit of time.  The idempotency key names a day; the index  *)
(* uq_open_charge_per_period compares timestamps, and of two periods that  *)
(* start on one day the model leaves open whether they start together.     *)
(***************************************************************************)
EXTENDS Integers, Sequences, FiniteSets

CONSTANTS
  Requests,     \* slots for HTTP requests: any may be any kind of request
  Sweeper,      \* the one scheduler process
  TrialDays, PeriodDays,
  RetryDays,    \* DUNNING_RETRY_HOURS in days; its length is the tries allowed
  RowLock,      \* TRUE: SELECT ... FOR UPDATE locks (PostgreSQL)
  Kinds,        \* which kinds of work arrive, a subset of AllKinds
  CrashPoints,  \* program points where a process may die
  LostReplies,  \* TRUE: the gateway may accept a charge and its reply be lost
  Overnight,    \* TRUE: a request or an open charge may outlive the day
  MaxDay,       \* bound on the clock and on administrators' grants
  MaxCharges    \* bound on charge rows ever inserted

AllKinds == {"pay", "poll", "hook", "admin", "sweep", "reconcile"}
Points == {"idle", "initiate", "checked", "sent", "verify", "settle",
           "candidates", "hook", "admin"}

ASSUME BillingAssumption ==
  /\ Sweeper \notin Requests
  /\ TrialDays \in Nat /\ PeriodDays \in Nat \ {0}
  /\ RetryDays \in Seq(Nat)
  /\ {RowLock, LostReplies, Overnight} \subseteq BOOLEAN
  /\ Kinds \subseteq AllKinds /\ CrashPoints \subseteq Points \ {"idle"}
  /\ MaxDay \in Nat /\ MaxCharges \in Nat

VARIABLES
  now,      \* today
  sub,      \* the committed row of subscriptions
  charges,  \* the rows of billing_charges
  aged,     \* processing charges older than CHARGE_STALE_MINUTES
  ledger,   \* references in processed_callbacks
  gateway,  \* what Paystack knows of each charge
  proc      \* the requests in flight and the sweeper

vars == <<now, sub, charges, aged, ledger, gateway, proc>>

Procs == Requests \cup {Sweeper}
ChargeIds == 1 .. MaxCharges
None == -1  \* a null timestamp

SubRow == [status : {"trialing", "active", "past_due", "suspended"},
           trialEnds : Nat, periodEnd : Nat \cup {None},
           attempts : Nat, retryAt : Nat \cup {None}]

\* "pending" is a row flushed inside a transaction that has not committed: no
\* path commits it, so no other session sees it.  "lost" is one rolled back.
ChargeRow == [status : {"none", "pending", "processing", "success",
                        "failed", "lost"},
              start : Nat, attempt : Nat, ref : BOOLEAN]

Process == [pc : Points, sub : SubRow, chg : Nat, start : Nat,
            ans : {"none", "pending", "paid", "declined", "finalized"}]

\* Where a process works on one charge.
Carrying == {"sent", "verify", "settle", "hook"}

TypeOK ==
  /\ now \in Nat
  /\ sub \in SubRow
  /\ charges \in [ChargeIds -> ChargeRow]
  /\ aged \subseteq ChargeIds
  /\ ledger \subseteq ChargeIds
  /\ gateway \in [ChargeIds -> {"none", "pending", "paid", "declined"}]
  /\ proc \in [Procs -> Process]
  /\ \A p \in Procs : proc[p].pc \in Carrying => proc[p].chg \in ChargeIds

\* The row start_trial inserts when a restaurant registers.
NewSubscription ==
  [status |-> "trialing", trialEnds |-> TrialDays, periodEnd |-> None,
   attempts |-> 0, retryAt |-> None]

NoCharge == [status |-> "none", start |-> 0, attempt |-> 0, ref |-> FALSE]

Idle == [pc |-> "idle", sub |-> NewSubscription, chg |-> 0, start |-> 0,
         ans |-> "none"]

Init ==
  /\ now = 0
  /\ sub = NewSubscription
  /\ charges = [c \in ChargeIds |-> NoCharge]
  /\ aged = {} /\ ledger = {}
  /\ gateway = [c \in ChargeIds |-> "none"]
  /\ proc = [p \in Procs |-> Idle]

-----------------------------------------------------------------------------
(* The rows a session sees, and how it writes them back.                   *)

Terminal == {"success", "failed"}
Visible(c) == charges[c].status \in Terminal \cup {"processing"}
Open(c) == charges[c].status \in {"pending", "processing"}

\* Who holds the subscription's row lock -- or, on SQLite, the write lock that
\* the first flush of a transaction takes.
Holding == IF RowLock THEN {"checked", "sent"} ELSE {"sent"}

\* Mutant: a plain SELECT, without FOR UPDATE.
FreeAlways(p) == TRUE

Free(p) == \A q \in Procs \ {p} : proc[q].pc \notin Holding

\* The unit of work's UPDATE: a column is written when its new value differs
\* from the one this session loaded, whatever the row holds by now.
Written(loaded, new, row) ==
  [status    |-> IF new.status # loaded.status THEN new.status ELSE row.status,
   trialEnds |-> IF new.trialEnds # loaded.trialEnds
                   THEN new.trialEnds ELSE row.trialEnds,
   periodEnd |-> IF new.periodEnd # loaded.periodEnd
                   THEN new.periodEnd ELSE row.periodEnd,
   attempts  |-> IF new.attempts # loaded.attempts
                   THEN new.attempts ELSE row.attempts,
   retryAt   |-> IF new.retryAt # loaded.retryAt
                   THEN new.retryAt ELSE row.retryAt]

HasAccess(s, day) ==
  /\ s.status \in {"trialing", "active", "past_due"}
  /\ s.status = "trialing" => day < s.trialEnds

\* is_renewal_due, and the sweep's own test for a past-due subscription.
RenewalDue(s, day) ==
  \/ s.status = "trialing" /\ day >= s.trialEnds
  \/ s.status = "active" /\ s.periodEnd # None /\ day >= s.periodEnd
Due(s, day) ==
  \/ RenewalDue(s, day)
  \/ s.status = "past_due" /\ s.retryAt # None /\ day >= s.retryAt

\* Mutants: no test for a null period_end; the paid period is not looked at.
PeriodStartNull(s, day) ==
  IF s.periodEnd < day - PeriodDays THEN day ELSE s.periodEnd
PeriodStartToday(s, day) == IF s.trialEnds > day THEN s.trialEnds ELSE day

\* _period_for: the first day a charge created today would pay for.
PeriodStart(s, day) ==
  LET paid  == IF s.periodEnd = None THEN day ELSE s.periodEnd
      start == IF s.trialEnds > paid THEN s.trialEnds ELSE paid
  IN  IF start < day - PeriodDays THEN day ELSE start

\* The idempotency key, less the subscription's id.
Key(start, attempt) == <<start, attempt>>
KeyOf(c) == Key(charges[c].start, charges[c].attempt)

ApplySuccess(s, c) ==
  [s EXCEPT !.status = "active", !.periodEnd = charges[c].start + PeriodDays,
            !.attempts = 0, !.retryAt = None]

\* Mutant: the schedule is indexed modulo its length, "=" for ">=".
ApplyFailureWraps(s, day) ==
  LET n == s.attempts + 1
  IN  IF n = Len(RetryDays)
        THEN [s EXCEPT !.attempts = n, !.status = "suspended",
                       !.retryAt = None]
        ELSE [s EXCEPT !.attempts = n, !.status = "past_due",
                       !.retryAt = day + RetryDays[(n % Len(RetryDays)) + 1]]

\* Mutant: a declined charge ends the period already paid for.
ApplyFailureEndsPeriod(s, day) ==
  [s EXCEPT !.attempts = @ + 1, !.retryAt = None, !.periodEnd = day,
            !.status = IF s.attempts + 1 >= Len(RetryDays)
                         THEN "suspended" ELSE "past_due"]

ApplyFailure(s, day) ==
  LET n == s.attempts + 1
  IN  IF n >= Len(RetryDays)
        THEN [s EXCEPT !.attempts = n, !.status = "suspended",
                       !.retryAt = None]
        ELSE [s EXCEPT !.attempts = n, !.status = "past_due",
                       !.retryAt = day + RetryDays[n + 1]]

Outcome(s, c, ans) ==
  IF ans = "paid" THEN ApplySuccess(s, c)
  ELSE IF ans = "declined" THEN ApplyFailure(s, now) ELSE s

Finish(p) == proc' = [proc EXCEPT ![p] = Idle]

-----------------------------------------------------------------------------
(* Requests arrive.  The router loads the subscription before anything     *)
(* else, so that copy is the one every later step of the request uses.     *)

PayStart(p) ==
  /\ "pay" \in Kinds /\ proc[p].pc = "idle"
  /\ proc' = [proc EXCEPT ![p] = [Idle EXCEPT !.pc = "initiate", !.sub = sub]]
  /\ UNCHANGED <<now, sub, charges, aged, ledger, gateway>>

PollStart(p, c) ==
  /\ "poll" \in Kinds /\ proc[p].pc = "idle"
  /\ charges[c].status = "processing"
  /\ proc' = [proc EXCEPT ![p] =
                [Idle EXCEPT !.pc = "verify", !.sub = sub, !.chg = c]]
  /\ UNCHANGED <<now, sub, charges, aged, ledger, gateway>>

\* run_billing_sweep's second query: TRIALING, ACTIVE or PAST_DUE by the row,
\* due by the session's copy of it.
Candidate(copy) == sub.status # "suspended" /\ Due(copy, now)
Considered(copy) ==
  IF Candidate(copy) THEN [Idle EXCEPT !.pc = "initiate", !.sub = copy] ELSE Idle

\* Mutant: only a subscription that is due has its stale charges reconciled.
SweepStartDueOnly ==
  /\ "sweep" \in Kinds /\ proc[Sweeper].pc = "idle" /\ Candidate(sub)
  /\ \/ \E c \in aged :
          /\ charges[c].status = "processing"
          /\ proc' = [proc EXCEPT ![Sweeper] =
                        [Idle EXCEPT !.pc = "verify", !.chg = c]]
     \/ /\ aged = {}
        /\ proc' = [proc EXCEPT ![Sweeper] = Considered(sub)]
  /\ UNCHANGED <<now, sub, charges, aged, ledger, gateway>>

SweepStart ==
  /\ "sweep" \in Kinds /\ proc[Sweeper].pc = "idle"
  /\ \/ \E c \in aged :
          /\ charges[c].status = "processing"
          /\ proc' = [proc EXCEPT ![Sweeper] =
                        [Idle EXCEPT !.pc = "verify", !.chg = c]]
     \/ /\ aged = {} /\ Candidate(sub)
        /\ proc' = [proc EXCEPT ![Sweeper] = Considered(sub)]
  /\ UNCHANGED <<now, sub, charges, aged, ledger, gateway>>

SweepCandidates ==
  /\ proc[Sweeper].pc = "candidates"
  /\ proc' = [proc EXCEPT ![Sweeper] = Considered(proc[Sweeper].sub)]
  /\ UNCHANGED <<now, sub, charges, aged, ledger, gateway>>

-----------------------------------------------------------------------------
(* initiate_charge                                                         *)

\* 1) An open charge is returned rather than stacked upon.
ReuseOpen(p) ==
  /\ proc[p].pc = "initiate" /\ (RowLock => Free(p))
  /\ \E c \in ChargeIds : charges[c].status = "processing"
  /\ Finish(p)
  /\ UNCHANGED <<now, sub, charges, aged, ledger, gateway>>

\* 2) So is any committed charge with the key this attempt would have.
ReuseKey(p) ==
  LET s == proc[p].sub IN
  /\ proc[p].pc = "initiate" /\ (RowLock => Free(p))
  /\ ~ \E c \in ChargeIds : charges[c].status = "processing"
  /\ \E c \in ChargeIds :
       Visible(c) /\ KeyOf(c) = Key(PeriodStart(s, now), s.attempts + 1)
  /\ Finish(p)
  /\ UNCHANGED <<now, sub, charges, aged, ledger, gateway>>

Proceed(p) ==
  LET s == proc[p].sub  start == PeriodStart(s, now) IN
  /\ proc[p].pc = "initiate" /\ (RowLock => Free(p))
  /\ ~ \E c \in ChargeIds : charges[c].status = "processing"
  /\ ~ \E c \in ChargeIds :
         Visible(c) /\ KeyOf(c) = Key(start, s.attempts + 1)
  /\ proc' = [proc EXCEPT ![p].pc = "checked", ![p].start = start]
  /\ UNCHANGED <<now, sub, charges, aged, ledger, gateway>>

\* Mutant: the key is unique among open charges only.
KeyTakenOpen(p) ==
  \E c \in ChargeIds :
    /\ charges[c].status = "processing"
    /\ KeyOf(c) = Key(proc[p].start, proc[p].sub.attempts + 1)

\* The unique key refuses the flush.
KeyTaken(p) ==
  \E c \in ChargeIds :
    Visible(c) /\ KeyOf(c) = Key(proc[p].start, proc[p].sub.attempts + 1)

\* An open charge's period starts on the same day.  If at the same instant,
\* uq_open_charge_per_period refuses the flush; if one start was taken from
\* the clock, or from another administrator's grant, it does not.
PeriodOpen(p) ==
  \E c \in ChargeIds :
    charges[c].status = "processing" /\ charges[c].start = proc[p].start

\* 3) The row is flushed and the STK push goes out, in the same transaction.
Insert(p) ==
  /\ proc[p].pc = "checked" /\ Free(p) /\ ~ KeyTaken(p)
  /\ \E c \in ChargeIds :
       /\ charges[c].status = "none"
       /\ \A d \in 1 .. c - 1 : charges[d].status # "none"
       /\ charges' = [charges EXCEPT ![c] =
                        [status |-> "pending", start |-> proc[p].start,
                         attempt |-> proc[p].sub.attempts + 1, ref |-> FALSE]]
       /\ proc' = [proc EXCEPT ![p].pc = "sent", ![p].chg = c]
  /\ UNCHANGED <<now, sub, aged, ledger, gateway>>

InsertRefused(p) ==
  /\ proc[p].pc = "checked" /\ Free(p) /\ (KeyTaken(p) \/ PeriodOpen(p))
  /\ Finish(p)
  /\ UNCHANGED <<now, sub, charges, aged, ledger, gateway>>

\* Mutant: a prompt that was sent counts as paid.
ReplyOptimistic(p) ==
  /\ proc[p].pc = "sent" /\ gateway[proc[p].chg] # "none"
  /\ charges' = [charges EXCEPT ![proc[p].chg].status = "success",
                                ![proc[p].chg].ref = TRUE]
  /\ Finish(p)
  /\ UNCHANGED <<now, sub, aged, ledger, gateway>>

\* The gateway's reply: still waiting for the customer's PIN, ...
ReplyPending(p) ==
  /\ proc[p].pc = "sent" /\ gateway[proc[p].chg] # "none"
  /\ charges' = [charges EXCEPT ![proc[p].chg].status = "processing",
                                ![proc[p].chg].ref = TRUE]
  /\ Finish(p)
  /\ UNCHANGED <<now, sub, aged, ledger, gateway>>

\* ... already decided, ...
ReplyDecided(p) ==
  LET c == proc[p].chg  copy == proc[p].sub IN
  /\ proc[p].pc = "sent" /\ gateway[c] \in {"paid", "declined"}
  /\ charges' = [charges EXCEPT
       ![c].status = IF gateway[c] = "paid" THEN "success" ELSE "failed",
       ![c].ref = TRUE]
  /\ sub' = Written(copy, Outcome(copy, c, gateway[c]), sub)
  /\ Finish(p)
  /\ UNCHANGED <<now, aged, ledger, gateway>>

\* Mutant: the row of a failed request is deleted, freeing its key.
ReplyErrorDeletes(p) ==
  /\ proc[p].pc = "sent" /\ (gateway[proc[p].chg] = "none" \/ LostReplies)
  /\ charges' = [charges EXCEPT ![proc[p].chg] = NoCharge]
  /\ Finish(p)
  /\ UNCHANGED <<now, sub, aged, ledger, gateway>>

\* ... or an error (or there was no owner to bill): the charge fails with no
\* reference, and the subscription's dunning state is left alone.
ReplyError(p) ==
  LET c == proc[p].chg IN
  /\ proc[p].pc = "sent" /\ (gateway[c] = "none" \/ LostReplies)
  /\ charges' = [charges EXCEPT ![c].status = "failed"]
  /\ Finish(p)
  /\ UNCHANGED <<now, sub, aged, ledger, gateway>>

-----------------------------------------------------------------------------
(* verify_charge_now and _expire_stale_charges: ask the gateway, then lock *)
(* and settle.  The charge was loaded as PROCESSING and db.get returns     *)
(* that same copy after the lock, so neither sees a settlement that was    *)
(* committed in between.                                                   *)

Verify(p) ==
  /\ proc[p].pc = "verify"
  /\ proc' = [proc EXCEPT ![p].pc = "settle", ![p].ans = gateway[proc[p].chg]]
  /\ UNCHANGED <<now, sub, charges, aged, ledger, gateway>>

\* PaystackError: the poll gives up; the sweep moves on to its second query.
VerifyFails(p) ==
  /\ proc[p].pc = "verify"
  /\ proc' = [proc EXCEPT ![p] = IF p = Sweeper THEN Considered(sub) ELSE Idle]
  /\ UNCHANGED <<now, sub, charges, aged, ledger, gateway>>

\* The poll works on the router's copy of the subscription; the sweep loads it
\* only now, under the lock.
Settle(p) ==
  LET c    == proc[p].chg
      ans  == proc[p].ans
      copy == IF p = Sweeper THEN sub ELSE proc[p].sub
      new  == Outcome(copy, c, ans)
  IN
  /\ proc[p].pc = "settle" /\ Free(p)
  /\ charges' = [charges EXCEPT ![c].status =
       CASE ans = "paid" -> "success" [] ans = "declined" -> "failed"
         [] OTHER -> charges[c].status]
  /\ sub' = Written(copy, new, sub)
  /\ aged' = IF ans = "pending" THEN aged ELSE aged \ {c}
  /\ proc' = [proc EXCEPT ![p] =
       IF p = Sweeper THEN [Idle EXCEPT !.pc = "candidates", !.sub = new]
                      ELSE Idle]
  /\ UNCHANGED <<now, ledger, gateway>>

-----------------------------------------------------------------------------
(* process_webhook                                                         *)

\* An event whose reference no committed charge carries (yet) is recorded and
\* dropped; one already in the ledger changes nothing.
HookUnmatched(c) ==
  /\ "hook" \in Kinds /\ gateway[c] \in {"paid", "declined"}
  /\ c \notin ledger /\ ~ (Visible(c) /\ charges[c].ref)
  /\ RowLock \/ \A q \in Procs : proc[q].pc # "sent"
  /\ ledger' = ledger \cup {c}
  /\ UNCHANGED <<now, sub, charges, aged, gateway, proc>>

HookStart(p, c) ==
  /\ "hook" \in Kinds /\ proc[p].pc = "idle"
  /\ gateway[c] \in {"paid", "declined"}
  /\ c \notin ledger /\ Visible(c) /\ charges[c].ref
  /\ proc' = [proc EXCEPT ![p] =
       [Idle EXCEPT !.pc = "hook", !.chg = c,
          !.ans = IF charges[c].status \in Terminal
                    THEN "finalized" ELSE gateway[c]]]
  /\ UNCHANGED <<now, sub, charges, aged, ledger, gateway>>

\* Mutant: no ledger row is inserted beside the settlement.
HookApplyUnrecorded(p) ==
  LET c == proc[p].chg  ans == proc[p].ans IN
  /\ proc[p].pc = "hook" /\ Free(p)
  /\ charges' = [charges EXCEPT ![c].status =
       CASE ans = "paid" -> "success" [] ans = "declined" -> "failed"
         [] OTHER -> charges[c].status]
  /\ sub' = Outcome(sub, c, ans)
  /\ aged' = aged \ {c}
  /\ Finish(p)
  /\ UNCHANGED <<now, ledger, gateway>>

\* Under the lock the subscription is read afresh but the charge is not; the
\* ledger row's uniqueness is what stops a second delivery of the same event.
HookApply(p) ==
  LET c == proc[p].chg  ans == proc[p].ans IN
  /\ proc[p].pc = "hook" /\ Free(p) /\ c \notin ledger
  /\ charges' = [charges EXCEPT ![c].status =
       CASE ans = "paid" -> "success" [] ans = "declined" -> "failed"
         [] OTHER -> charges[c].status]
  /\ sub' = Outcome(sub, c, ans)
  /\ ledger' = ledger \cup {c}
  /\ aged' = aged \ {c}
  /\ Finish(p)
  /\ UNCHANGED <<now, gateway>>

\* IntegrityError on the ledger row: the router rolls back and still acks.
HookRefused(p) ==
  /\ proc[p].pc = "hook" /\ Free(p) /\ proc[p].chg \in ledger
  /\ Finish(p)
  /\ UNCHANGED <<now, sub, charges, aged, ledger, gateway>>

-----------------------------------------------------------------------------
(* The administrator's endpoints read the row, change the copy and commit, *)
(* with no SELECT ... FOR UPDATE; their UPDATE waits for the row lock.     *)

AdminStart(p) ==
  /\ "admin" \in Kinds /\ proc[p].pc = "idle"
  /\ proc' = [proc EXCEPT ![p] = [Idle EXCEPT !.pc = "admin", !.sub = sub]]
  /\ UNCHANGED <<now, sub, charges, aged, ledger, gateway>>

Later(a, b) == IF a > b THEN a ELSE b

ExtendTrial(s, days) ==
  [s EXCEPT !.trialEnds = Later(s.trialEnds, now) + days,
            !.status = "trialing"]
CompMonth(s) ==
  [s EXCEPT !.status = "active", !.attempts = 0, !.retryAt = None,
            !.periodEnd = Later(s.periodEnd, now) + PeriodDays]
Suspend(s) == [s EXCEPT !.status = "suspended", !.retryAt = None]
Reactivate(s) ==
  [s EXCEPT !.status = "active", !.attempts = 0, !.retryAt = None,
            !.periodEnd = now + PeriodDays]

AdminCommit(p) ==
  LET copy == proc[p].sub IN
  /\ proc[p].pc = "admin" /\ Free(p)
  /\ \E new \in {ExtendTrial(copy, 1), CompMonth(copy), Suspend(copy),
                 Reactivate(copy)} :
       /\ {new.trialEnds, new.periodEnd} \subseteq None .. MaxDay + PeriodDays
       /\ sub' = Written(copy, new, sub)
  /\ Finish(p)
  /\ UNCHANGED <<now, charges, aged, ledger, gateway>>

-----------------------------------------------------------------------------
(* The environment: the gateway, the clock, and failures.                  *)

GatewayAccept(p) ==
  LET c == proc[p].chg IN
  /\ proc[p].pc = "sent" /\ gateway[c] = "none"
  /\ gateway' = [gateway EXCEPT ![c] = "pending"]
  /\ UNCHANGED <<now, sub, charges, aged, ledger, proc>>

GatewayDecide(c) ==
  /\ gateway[c] = "pending"
  /\ \E v \in {"paid", "declined"} : gateway' = [gateway EXCEPT ![c] = v]
  /\ UNCHANGED <<now, sub, charges, aged, ledger, proc>>

\* requested_at falls behind the stale cutoff.
Age(c) ==
  /\ "reconcile" \in Kinds
  /\ charges[c].status = "processing" /\ c \notin aged
  /\ aged' = aged \cup {c}
  /\ UNCHANGED <<now, sub, charges, ledger, gateway, proc>>

Tick ==
  /\ now < MaxDay /\ now' = now + 1
  /\ \/ Overnight
     \/ /\ \A p \in Procs : proc[p].pc = "idle"
        /\ \A c \in ChargeIds : charges[c].status # "processing"
  /\ UNCHANGED <<sub, charges, aged, ledger, gateway, proc>>

\* A worker dies, a client disconnects or an exception escapes: the open
\* transaction is rolled back and with it a charge row not yet committed.
Crash(p) ==
  /\ proc[p].pc \in CrashPoints
  /\ charges' = IF proc[p].pc = "sent"
                  THEN [charges EXCEPT ![proc[p].chg].status = "lost"]
                  ELSE charges
  /\ Finish(p)
  /\ UNCHANGED <<now, sub, aged, ledger, gateway>>

-----------------------------------------------------------------------------
Request(p) ==
  \/ PayStart(p) \/ AdminStart(p) \/ AdminCommit(p)
  \/ \E c \in ChargeIds : PollStart(p, c) \/ HookStart(p, c)
  \/ HookApply(p) \/ HookRefused(p)

Reply(p) == ReplyPending(p) \/ ReplyDecided(p) \/ ReplyError(p)

Step(p) ==
  \/ ReuseOpen(p) \/ ReuseKey(p) \/ Proceed(p) \/ Insert(p)
  \/ InsertRefused(p) \/ Reply(p) \/ Verify(p) \/ VerifyFails(p)
  \/ Settle(p) \/ Crash(p) \/ GatewayAccept(p)

Next ==
  \/ \E p \in Requests : Request(p)
  \/ \E p \in Procs : Step(p)
  \/ SweepStart \/ SweepCandidates
  \/ \E c \in ChargeIds : HookUnmatched(c) \/ GatewayDecide(c) \/ Age(c)
  \/ Tick

Spec == Init /\ [][Next]_vars

(* The scheduler fires every 15 minutes; every statement and HTTP call     *)
(* returns or times out; PostgreSQL grants a row lock in turn; and the     *)
(* gateway answers verify if it is asked often enough.                     *)
Fairness ==
  /\ \A c \in ChargeIds : WF_vars(Age(c))
  /\ WF_vars(SweepStart) /\ WF_vars(SweepCandidates)
  /\ SF_vars(Verify(Sweeper)) /\ SF_vars(Settle(Sweeper))
  /\ \A p \in Procs : WF_vars(Reply(p)) /\ WF_vars(Insert(p) \/ InsertRefused(p))
  /\ SF_vars(ReuseOpen(Sweeper) \/ ReuseKey(Sweeper) \/ Proceed(Sweeper))

FairSpec == Spec /\ Fairness

-----------------------------------------------------------------------------
(* Properties                                                              *)

\* SECURITY.md "Billing integrity": at no moment do two charges of the
\* subscription, committed or in flight, await payment -- whatever period each
\* is for.  On PostgreSQL it rests on initiate_charge looking for an open charge
\* under the row lock it keeps until the gateway has replied; on SQLite, which
\* has none (billing.py:91), on the keys, as long as no administrator moves the
\* period and no charge outlives the day.
OneOpenCharge ==
  \A c, d \in ChargeIds : Open(c) /\ Open(d) => c = d

\* Nothing is settled against the gateway: a charge recorded as paid was paid,
\* and one recorded as failed under a reference was declined, although
\* webhooks, polls and the sweep settle it concurrently from stale copies.
SettledAsGateway ==
  \A c \in ChargeIds :
    /\ charges[c].status = "success" => gateway[c] = "paid"
    /\ charges[c].status = "failed" /\ charges[c].ref => gateway[c] = "declined"

\* The tries counted against the subscription are exactly the charges the
\* customer declined since the last payment, however often and however
\* concurrently their webhooks are delivered (billing.py:321).  It is claimed
\* where webhooks alone settle charges: a poll beside one counts a second
\* strike, as AppliedOnce shows.
Declined(c) == charges[c].status = "failed" /\ charges[c].ref
StrikesMatchDeclines ==
  sub.attempts = Cardinality({c \in ChargeIds : Declined(c) /\
                   \A d \in ChargeIds : charges[d].status = "success" => d < c})

\* No payment takes away days already paid for.
PaymentNeverShortens == [][sub'.periodEnd >= sub.periodEnd]_vars

\* Two charges on record that the customer paid, credited already or not, are
\* for different days (BILLING.md "Why it can't double-charge").  A prompt whose
\* row was rolled back, or failed because the reply was lost, has no reference
\* on record; paid all the same, it is not among them, and its days can be
\* charged again.
PaidOnRecord(c) == gateway[c] = "paid" /\ charges[c].ref
PeriodsDisjoint ==
  \A c, d \in ChargeIds :
    PaidOnRecord(c) /\ PaidOnRecord(d) /\ c < d
      => charges[c].start + PeriodDays <= charges[d].start

\* BILLING.md, "Reconciling a lost webhook": a payment the customer made for a
\* charge on record is credited even if no webhook ever arrives.
PaidIsCredited ==
  \A c \in ChargeIds :
    (gateway[c] = "paid" /\ charges[c].status = "processing")
      ~> charges[c].status = "success"

PaymentRecorded ==
  \E c \in ChargeIds :
    charges[c].status # "success" /\ charges'[c].status = "success"

\* Where no administrator acts, a suspension is the end of the dunning schedule
\* (BILLING.md:20-28): nothing but a payment recorded ends it, in particular
\* not a further decline, which reads the schedule past its end.
OnlyPaymentLiftsSuspension ==
  [][sub.status = "suspended" /\ sub'.status # "suspended"
       => PaymentRecorded]_vars

\* admin.py:514: "Manually suspend a restaurant (blocks POS; ...)".  A suspension
\* is ended by an administrator or by a payment.
SuspensionBlocks ==
  [][sub.status = "suspended" /\ sub'.status # "suspended" =>
       PaymentRecorded \/ \E p \in Requests : AdminCommit(p)]_vars

\* billing.py:511: "a poll racing an inbound webhook cannot apply the same
\* payment twice" -- what a webhook, a poll or the sweep applies to the
\* subscription is never the outcome of a charge already settled.
AppliedOnce ==
  [][\A p \in Procs :
       (HookApply(p) \/ Settle(p)) /\ proc[p].ans \in {"paid", "declined"}
         => charges[proc[p].chg].status \notin Terminal]_vars

-----------------------------------------------------------------------------
(* Billing implements the charge lifecycle: a row not yet committed is a   *)
(* prompt already made, and a charge that failed with no reference, like   *)
(* one rolled back, was dropped.                                           *)

RecordOf(row) ==
  CASE row.status = "none" -> "none"
    [] row.status \in {"pending", "processing"} -> "open"
    [] row.status = "success" -> "success"
    [] row.status = "failed" /\ row.ref -> "failed"
    [] OTHER -> "dropped"

VerdictOf(g) == IF g \in {"paid", "declined"} THEN g ELSE "undecided"

Recorded == [c \in ChargeIds |-> RecordOf(charges[c])]
Verdicts == [c \in ChargeIds |-> VerdictOf(gateway[c])]

Lifecycle == INSTANCE ChargeLifecycle
               WITH Charges <- ChargeIds, record <- Recorded, verdict <- Verdicts

\* The charges table and the gateway together behave as the lifecycle says.
ImplementsLifecycle == Lifecycle!LifecycleSpec

=============================================================================
