--------------------------- MODULE BillingProofs ---------------------------
(***************************************************************************)
(* Machine-checked facts about Billing for every number of requests, every *)
(* bound and every dunning schedule: type correctness; on PostgreSQL, at   *)
(* most one open charge; agreement with the gateway; the refinement of the *)
(* charge lifecycle; and, where only requests and webhooks settle charges, *)
(* the subscription's bookkeeping.                                         *)
(***************************************************************************)
EXTENDS Billing, FiniteSetTheorems, TLAPS

-----------------------------------------------------------------------------
(* Type correctness                                                        *)

LEMMA NewSubscriptionType == NewSubscription \in SubRow
BY BillingAssumption DEF NewSubscription, SubRow

LEMMA ChargeIdNat == \A c \in ChargeIds : c \in Nat
BY BillingAssumption DEF ChargeIds

LEMMA IdleType == Idle \in Process
BY NewSubscriptionType DEF Idle, Process, Points

LEMMA WrittenType ==
  ASSUME NEW loaded \in SubRow, NEW new \in SubRow, NEW row \in SubRow
  PROVE  Written(loaded, new, row) \in SubRow
BY DEF Written, SubRow

LEMMA OutcomeType ==
  ASSUME TypeOK, NEW s \in SubRow, NEW c \in ChargeIds, NEW ans
  PROVE  Outcome(s, c, ans) \in SubRow
<1>1. ApplySuccess(s, c) \in SubRow
  <2>1. charges[c].start \in Nat
    BY DEF TypeOK, ChargeRow
  <2>2. charges[c].start + PeriodDays \in Nat
    BY <2>1, BillingAssumption
  <2>. QED
    BY <2>2 DEF ApplySuccess, SubRow
<1>2. ApplyFailure(s, now) \in SubRow
  <2>. DEFINE n == s.attempts + 1
  <2>0. n \in Nat
    BY DEF SubRow
  <2>1. CASE n >= Len(RetryDays)
    <3>1. ApplyFailure(s, now) = [s EXCEPT !.attempts = n,
             !.status = "suspended", !.retryAt = None]
      BY <2>1 DEF ApplyFailure
    <3>. HIDE DEF n
    <3>. QED
      BY <2>0, <3>1 DEF SubRow
  <2>2. CASE ~ (n >= Len(RetryDays))
    <3>1. n + 1 \in 1 .. Len(RetryDays)
      BY <2>0, <2>2, BillingAssumption
    <3>2. now + RetryDays[n + 1] \in Nat
      BY <3>1, BillingAssumption DEF TypeOK
    <3>3. ApplyFailure(s, now) = [s EXCEPT !.attempts = n,
             !.status = "past_due", !.retryAt = now + RetryDays[n + 1]]
      BY <2>2 DEF ApplyFailure
    <3>. HIDE DEF n
    <3>. QED
      BY <2>0, <3>2, <3>3 DEF SubRow
  <2>. QED
    BY <2>1, <2>2
<1>. QED
  BY <1>1, <1>2 DEF Outcome

LEMMA PeriodStartType ==
  ASSUME NEW s \in SubRow, NEW day \in Nat
  PROVE  PeriodStart(s, day) \in Nat
BY DEF PeriodStart, SubRow, None

LEMMA AdminType ==
  ASSUME TypeOK, NEW s \in SubRow
  PROVE  {ExtendTrial(s, 1), CompMonth(s), Suspend(s), Reactivate(s)}
           \subseteq SubRow
<1>1. Later(s.trialEnds, now) + 1 \in Nat
  BY DEF Later, SubRow, TypeOK
<1>2. Later(s.periodEnd, now) + PeriodDays \in Nat
  BY BillingAssumption DEF Later, SubRow, TypeOK, None
<1>3. now + PeriodDays \in Nat
  BY BillingAssumption DEF TypeOK
<1>4. ExtendTrial(s, 1) \in SubRow
  BY <1>1 DEF ExtendTrial, SubRow
<1>5. CompMonth(s) \in SubRow
  BY <1>2 DEF CompMonth, SubRow
<1>6. Suspend(s) \in SubRow
  BY DEF Suspend, SubRow
<1>7. Reactivate(s) \in SubRow
  BY <1>3 DEF Reactivate, SubRow
<1>. QED
  BY <1>4, <1>5, <1>6, <1>7

\* What a process does to itself keeps proc well-typed.
LEMMA ProcType ==
  ASSUME TypeOK, NEW p \in Procs, NEW v \in Process,
         v.pc \in Carrying => v.chg \in ChargeIds,
         proc' = [proc EXCEPT ![p] = v]
  PROVE  /\ proc' \in [Procs -> Process]
         /\ \A q \in Procs : proc'[q].pc \in Carrying => proc'[q].chg \in ChargeIds
BY DEF TypeOK

LEMMA FinishType ==
  ASSUME TypeOK, NEW p \in Procs, Finish(p)
  PROVE  /\ proc' \in [Procs -> Process]
         /\ \A q \in Procs : proc'[q].pc \in Carrying => proc'[q].chg \in ChargeIds
BY IdleType, ProcType DEF Finish, Idle, Carrying

LEMMA ConsideredType ==
  ASSUME NEW copy \in SubRow
  PROVE  Considered(copy) \in Process /\ Considered(copy).pc \notin Carrying
BY IdleType DEF Considered, Idle, Process, Points, Carrying

LEMMA RequestType ==
  ASSUME TypeOK, NEW p \in Requests, Request(p)
  PROVE  TypeOK'
<1> USE IdleType, NewSubscriptionType
<1>0. p \in Procs
  BY DEF Procs
<1>1. CASE PayStart(p)
  <2>. DEFINE v == [Idle EXCEPT !.pc = "initiate", !.sub = sub]
  <2>1. v \in Process /\ v.pc \notin Carrying
    BY DEF TypeOK, Idle, Process, Points, Carrying
  <2>2. proc' = [proc EXCEPT ![p] = v]
    BY <1>1 DEF PayStart
  <2>. HIDE DEF v
  <2>. QED
    BY <1>0, <1>1, <2>1, <2>2, ProcType DEF PayStart, TypeOK
<1>2. CASE AdminStart(p)
  <2>. DEFINE v == [Idle EXCEPT !.pc = "admin", !.sub = sub]
  <2>1. v \in Process /\ v.pc \notin Carrying
    BY DEF TypeOK, Idle, Process, Points, Carrying
  <2>2. proc' = [proc EXCEPT ![p] = v]
    BY <1>2 DEF AdminStart
  <2>. HIDE DEF v
  <2>. QED
    BY <1>0, <1>2, <2>1, <2>2, ProcType DEF AdminStart, TypeOK
<1>3. CASE AdminCommit(p)
  <2>1. proc[p].sub \in SubRow
    BY <1>0 DEF TypeOK, Process
  <2>2. PICK new \in SubRow : sub' = Written(proc[p].sub, new, sub)
    BY <1>3, <2>1, AdminType DEF AdminCommit
  <2>3. sub' \in SubRow
    BY <2>1, <2>2, WrittenType DEF TypeOK
  <2>. QED
    BY <1>0, <1>3, <2>3, FinishType DEF AdminCommit, TypeOK
<1>4. ASSUME NEW c \in ChargeIds, PollStart(p, c) PROVE TypeOK'
  <2>. DEFINE v == [Idle EXCEPT !.pc = "verify", !.sub = sub, !.chg = c]
  <2>1. v \in Process /\ v.chg \in ChargeIds
    BY ChargeIdNat DEF TypeOK, Idle, Process, Points
  <2>2. proc' = [proc EXCEPT ![p] = v]
    BY <1>4 DEF PollStart
  <2>. HIDE DEF v
  <2>. QED
    BY <1>0, <1>4, <2>1, <2>2, ProcType DEF PollStart, TypeOK
<1>5. ASSUME NEW c \in ChargeIds, HookStart(p, c) PROVE TypeOK'
  <2>. DEFINE v == [Idle EXCEPT !.pc = "hook", !.chg = c,
                      !.ans = IF charges[c].status \in Terminal
                                THEN "finalized" ELSE gateway[c]]
  <2>1. v \in Process /\ v.chg \in ChargeIds
    BY <1>5, ChargeIdNat DEF HookStart, TypeOK, Idle, Process, Points
  <2>2. proc' = [proc EXCEPT ![p] = v]
    BY <1>5 DEF HookStart
  <2>. HIDE DEF v
  <2>. QED
    BY <1>0, <1>5, <2>1, <2>2, ProcType DEF HookStart, TypeOK
<1>6. CASE HookApply(p)
  <2>1. proc[p].chg \in ChargeIds
    BY <1>0, <1>6 DEF HookApply, TypeOK, Carrying
  <2>2. sub' \in SubRow
    BY <1>6, <2>1, OutcomeType DEF HookApply, TypeOK
  <2>3. charges' \in [ChargeIds -> ChargeRow]
    BY <1>6, <2>1 DEF HookApply, TypeOK, ChargeRow
  <2>. QED
    BY <1>0, <1>6, <2>1, <2>2, <2>3, FinishType DEF HookApply, TypeOK
<1>7. CASE HookRefused(p)
  BY <1>0, <1>7, FinishType DEF HookRefused, TypeOK
<1>. QED
  BY <1>1, <1>2, <1>3, <1>4, <1>5, <1>6, <1>7 DEF Request

LEMMA StepType ==
  ASSUME TypeOK, NEW p \in Procs, Step(p)
  PROVE  TypeOK'
<1> USE IdleType, NewSubscriptionType
<1>0. proc[p] \in Process /\ proc[p].sub \in SubRow
  BY DEF TypeOK, Process
<1>1. CASE ReuseOpen(p) \/ ReuseKey(p) \/ InsertRefused(p)
  BY <1>1, FinishType DEF ReuseOpen, ReuseKey, InsertRefused, TypeOK
<1>2. CASE Proceed(p)
  <2>. DEFINE start == PeriodStart(proc[p].sub, now)
              v == [proc[p] EXCEPT !.pc = "checked", !.start = start]
  <2>1. start \in Nat
    BY <1>0, PeriodStartType DEF TypeOK
  <2>2. proc' = [proc EXCEPT ![p] = v]
    BY <1>2 DEF Proceed, TypeOK
  <2>. HIDE DEF start
  <2>3. v \in Process /\ v.pc \notin Carrying
    BY <1>0, <2>1 DEF Process, Points, Carrying
  <2>. HIDE DEF v
  <2>. QED
    BY <1>2, <2>2, <2>3, ProcType DEF Proceed, TypeOK
<1>3. CASE Insert(p)
  <2>1. proc[p].start \in Nat /\ proc[p].sub.attempts + 1 \in Nat
    BY <1>0 DEF Process, SubRow
  <2>2. PICK c \in ChargeIds :
          /\ charges' = [charges EXCEPT ![c] =
               [status |-> "pending", start |-> proc[p].start,
                attempt |-> proc[p].sub.attempts + 1, ref |-> FALSE]]
          /\ proc' = [proc EXCEPT ![p].pc = "sent", ![p].chg = c]
    BY <1>3 DEF Insert
  <2>. DEFINE v == [proc[p] EXCEPT !.pc = "sent", !.chg = c]
  <2>3. v \in Process /\ v.chg \in ChargeIds
    BY <1>0, ChargeIdNat DEF Process, Points
  <2>4. proc' = [proc EXCEPT ![p] = v]
    BY <2>2 DEF TypeOK
  <2>. HIDE DEF v
  <2>5. charges' \in [ChargeIds -> ChargeRow]
    BY <2>1, <2>2 DEF TypeOK, ChargeRow
  <2>. QED
    BY <1>3, <2>3, <2>4, <2>5, ProcType DEF Insert, TypeOK
<1>4. CASE ReplyPending(p)
  <2>1. charges' \in [ChargeIds -> ChargeRow]
    BY <1>4, ZenonT(60) DEF ReplyPending, TypeOK, ChargeRow
  <2>. QED
    BY <1>4, <2>1, FinishType DEF ReplyPending, TypeOK
<1>5. CASE ReplyDecided(p)
  <2>1. proc[p].chg \in ChargeIds
    BY <1>5 DEF ReplyDecided, TypeOK, Carrying
  <2>2. sub' \in SubRow
    BY <1>0, <1>5, <2>1, OutcomeType, WrittenType DEF ReplyDecided, TypeOK
  <2>3. PICK st \in {"success", "failed"} :
          charges' = [charges EXCEPT ![proc[p].chg].status = st,
                                     ![proc[p].chg].ref = TRUE]
    BY <1>5 DEF ReplyDecided
  <2>4. charges' \in [ChargeIds -> ChargeRow]
    BY <2>1, <2>3 DEF TypeOK, ChargeRow
  <2>. QED
    BY <1>5, <2>2, <2>4, FinishType DEF ReplyDecided, TypeOK
<1>6. CASE ReplyError(p)
  <2>1. charges' \in [ChargeIds -> ChargeRow]
    BY <1>6, ZenonT(60) DEF ReplyError, TypeOK, ChargeRow
  <2>. QED
    BY <1>6, <2>1, FinishType DEF ReplyError, TypeOK
<1>7. CASE Verify(p)
  <2>. DEFINE v == [proc[p] EXCEPT !.pc = "settle", !.ans = gateway[proc[p].chg]]
  <2>1. proc[p].chg \in ChargeIds
    BY <1>7 DEF Verify, TypeOK, Carrying
  <2>2. v \in Process /\ v.chg \in ChargeIds
    BY <1>0, <2>1 DEF TypeOK, Process, Points
  <2>3. proc' = [proc EXCEPT ![p] = v]
    BY <1>7 DEF Verify, TypeOK
  <2>. HIDE DEF v
  <2>. QED
    BY <1>7, <2>2, <2>3, ProcType DEF Verify, TypeOK
<1>8. CASE VerifyFails(p)
  <2>1. Considered(sub) \in Process /\ Considered(sub).pc \notin Carrying
    BY ConsideredType DEF TypeOK
  <2>2. Idle.pc \notin Carrying
    BY DEF Idle, Carrying
  <2>. QED
    BY <1>8, <2>1, <2>2, ProcType DEF VerifyFails, TypeOK
<1>9. CASE Settle(p)
  <2>. DEFINE c    == proc[p].chg
              ans  == proc[p].ans
              copy == IF p = Sweeper THEN sub ELSE proc[p].sub
              new  == Outcome(copy, c, ans)
              v    == IF p = Sweeper
                        THEN [Idle EXCEPT !.pc = "candidates", !.sub = new]
                        ELSE Idle
  <2>1. c \in ChargeIds
    BY <1>9 DEF Settle, TypeOK, Carrying
  <2>2. copy \in SubRow
    BY <1>0 DEF TypeOK
  <2>3. new \in SubRow
    BY <2>1, <2>2, OutcomeType
  <2>4. sub' = Written(copy, new, sub) /\ proc' = [proc EXCEPT ![p] = v]
    BY <1>9 DEF Settle
  <2>5. charges' \in [ChargeIds -> ChargeRow]
    BY <1>9, <2>1 DEF Settle, TypeOK, ChargeRow
  <2>. HIDE DEF new, copy
  <2>6. v \in Process /\ v.pc \notin Carrying
    BY <2>3 DEF Idle, Process, Points, Carrying
  <2>. HIDE DEF v
  <2>7. sub' \in SubRow
    BY <2>2, <2>3, <2>4, WrittenType DEF TypeOK
  <2>8. aged' \subseteq ChargeIds
    BY <1>9 DEF Settle, TypeOK
  <2>. QED
    BY <1>9, <2>4, <2>5, <2>6, <2>7, <2>8, ProcType DEF Settle, TypeOK
<1>10. CASE Crash(p)
  <2>1. charges' \in [ChargeIds -> ChargeRow]
    BY <1>10, ZenonT(60) DEF Crash, TypeOK, ChargeRow
  <2>. QED
    BY <1>10, <2>1, FinishType DEF Crash, TypeOK
<1>11. CASE GatewayAccept(p)
  BY <1>11 DEF GatewayAccept, TypeOK
<1>. QED
  BY <1>1, <1>2, <1>3, <1>4, <1>5, <1>6, <1>7, <1>8, <1>9, <1>10, <1>11
    DEF Step, Reply

LEMMA TypeStep == TypeOK /\ [Next]_vars => TypeOK'
<1> SUFFICES ASSUME TypeOK, [Next]_vars PROVE TypeOK'
  OBVIOUS
<1>1. Sweeper \in Procs
  BY DEF Procs
<1>2. Idle \in Process /\ Idle.pc \notin Carrying
  BY IdleType DEF Idle, Carrying
<1>3. CASE SweepStart
  <2>1. ASSUME NEW c \in aged, charges[c].status = "processing",
               proc' = [proc EXCEPT ![Sweeper] =
                          [Idle EXCEPT !.pc = "verify", !.chg = c]]
        PROVE  TypeOK'
    <3>. DEFINE v == [Idle EXCEPT !.pc = "verify", !.chg = c]
    <3>1. v \in Process /\ v.chg \in ChargeIds
      BY IdleType, ChargeIdNat DEF TypeOK, Idle, Process, Points
    <3>. HIDE DEF v
    <3>2. proc' = [proc EXCEPT ![Sweeper] = v]
      BY <2>1 DEF v
    <3>. QED
      BY <1>1, <1>3, <3>1, <3>2, ProcType DEF SweepStart, TypeOK
  <2>2. ASSUME proc' = [proc EXCEPT ![Sweeper] = Considered(sub)]
        PROVE  TypeOK'
    BY <1>1, <1>3, <2>2, ConsideredType, ProcType DEF SweepStart, TypeOK
  <2>. QED
    BY <1>3, <2>1, <2>2 DEF SweepStart
<1>4. CASE SweepCandidates
  <2>1. proc[Sweeper].sub \in SubRow
    BY <1>1 DEF TypeOK, Process
  <2>. QED
    BY <1>1, <1>4, <2>1, ConsideredType, ProcType DEF SweepCandidates, TypeOK
<1>5. ASSUME NEW c \in ChargeIds,
             HookUnmatched(c) \/ GatewayDecide(c) \/ Age(c)
      PROVE  TypeOK'
  BY <1>5 DEF HookUnmatched, GatewayDecide, Age, TypeOK
<1>6. CASE Tick
  BY <1>6 DEF Tick, TypeOK
<1>7. CASE UNCHANGED vars
  BY <1>7 DEF vars, TypeOK
<1>. QED
  BY <1>3, <1>4, <1>5, <1>6, <1>7, RequestType, StepType DEF Next

LEMMA TypeInit == Init => TypeOK
BY NewSubscriptionType, IdleType, BillingAssumption
  DEF Init, TypeOK, NoCharge, ChargeRow, Idle, Carrying

\* Every reachable state is well typed: in particular no dunning step indexes
\* past the schedule, and a process settles only rows that exist.
THEOREM TypeCorrect == Spec => []TypeOK
BY TypeInit, TypeStep, PTL DEF Spec

-----------------------------------------------------------------------------
(* The inductive invariant.  LockInv: one process at a time is between     *)
(* taking the lock and committing, and an uncommitted row belongs to it.   *)
(* OpenInv: with the row lock, what initiate_charge checked stays true     *)
(* until it inserts.  AgreeInv: what the rows say and what the processes   *)
(* carry from the gateway is what the gateway decided.                     *)

LockInv ==
  /\ \A p, q \in Procs :
       proc[p].pc \in Holding /\ proc[q].pc \in Holding => p = q
  /\ \A p \in Procs :
       proc[p].pc = "sent" => charges[proc[p].chg].status = "pending"
  /\ \A c \in ChargeIds : charges[c].status = "pending" =>
       \E p \in Procs : proc[p].pc = "sent" /\ proc[p].chg = c

OpenInv ==
  /\ \A p \in Procs :
       proc[p].pc = "checked" => \A c \in ChargeIds : ~ Open(c)
  /\ OneOpenCharge

RowAgrees(c) ==
  /\ charges[c].status \in {"pending", "lost"} => ~ charges[c].ref
  /\ charges[c].status = "processing" => charges[c].ref /\ gateway[c] # "none"
  /\ charges[c].status = "success" => gateway[c] = "paid"
  /\ charges[c].status = "failed" /\ charges[c].ref => gateway[c] = "declined"
  /\ gateway[c] # "none" => charges[c].status # "none"

CarrierAgrees(p) ==
  LET c == proc[p].chg IN
  /\ proc[p].pc \in {"verify", "settle", "hook"} => Visible(c) /\ charges[c].ref
  /\ proc[p].pc \in {"settle", "hook"} /\ proc[p].ans \in {"paid", "declined"}
       => gateway[c] = proc[p].ans

AgreeInv ==
  /\ \A c \in ChargeIds : RowAgrees(c)
  /\ \A p \in Procs : CarrierAgrees(p)

IInv == TypeOK /\ LockInv /\ (RowLock => OpenInv) /\ AgreeInv

LEMMA IInvInit == Init => IInv
<1> SUFFICES ASSUME Init PROVE IInv
  OBVIOUS
<1>1. LockInv
  BY DEF Init, LockInv, Idle, NoCharge, Holding
<1>2. OpenInv
  BY DEF Init, OpenInv, OneOpenCharge, Open, Idle, NoCharge
<1>3. AgreeInv
  BY DEF Init, AgreeInv, RowAgrees, CarrierAgrees, Idle, NoCharge
<1>. QED
  BY <1>1, <1>2, <1>3, TypeInit DEF IInv

\* A step that touches no charge and leaves its process neither holding the
\* lock nor carrying anything the gateway did not say keeps the invariant.
LEMMA QuietStep ==
  ASSUME IInv, TypeOK', NEW p \in Procs, NEW v,
         proc' = [proc EXCEPT ![p] = v], UNCHANGED <<charges, gateway>>,
         proc[p].pc # "sent", v.pc \notin {"checked", "sent"},
         v.pc \in {"verify", "settle", "hook"} =>
           Visible(v.chg) /\ charges[v.chg].ref,
         v.pc \in {"settle", "hook"} /\ v.ans \in {"paid", "declined"}
           => gateway[v.chg] = v.ans
  PROVE  IInv'
<1>1. \A q \in Procs : proc'[q] = IF q = p THEN v ELSE proc[q]
  BY DEF IInv, TypeOK
<1>2. LockInv'
  BY <1>1 DEF IInv, LockInv, Holding
<1>3. RowLock => OpenInv'
  BY <1>1 DEF IInv, OpenInv, OneOpenCharge, Open
<1>4. AgreeInv'
  <2>1. \A c \in ChargeIds : RowAgrees(c)'
    BY DEF IInv, AgreeInv, RowAgrees
  <2>2. \A q \in Procs : CarrierAgrees(q)'
    BY <1>1 DEF IInv, AgreeInv, CarrierAgrees, Visible
  <2>. QED
    BY <2>1, <2>2 DEF AgreeInv
<1>. QED
  BY <1>2, <1>3, <1>4 DEF IInv

\* A settlement under the lock: a visible charge takes the outcome its process
\* carries, which is the gateway's, or stays as it is.
LEMMA SettleStep ==
  ASSUME IInv, TypeOK', NEW p \in Procs, NEW v, NEW st,
         proc' = [proc EXCEPT ![p] = v], UNCHANGED gateway,
         proc[p].pc \in {"settle", "hook"},
         v.pc \notin {"checked", "sent", "verify", "settle", "hook"},
         charges' = [charges EXCEPT ![proc[p].chg].status = st],
         \/ st = "success" /\ gateway[proc[p].chg] = "paid"
         \/ st = "failed" /\ gateway[proc[p].chg] = "declined"
         \/ st = charges[proc[p].chg].status
  PROVE  IInv'
<1>. DEFINE c == proc[p].chg
<1>1. c \in ChargeIds /\ Visible(c) /\ charges[c].ref
  BY DEF IInv, TypeOK, Carrying, AgreeInv, CarrierAgrees
<1>2. \A q \in Procs : proc'[q] = IF q = p THEN v ELSE proc[q]
  BY DEF IInv, TypeOK
<1>4. st \in {"processing", "success", "failed"}
  BY <1>1 DEF Visible, Terminal
<1>3. /\ \A d \in ChargeIds \ {c} : charges'[d] = charges[d]
      /\ charges'[c].status = st
      /\ charges'[c].ref = charges[c].ref
  <2>1. charges \in [ChargeIds -> ChargeRow] /\ charges[c] \in ChargeRow
    BY <1>1 DEF IInv, TypeOK
  <2>2. charges' = [charges EXCEPT ![c] = [charges[c] EXCEPT !.status = st]]
    OBVIOUS
  <2>3. /\ [charges[c] EXCEPT !.status = st].status = st
        /\ [charges[c] EXCEPT !.status = st].ref = charges[c].ref
    BY <2>1 DEF ChargeRow
  <2>. HIDE DEF c
  <2>. QED
    BY <1>1, <2>1, <2>2, <2>3
<1>. HIDE DEF c
<1>5. (charges'[c].status \in {"pending", "processing"}) => Open(c)
  BY <1>1, <1>3, <1>4, SMT DEF Open, Visible, Terminal, c
<1>6. LockInv'
  <2>1. \A q \in Procs : proc[q].pc = "sent" => proc[q].chg # c
    BY <1>1 DEF IInv, LockInv, Visible, Terminal
  <2>2. \A q \in Procs : proc[q].pc = "sent" => proc[q].chg \in ChargeIds
    BY DEF IInv, TypeOK, Carrying
  <2>3. (\A q, r \in Procs :
           proc[q].pc \in Holding /\ proc[r].pc \in Holding => q = r)'
    BY <1>2 DEF IInv, LockInv, Holding
  <2>4. (\A q \in Procs :
           proc[q].pc = "sent" => charges[proc[q].chg].status = "pending")'
    <3>1. ASSUME NEW q \in Procs, proc'[q].pc = "sent"
          PROVE  charges'[proc'[q].chg].status = "pending"
      <4>1. proc'[q] = proc[q]
        BY <1>2, <3>1
      <4>2. proc[q].chg \in ChargeIds \ {c}
        BY <2>1, <2>2, <3>1, <4>1
      <4>3. charges[proc[q].chg].status = "pending"
        BY <3>1, <4>1 DEF IInv, LockInv
      <4>. QED
        BY <1>3, <4>1, <4>2, <4>3
    <3>. QED
      BY <3>1
  <2>5. (\A d \in ChargeIds : charges[d].status = "pending" =>
           \E q \in Procs : proc[q].pc = "sent" /\ proc[q].chg = d)'
    <3>1. ASSUME NEW d \in ChargeIds, charges'[d].status = "pending"
          PROVE  \E q \in Procs : proc'[q].pc = "sent" /\ proc'[q].chg = d
      <4>1. d # c /\ charges[d].status = "pending"
        BY <1>3, <1>4, <3>1
      <4>2. PICK q \in Procs : proc[q].pc = "sent" /\ proc[q].chg = d
        BY <4>1 DEF IInv, LockInv
      <4>. QED
        BY <1>2, <4>2
    <3>. QED
      BY <3>1
  <2>. QED
    BY <2>3, <2>4, <2>5 DEF LockInv
<1>7. RowLock => OpenInv'
  BY <1>1, <1>2, <1>3, <1>5 DEF IInv, OpenInv, OneOpenCharge, Open
<1>8. AgreeInv'
  <2>1. \A d \in ChargeIds : RowAgrees(d)'
    BY <1>1, <1>3, <1>4 DEF IInv, AgreeInv, RowAgrees, c
  <2>2. \A q \in Procs : CarrierAgrees(q)'
    <3>1. \A d \in ChargeIds : Visible(d) => Visible(d)'
      BY <1>1, <1>3, <1>4 DEF Visible, Terminal
    <3>2. \A d \in ChargeIds : charges'[d].ref = charges[d].ref
      BY <1>3
    <3>3. \A q \in Procs : proc[q].pc \in {"verify", "settle", "hook"} =>
                             proc[q].chg \in ChargeIds
      BY DEF IInv, TypeOK, Carrying
    <3>. QED
      BY <1>2, <3>1, <3>2, <3>3 DEF IInv, AgreeInv, CarrierAgrees
  <2>. QED
    BY <2>1, <2>2 DEF AgreeInv
<1>. QED
  BY <1>6, <1>7, <1>8 DEF IInv

\* Resolving an uncommitted row: the process holding the lock commits it with
\* the gateway's answer, without one, or loses it.
LEMMA ResolveStep ==
  ASSUME IInv, TypeOK', NEW p \in Procs, NEW st, NEW rf,
         proc[p].pc = "sent", Finish(p), UNCHANGED gateway,
         \A d \in ChargeIds \ {proc[p].chg} : charges'[d] = charges[d],
         charges'[proc[p].chg].status = st, charges'[proc[p].chg].ref = rf,
         \/ st = "processing" /\ rf = TRUE /\ gateway[proc[p].chg] # "none"
         \/ st = "success" /\ rf = TRUE /\ gateway[proc[p].chg] = "paid"
         \/ st = "failed" /\ rf = TRUE /\ gateway[proc[p].chg] = "declined"
         \/ st \in {"failed", "lost"} /\ rf = FALSE
  PROVE  IInv'
<1>. DEFINE c == proc[p].chg
<1>1. c \in ChargeIds /\ charges[c].status = "pending"
  BY DEF IInv, TypeOK, Carrying, LockInv
<1>2. \A q \in Procs : proc'[q] = IF q = p THEN Idle ELSE proc[q]
  BY DEF Finish, IInv, TypeOK
<1>3. Idle.pc = "idle"
  BY DEF Idle
<1>4. /\ \A d \in ChargeIds \ {c} : charges'[d] = charges[d]
      /\ charges'[c].status = st /\ charges'[c].ref = rf
  OBVIOUS
<1>5. \A q \in Procs \ {p} : proc[q].pc \notin {"checked", "sent"} \/ ~ RowLock
  BY DEF IInv, LockInv, Holding
<1>6. \A q \in Procs \ {p} : proc[q].pc # "sent"
  BY DEF IInv, LockInv, Holding
<1>. HIDE DEF c
<1>7. LockInv'
  <2>1. (\A q, r \in Procs :
           proc[q].pc \in Holding /\ proc[r].pc \in Holding => q = r)'
    BY <1>2, <1>3 DEF IInv, LockInv, Holding
  <2>2. (\A q \in Procs :
           proc[q].pc = "sent" => charges[proc[q].chg].status = "pending")'
    BY <1>2, <1>3, <1>6
  <2>3. (\A d \in ChargeIds : charges[d].status = "pending" =>
           \E q \in Procs : proc[q].pc = "sent" /\ proc[q].chg = d)'
    <3>1. ASSUME NEW d \in ChargeIds, charges'[d].status = "pending"
          PROVE  FALSE
      <4>1. d # c /\ charges[d].status = "pending"
        BY <1>4, <3>1
      <4>2. PICK q \in Procs : proc[q].pc = "sent" /\ proc[q].chg = d
        BY <4>1 DEF IInv, LockInv
      <4>. QED
        BY <1>6, <4>1, <4>2 DEF c
    <3>. QED
      BY <3>1
  <2>. QED
    BY <2>1, <2>2, <2>3 DEF LockInv
<1>8. RowLock => OpenInv'
  <2>. SUFFICES ASSUME RowLock PROVE OpenInv'
    OBVIOUS
  <2>1. \A d \in ChargeIds : Open(d)' => Open(d)
    BY <1>1, <1>4 DEF Open
  <2>2. \A q \in Procs : proc'[q].pc # "checked"
    BY <1>2, <1>3, <1>5
  <2>. QED
    BY <2>1, <2>2 DEF IInv, OpenInv, OneOpenCharge
<1>9. AgreeInv'
  <2>1. \A d \in ChargeIds : RowAgrees(d)'
    BY <1>1, <1>4 DEF IInv, AgreeInv, RowAgrees, c
  <2>2. \A q \in Procs : CarrierAgrees(q)'
    <3>1. \A q \in Procs : proc[q].pc \in {"verify", "settle", "hook"} =>
             proc[q].chg \in ChargeIds \ {c}
      BY <1>1 DEF IInv, TypeOK, Carrying, AgreeInv, CarrierAgrees, Visible,
         Terminal
    <3>. QED
      BY <1>2, <1>3, <1>4, <3>1 DEF IInv, AgreeInv, CarrierAgrees, Visible
  <2>. QED
    BY <2>1, <2>2 DEF AgreeInv
<1>. QED
  BY <1>7, <1>8, <1>9 DEF IInv

\* The check under the lock, then the insertion of the row.
LEMMA ProceedStep ==
  ASSUME IInv, TypeOK', NEW p \in Procs, Proceed(p)
  PROVE  IInv'
<1>1. \A q \in Procs : /\ q # p => proc'[q] = proc[q]
                       /\ proc'[p].pc = "checked"
  BY DEF Proceed, IInv, TypeOK, Process
<1>2. RowLock => \A q \in Procs \ {p} : proc[q].pc \notin {"checked", "sent"}
  BY DEF Proceed, Free, Holding
<1>3. charges' = charges /\ gateway' = gateway /\ proc[p].pc = "initiate"
  BY DEF Proceed
<1>4. LockInv'
  <2>1. (\A q, r \in Procs :
           proc[q].pc \in Holding /\ proc[r].pc \in Holding => q = r)'
    BY <1>1, <1>2 DEF IInv, LockInv, Holding
  <2>. QED
    BY <1>1, <1>3, <2>1 DEF IInv, LockInv
<1>5. RowLock => OpenInv'
  <2>. SUFFICES ASSUME RowLock PROVE OpenInv'
    OBVIOUS
  <2>1. \A c \in ChargeIds : charges[c].status # "processing"
    BY DEF Proceed
  <2>2. \A c \in ChargeIds : charges[c].status # "pending"
    BY <1>2, <1>3 DEF IInv, LockInv
  <2>. QED
    BY <1>3, <2>1, <2>2 DEF OpenInv, OneOpenCharge, Open
<1>6. AgreeInv'
  <2>1. \A c \in ChargeIds : RowAgrees(c)'
    BY <1>3 DEF IInv, AgreeInv, RowAgrees
  <2>2. \A q \in Procs : CarrierAgrees(q)'
    BY <1>1, <1>3 DEF IInv, AgreeInv, CarrierAgrees, Visible
  <2>. QED
    BY <2>1, <2>2 DEF AgreeInv
<1>. QED
  BY <1>4, <1>5, <1>6 DEF IInv

LEMMA InsertStep ==
  ASSUME IInv, TypeOK', NEW p \in Procs, Insert(p)
  PROVE  IInv'
<1>1. PICK c \in ChargeIds :
        /\ charges[c].status = "none"
        /\ charges' = [charges EXCEPT ![c] =
             [status |-> "pending", start |-> proc[p].start,
              attempt |-> proc[p].sub.attempts + 1, ref |-> FALSE]]
        /\ proc' = [proc EXCEPT ![p].pc = "sent", ![p].chg = c]
  BY DEF Insert
<1>2. /\ \A q \in Procs \ {p} : proc'[q] = proc[q]
      /\ proc'[p].pc = "sent" /\ proc'[p].chg = c
  BY <1>1 DEF IInv, TypeOK, Process
<1>3. /\ \A d \in ChargeIds \ {c} : charges'[d] = charges[d]
      /\ charges'[c].status = "pending" /\ charges'[c].ref = FALSE
  BY <1>1 DEF IInv, TypeOK
<1>4. /\ proc[p].pc = "checked" /\ gateway' = gateway
      /\ \A q \in Procs \ {p} : proc[q].pc \notin Holding
  BY DEF Insert, Free
<1>5. LockInv'
  <2>1. (\A q, r \in Procs :
           proc[q].pc \in Holding /\ proc[r].pc \in Holding => q = r)'
    BY <1>2, <1>4
  <2>2. (\A q \in Procs :
           proc[q].pc = "sent" => charges[proc[q].chg].status = "pending")'
    BY <1>2, <1>3, <1>4 DEF Holding
  <2>3. (\A d \in ChargeIds : charges[d].status = "pending" =>
           \E q \in Procs : proc[q].pc = "sent" /\ proc[q].chg = d)'
    <3>1. \A d \in ChargeIds \ {c} : charges[d].status # "pending"
      BY <1>4 DEF IInv, LockInv, Holding
    <3>. QED
      BY <1>2, <1>3, <3>1
  <2>. QED
    BY <2>1, <2>2, <2>3 DEF LockInv
<1>6. RowLock => OpenInv'
  <2>. SUFFICES ASSUME RowLock PROVE OpenInv'
    OBVIOUS
  <2>1. \A d \in ChargeIds : ~ Open(d)
    BY <1>4 DEF IInv, OpenInv
  <2>2. \A q \in Procs : proc'[q].pc # "checked"
    BY <1>2, <1>4 DEF Holding
  <2>. QED
    BY <1>3, <2>1, <2>2 DEF OpenInv, OneOpenCharge, Open
<1>7. AgreeInv'
  <2>1. gateway[c] = "none"
    BY <1>1 DEF IInv, AgreeInv, RowAgrees
  <2>2. \A d \in ChargeIds : RowAgrees(d)'
    BY <1>3, <1>4, <2>1 DEF IInv, AgreeInv, RowAgrees
  <2>3. \A q \in Procs : CarrierAgrees(q)'
    <3>1. \A q \in Procs : proc[q].pc \in {"verify", "settle", "hook"} =>
             proc[q].chg \in ChargeIds \ {c}
      BY <1>1 DEF IInv, TypeOK, Carrying, AgreeInv, CarrierAgrees, Visible,
         Terminal
    <3>. QED
      BY <1>2, <1>3, <1>4, <3>1 DEF IInv, AgreeInv, CarrierAgrees, Visible
  <2>. QED
    BY <2>2, <2>3 DEF AgreeInv
<1>. QED
  BY <1>5, <1>6, <1>7 DEF IInv

\* The gateway moves.
LEMMA GatewayStep ==
  ASSUME IInv, TypeOK', NEW c \in ChargeIds, NEW g \in {"pending", "paid", "declined"},
         gateway' = [gateway EXCEPT ![c] = g], UNCHANGED <<charges, proc>>,
         gateway[c] \notin {"paid", "declined"}, charges[c].status # "none"
  PROVE  IInv'
<1>1. \A d \in ChargeIds : gateway'[d] = IF d = c THEN g ELSE gateway[d]
  BY DEF IInv, TypeOK
<1>2. LockInv'
  BY DEF IInv, LockInv, Holding
<1>3. RowLock => OpenInv'
  BY DEF IInv, OpenInv, OneOpenCharge, Open
<1>4. AgreeInv'
  <2>1. \A d \in ChargeIds : RowAgrees(d)'
    BY <1>1 DEF IInv, AgreeInv, RowAgrees
  <2>2. \A q \in Procs : CarrierAgrees(q)'
    <3>1. \A q \in Procs : proc[q].pc \in {"verify", "settle", "hook"} =>
             proc[q].chg \in ChargeIds
      BY DEF IInv, TypeOK, Carrying
    <3>. QED
      BY <1>1, <3>1 DEF IInv, AgreeInv, CarrierAgrees, Visible
  <2>. QED
    BY <2>1, <2>2 DEF AgreeInv
<1>. QED
  BY <1>2, <1>3, <1>4 DEF IInv

LEMMA RequestStep ==
  ASSUME IInv, TypeOK', NEW p \in Requests, Request(p)
  PROVE  IInv'
<1>0. p \in Procs /\ TypeOK
  BY DEF Procs, IInv
<1>1. CASE PayStart(p)
  BY <1>0, <1>1, QuietStep DEF PayStart, Idle
<1>2. CASE AdminStart(p)
  BY <1>0, <1>2, QuietStep DEF AdminStart, Idle
<1>3. CASE AdminCommit(p)
  BY <1>0, <1>3, QuietStep DEF AdminCommit, Finish, Idle
<1>4. ASSUME NEW c \in ChargeIds, PollStart(p, c) PROVE IInv'
  <2>1. Visible(c) /\ charges[c].ref
    BY <1>4 DEF PollStart, Visible, IInv, AgreeInv, RowAgrees
  <2>. QED
    BY <1>0, <1>4, <2>1, QuietStep DEF PollStart, Idle
<1>5. ASSUME NEW c \in ChargeIds, HookStart(p, c) PROVE IInv'
  <2>. DEFINE v == [Idle EXCEPT !.pc = "hook", !.chg = c,
                      !.ans = IF charges[c].status \in Terminal
                                THEN "finalized" ELSE gateway[c]]
  <2>1. /\ v.pc = "hook" /\ v.chg = c
        /\ v.ans \in {"paid", "declined"} => gateway[c] = v.ans
    BY DEF Idle
  <2>. HIDE DEF v
  <2>2. proc' = [proc EXCEPT ![p] = v]
    BY <1>5 DEF HookStart, v
  <2>. QED
    BY <1>0, <1>5, <2>1, <2>2, QuietStep DEF HookStart
<1>6. CASE HookApply(p)
  <2>. DEFINE st == CASE proc[p].ans = "paid" -> "success"
                      [] proc[p].ans = "declined" -> "failed"
                      [] OTHER -> charges[proc[p].chg].status
  <2>1. \/ st = "success" /\ gateway[proc[p].chg] = "paid"
        \/ st = "failed" /\ gateway[proc[p].chg] = "declined"
        \/ st = charges[proc[p].chg].status
    BY <1>0, <1>6 DEF HookApply, IInv, AgreeInv, CarrierAgrees
  <2>2. charges' = [charges EXCEPT ![proc[p].chg].status = st]
    BY <1>6 DEF HookApply
  <2>. HIDE DEF st
  <2>. QED
    BY <1>0, <1>6, <2>1, <2>2, SettleStep DEF HookApply, Finish, Idle
<1>7. CASE HookRefused(p)
  BY <1>0, <1>7, QuietStep DEF HookRefused, Finish, Idle
<1>. QED
  BY <1>1, <1>2, <1>3, <1>4, <1>5, <1>6, <1>7 DEF Request

LEMMA ReplyStep ==
  ASSUME IInv, TypeOK', NEW p \in Procs,
         Reply(p) \/ (Crash(p) /\ proc[p].pc = "sent")
  PROVE  IInv'
<1>. DEFINE c == proc[p].chg
<1>1. proc[p].pc = "sent"
  BY DEF Reply, ReplyPending, ReplyDecided, ReplyError
<1>2. c \in ChargeIds /\ charges[c] \in ChargeRow /\ ~ charges[c].ref
  BY <1>1 DEF IInv, TypeOK, Carrying, LockInv, AgreeInv, RowAgrees
<1>3. charges \in [ChargeIds -> ChargeRow] /\ charges[c].ref = FALSE
  BY <1>2, SMTT(30) DEF IInv, TypeOK, ChargeRow
<1>4. CASE ReplyPending(p)
  <2>1. /\ \A d \in ChargeIds \ {c} : charges'[d] = charges[d]
        /\ charges'[c].status = "processing" /\ charges'[c].ref = TRUE
    BY <1>2, <1>3, <1>4 DEF ReplyPending, ChargeRow
  <2>. QED
    BY <1>1, <1>4, <2>1, ResolveStep DEF ReplyPending
<1>5. CASE ReplyDecided(p)
  <2>. DEFINE st == IF gateway[c] = "paid" THEN "success" ELSE "failed"
  <2>1. /\ \A d \in ChargeIds \ {c} : charges'[d] = charges[d]
        /\ charges'[c].status = st /\ charges'[c].ref = TRUE
    BY <1>2, <1>3, <1>5 DEF ReplyDecided, ChargeRow
  <2>2. \/ st = "success" /\ gateway[c] = "paid"
        \/ st = "failed" /\ gateway[c] = "declined"
    BY <1>5 DEF ReplyDecided
  <2>. HIDE DEF st
  <2>. QED
    BY <1>1, <1>5, <2>1, <2>2, ResolveStep, ZenonT(60) DEF ReplyDecided
<1>6. CASE ReplyError(p)
  <2>1. /\ \A d \in ChargeIds \ {c} : charges'[d] = charges[d]
        /\ charges'[c].status = "failed" /\ charges'[c].ref = FALSE
    BY <1>2, <1>3, <1>6 DEF ReplyError, ChargeRow
  <2>. QED
    BY <1>1, <1>6, <2>1, ResolveStep DEF ReplyError
<1>7. CASE Crash(p)
  <2>1. /\ \A d \in ChargeIds \ {c} : charges'[d] = charges[d]
        /\ charges'[c].status = "lost" /\ charges'[c].ref = FALSE
    BY <1>1, <1>2, <1>3, <1>7 DEF Crash, ChargeRow
  <2>. QED
    BY <1>1, <1>7, <2>1, ResolveStep DEF Crash
<1>. QED
  BY <1>4, <1>5, <1>6, <1>7 DEF Reply

LEMMA ProcessStep ==
  ASSUME IInv, TypeOK', NEW p \in Procs, Step(p)
  PROVE  IInv'
<1>1. CASE ReuseOpen(p) \/ ReuseKey(p) \/ InsertRefused(p)
  BY <1>1, QuietStep DEF ReuseOpen, ReuseKey, InsertRefused, Finish, Idle
<1>2. CASE Verify(p)
  <2>. DEFINE v == [proc[p] EXCEPT !.pc = "settle", !.ans = gateway[proc[p].chg]]
  <2>1. v.pc = "settle" /\ v.chg = proc[p].chg /\ v.ans = gateway[proc[p].chg]
    BY DEF IInv, TypeOK, Process
  <2>2. proc' = [proc EXCEPT ![p] = v]
    BY <1>2 DEF Verify, IInv, TypeOK
  <2>. HIDE DEF v
  <2>3. Visible(v.chg) /\ charges[v.chg].ref
    BY <1>2, <2>1 DEF Verify, IInv, AgreeInv, CarrierAgrees, Visible
  <2>4. /\ proc[p].pc # "sent" /\ UNCHANGED <<charges, gateway>>
        /\ v.pc \notin {"checked", "sent"} /\ gateway[v.chg] = v.ans
    BY <1>2, <2>1 DEF Verify
  <2>. QED
    BY <2>2, <2>3, <2>4, QuietStep
<1>3. CASE VerifyFails(p)
  <2>1. Considered(sub).pc \in {"initiate", "idle"} /\ Idle.pc = "idle"
    BY DEF Considered, Idle
  <2>. QED
    BY <1>3, <2>1, QuietStep DEF VerifyFails
<1>4. CASE Settle(p)
  <2>. DEFINE st == CASE proc[p].ans = "paid" -> "success"
                      [] proc[p].ans = "declined" -> "failed"
                      [] OTHER -> charges[proc[p].chg].status
              copy == IF p = Sweeper THEN sub ELSE proc[p].sub
              new  == Outcome(copy, proc[p].chg, proc[p].ans)
              v    == IF p = Sweeper
                        THEN [Idle EXCEPT !.pc = "candidates", !.sub = new]
                        ELSE Idle
  <2>1. \/ st = "success" /\ gateway[proc[p].chg] = "paid"
        \/ st = "failed" /\ gateway[proc[p].chg] = "declined"
        \/ st = charges[proc[p].chg].status
    BY <1>4 DEF Settle, IInv, AgreeInv, CarrierAgrees
  <2>2. /\ charges' = [charges EXCEPT ![proc[p].chg].status = st]
        /\ proc' = [proc EXCEPT ![p] = v]
    BY <1>4 DEF Settle
  <2>3. v.pc \in {"candidates", "idle"}
    BY DEF Idle
  <2>4. UNCHANGED gateway /\ proc[p].pc \in {"settle", "hook"}
    BY <1>4 DEF Settle
  <2>. HIDE DEF st, v
  <2>. QED
    BY <2>1, <2>2, <2>3, <2>4, SettleStep
<1>5. CASE Crash(p) /\ proc[p].pc # "sent"
  <2>1. UNCHANGED <<charges, gateway>> /\ Finish(p)
    BY <1>5 DEF Crash
  <2>. QED
    BY <1>5, <2>1, QuietStep DEF Finish, Idle
<1>6. CASE GatewayAccept(p)
  <2>1. proc[p].chg \in ChargeIds /\ charges[proc[p].chg].status # "none"
    BY <1>6 DEF GatewayAccept, IInv, TypeOK, Carrying, LockInv
  <2>. QED
    BY <1>6, <2>1, GatewayStep DEF GatewayAccept
<1>7. CASE Proceed(p)
  BY <1>7, ProceedStep
<1>8. CASE Insert(p)
  BY <1>8, InsertStep
<1>9. CASE Reply(p)
  BY <1>9, ReplyStep
<1>10. CASE Crash(p)
  BY <1>5, <1>10, ReplyStep
<1>. QED
  BY <1>1, <1>2, <1>3, <1>4, <1>6, <1>7, <1>8, <1>9, <1>10 DEF Step

LEMMA IInvStep == IInv /\ [Next]_vars => IInv'
<1> SUFFICES ASSUME IInv, [Next]_vars PROVE IInv'
  OBVIOUS
<1>1. TypeOK' /\ Sweeper \in Procs
  BY TypeStep DEF IInv, Procs
<1>2. CASE SweepStart
  <2>1. ASSUME NEW c \in aged, charges[c].status = "processing",
               proc' = [proc EXCEPT ![Sweeper] =
                          [Idle EXCEPT !.pc = "verify", !.chg = c]]
        PROVE  IInv'
    <3>1. Visible(c) /\ charges[c].ref
      BY <2>1 DEF IInv, TypeOK, Visible, AgreeInv, RowAgrees
    <3>2. Idle.pc = "idle" /\ proc[Sweeper].pc = "idle"
      BY <1>2 DEF SweepStart, Idle
    <3>. QED
      BY <1>1, <1>2, <2>1, <3>1, <3>2, QuietStep DEF SweepStart, Idle
  <2>2. ASSUME proc' = [proc EXCEPT ![Sweeper] = Considered(sub)]
        PROVE  IInv'
    <3>1. Considered(sub).pc \in {"initiate", "idle"}
      BY DEF Considered, Idle
    <3>. QED
      BY <1>1, <1>2, <2>2, <3>1, QuietStep DEF SweepStart
  <2>. QED
    BY <1>2, <2>1, <2>2 DEF SweepStart
<1>3. CASE SweepCandidates
  <2>1. Considered(proc[Sweeper].sub).pc \in {"initiate", "idle"}
    BY DEF Considered, Idle
  <2>. QED
    BY <1>1, <1>3, <2>1, QuietStep DEF SweepCandidates
<1>4. ASSUME NEW c \in ChargeIds, GatewayDecide(c) PROVE IInv'
  <2>1. charges[c].status # "none"
    BY <1>4 DEF GatewayDecide, IInv, AgreeInv, RowAgrees
  <2>. QED
    BY <1>1, <1>4, <2>1, GatewayStep DEF GatewayDecide
<1>5. ASSUME UNCHANGED <<charges, gateway, proc>> PROVE IInv'
  <2>1. LockInv'
    BY <1>5 DEF IInv, LockInv, Holding
  <2>2. RowLock => OpenInv'
    BY <1>5 DEF IInv, OpenInv, OneOpenCharge, Open
  <2>3. AgreeInv'
    BY <1>5 DEF IInv, AgreeInv, RowAgrees, CarrierAgrees, Visible
  <2>. QED
    BY <1>1, <2>1, <2>2, <2>3 DEF IInv
<1>6. CASE Tick \/ UNCHANGED vars \/ \E c \in ChargeIds : HookUnmatched(c) \/ Age(c)
  BY <1>5, <1>6 DEF Tick, vars, HookUnmatched, Age
<1>. QED
  BY <1>1, <1>2, <1>3, <1>4, <1>6, RequestStep, ProcessStep DEF Next

LEMMA IInvAlways == Spec => []IInv
BY IInvInit, IInvStep, PTL DEF Spec

\* On PostgreSQL no two charges of a subscription ever await payment, however
\* many requests, crashes and stale copies there are.
THEOREM AtMostOneOpen == ASSUME RowLock PROVE Spec => []OneOpenCharge
<1>1. IInv => OneOpenCharge
  BY DEF IInv, OpenInv
<1>. QED
  BY <1>1, IInvAlways, PTL

\* With or without the lock, a charge on record never contradicts the gateway.
THEOREM RecordsAgree == Spec => []SettledAsGateway
<1>1. IInv => SettledAsGateway
  BY DEF IInv, AgreeInv, RowAgrees, SettledAsGateway
<1>. QED
  BY <1>1, IInvAlways, PTL

-----------------------------------------------------------------------------
(* The refinement: with the row lock, every step of Billing is a step of   *)
(* the charge lifecycle or leaves what it shows unchanged.                 *)

LEMMA RefinementInit == Init => Lifecycle!LifecycleInit
BY DEF Init, NoCharge, Recorded, RecordOf, Verdicts, VerdictOf,
   Lifecycle!LifecycleInit

\* A step that changes the row of one charge changes one record.
LEMMA OneRecord ==
  ASSUME NEW c \in ChargeIds, gateway' = gateway,
         \A d \in ChargeIds \ {c} : charges'[d] = charges[d]
  PROVE  /\ Recorded' = [Recorded EXCEPT ![c] = RecordOf(charges'[c])]
         /\ Verdicts' = Verdicts
BY DEF Recorded, Verdicts

\* The lifecycle sees nothing of a row whose record stays the same.
LEMMA SameRecord ==
  ASSUME NEW c \in ChargeIds, gateway' = gateway,
         \A d \in ChargeIds \ {c} : charges'[d] = charges[d],
         RecordOf(charges'[c]) = RecordOf(charges[c])
  PROVE  UNCHANGED Lifecycle!lifecycleVars
BY OneRecord DEF Recorded, Lifecycle!lifecycleVars

\* A row of an open charge takes the gateway's final answer.
LEMMA RecordAnswer ==
  ASSUME NEW c \in ChargeIds, gateway' = gateway, Open(c), charges'[c].ref,
         \A d \in ChargeIds \ {c} : charges'[d] = charges[d],
         \/ charges'[c].status = "success" /\ gateway[c] = "paid"
         \/ charges'[c].status = "failed" /\ gateway[c] = "declined"
  PROVE  Lifecycle!Record(c)
<1>1. Recorded[c] = "open" /\ Verdicts[c] = gateway[c]
  BY DEF Recorded, RecordOf, Verdicts, VerdictOf, Open
<1>2. RecordOf(charges'[c]) = IF Verdicts[c] = "paid" THEN "success" ELSE "failed"
  BY <1>1 DEF RecordOf
<1>. QED
  BY <1>1, <1>2, OneRecord DEF Lifecycle!Record

\* An uncommitted row fails without a reference or is rolled back.
LEMMA DropCharge ==
  ASSUME NEW c \in ChargeIds, gateway' = gateway, Open(c), ~ charges'[c].ref,
         \A d \in ChargeIds \ {c} : charges'[d] = charges[d],
         charges'[c].status \in {"failed", "lost"}
  PROVE  Lifecycle!Drop(c)
<1>1. Recorded[c] = "open" /\ RecordOf(charges'[c]) = "dropped"
  BY DEF Recorded, RecordOf, Open
<1>. QED
  BY <1>1, OneRecord DEF Lifecycle!Drop

\* Settling under the lock: the first settlement records the outcome, any
\* later one finds the row as the gateway's answer would have left it.
LEMMA SettleRefines ==
  ASSUME IInv, NEW c \in ChargeIds, NEW st, gateway' = gateway,
         Visible(c), charges[c].ref,
         charges' = [charges EXCEPT ![c].status = st],
         \/ st = "success" /\ gateway[c] = "paid"
         \/ st = "failed" /\ gateway[c] = "declined"
         \/ st = charges[c].status
  PROVE  [Lifecycle!LifecycleNext]_Lifecycle!lifecycleVars
<1>1. charges \in [ChargeIds -> ChargeRow] /\ charges[c] \in ChargeRow
  BY DEF IInv, TypeOK
<1>2. /\ \A d \in ChargeIds \ {c} : charges'[d] = charges[d]
      /\ charges'[c].status = st /\ charges'[c].ref
  BY <1>1 DEF ChargeRow
<1>3. CASE charges[c].status = "processing" /\ st # "processing"
  <2>1. Lifecycle!Record(c)
    BY <1>2, <1>3, RecordAnswer DEF Open
  <2>. QED
    BY <2>1 DEF Lifecycle!LifecycleNext
<1>4. CASE charges[c].status # "processing" \/ st = "processing"
  <2>1. st = charges[c].status
    BY <1>4 DEF Visible, Terminal, IInv, AgreeInv, RowAgrees
  <2>2. RecordOf(charges'[c]) = RecordOf(charges[c])
    BY <1>2, <2>1 DEF RecordOf
  <2>. QED
    BY <1>2, <2>2, SameRecord
<1>. QED
  BY <1>3, <1>4

\* The process holding the row lock commits its charge, or loses it.
LEMMA SentRefines ==
  ASSUME IInv, NEW p \in Procs,
         Reply(p) \/ (Crash(p) /\ proc[p].pc = "sent")
  PROVE  [Lifecycle!LifecycleNext]_Lifecycle!lifecycleVars
<1>. DEFINE c == proc[p].chg
<1>1. proc[p].pc = "sent" /\ gateway' = gateway
  BY DEF Reply, ReplyPending, ReplyDecided, ReplyError, Crash
<1>2. /\ c \in ChargeIds /\ charges[c].status = "pending" /\ Open(c)
      /\ charges[c].ref = FALSE
  BY <1>1 DEF IInv, TypeOK, ChargeRow, Carrying, LockInv, AgreeInv, RowAgrees,
     Open
<1>3. charges \in [ChargeIds -> ChargeRow] /\ charges[c] \in ChargeRow
  BY <1>2 DEF IInv, TypeOK
<1>4. CASE ReplyPending(p)
  <2>1. /\ \A d \in ChargeIds \ {c} : charges'[d] = charges[d]
        /\ charges'[c].status = "processing"
    BY <1>2, <1>3, <1>4 DEF ReplyPending, ChargeRow
  <2>2. RecordOf(charges'[c]) = RecordOf(charges[c])
    BY <1>2, <2>1 DEF RecordOf
  <2>. QED
    BY <1>1, <1>2, <2>1, <2>2, SameRecord
<1>5. CASE ReplyDecided(p)
  <2>1. /\ \A d \in ChargeIds \ {c} : charges'[d] = charges[d]
        /\ charges'[c].ref = TRUE
        /\ charges'[c].status =
             IF gateway[c] = "paid" THEN "success" ELSE "failed"
    BY <1>2, <1>3, <1>5 DEF ReplyDecided, ChargeRow
  <2>2. gateway[c] \in {"paid", "declined"}
    BY <1>5 DEF ReplyDecided
  <2>3. Lifecycle!Record(c)
    BY <1>1, <1>2, <2>1, <2>2, RecordAnswer
  <2>. QED
    BY <1>2, <2>3 DEF Lifecycle!LifecycleNext
<1>6. CASE ReplyError(p) \/ Crash(p)
  <2>1. /\ \A d \in ChargeIds \ {c} : charges'[d] = charges[d]
        /\ charges'[c].status \in {"failed", "lost"} /\ ~ charges'[c].ref
    BY <1>1, <1>2, <1>3, <1>6 DEF ReplyError, Crash, ChargeRow
  <2>2. Lifecycle!Drop(c)
    BY <1>1, <1>2, <2>1, DropCharge
  <2>. QED
    BY <1>2, <2>2 DEF Lifecycle!LifecycleNext
<1>. QED
  BY <1>4, <1>5, <1>6 DEF Reply

LEMMA InsertRefines ==
  ASSUME IInv, RowLock, NEW p \in Procs, Insert(p)
  PROVE  [Lifecycle!LifecycleNext]_Lifecycle!lifecycleVars
<1>1. PICK c \in ChargeIds :
        /\ charges[c].status = "none"
        /\ charges' = [charges EXCEPT ![c] =
             [status |-> "pending", start |-> proc[p].start,
              attempt |-> proc[p].sub.attempts + 1, ref |-> FALSE]]
  BY DEF Insert
<1>2. /\ \A d \in ChargeIds \ {c} : charges'[d] = charges[d]
      /\ charges'[c].status = "pending"
  BY <1>1 DEF IInv, TypeOK
<1>3. gateway' = gateway /\ \A d \in ChargeIds : ~ Open(d)
  BY DEF Insert, IInv, OpenInv
<1>4. Recorded[c] = "none" /\ \A d \in ChargeIds : Recorded[d] # "open"
  BY <1>1, <1>3 DEF Recorded, RecordOf, Open
<1>5. Lifecycle!Prompt(c)
  BY <1>2, <1>3, <1>4, OneRecord DEF RecordOf, Lifecycle!Prompt
<1>. QED
  BY <1>5 DEF Lifecycle!LifecycleNext

LEMMA RefinementStep ==
  ASSUME IInv, RowLock, [Next]_vars
  PROVE  [Lifecycle!LifecycleNext]_Lifecycle!lifecycleVars
<1>1. ASSUME UNCHANGED <<charges, gateway>>
      PROVE  UNCHANGED Lifecycle!lifecycleVars
  BY <1>1 DEF Recorded, Verdicts, Lifecycle!lifecycleVars
<1>2. ASSUME NEW p \in Requests, Request(p)
      PROVE  [Lifecycle!LifecycleNext]_Lifecycle!lifecycleVars
  <2>1. CASE HookApply(p)
    <3>. DEFINE st == CASE proc[p].ans = "paid" -> "success"
                        [] proc[p].ans = "declined" -> "failed"
                        [] OTHER -> charges[proc[p].chg].status
    <3>1. /\ proc[p].chg \in ChargeIds /\ gateway' = gateway
          /\ Visible(proc[p].chg) /\ charges[proc[p].chg].ref
      BY <2>1 DEF HookApply, Procs, IInv, TypeOK, Carrying, AgreeInv,
         CarrierAgrees
    <3>2. \/ st = "success" /\ gateway[proc[p].chg] = "paid"
          \/ st = "failed" /\ gateway[proc[p].chg] = "declined"
          \/ st = charges[proc[p].chg].status
      BY <2>1 DEF HookApply, Procs, IInv, AgreeInv, CarrierAgrees
    <3>3. charges' = [charges EXCEPT ![proc[p].chg].status = st]
      BY <2>1, SMTT(30) DEF HookApply
    <3>. HIDE DEF st
    <3>. QED
      BY <3>1, <3>2, <3>3, SettleRefines
  <2>2. CASE ~ HookApply(p)
    BY <1>1, <1>2, <2>2, ZenonT(60)
    DEF Request, PayStart, AdminStart, AdminCommit,
       PollStart, HookStart, HookRefused
  <2>. QED
    BY <2>1, <2>2
<1>3. ASSUME NEW p \in Procs, Step(p)
      PROVE  [Lifecycle!LifecycleNext]_Lifecycle!lifecycleVars
  <2>1. CASE Settle(p)
    <3>. DEFINE st == CASE proc[p].ans = "paid" -> "success"
                        [] proc[p].ans = "declined" -> "failed"
                        [] OTHER -> charges[proc[p].chg].status
    <3>1. /\ proc[p].chg \in ChargeIds /\ gateway' = gateway
          /\ Visible(proc[p].chg) /\ charges[proc[p].chg].ref
      BY <2>1 DEF Settle, IInv, TypeOK, Carrying, AgreeInv, CarrierAgrees
    <3>2. \/ st = "success" /\ gateway[proc[p].chg] = "paid"
          \/ st = "failed" /\ gateway[proc[p].chg] = "declined"
          \/ st = charges[proc[p].chg].status
      BY <2>1 DEF Settle, IInv, AgreeInv, CarrierAgrees
    <3>3. charges' = [charges EXCEPT ![proc[p].chg].status = st]
      BY <2>1 DEF Settle
    <3>. HIDE DEF st
    <3>. QED
      BY <3>1, <3>2, <3>3, SettleRefines
  <2>2. CASE Insert(p)
    BY <2>2, InsertRefines
  <2>3. CASE Reply(p) \/ (Crash(p) /\ proc[p].pc = "sent")
    BY <2>3, SentRefines
  <2>4. CASE Crash(p) /\ proc[p].pc # "sent"
    BY <1>1, <2>4 DEF Crash
  <2>5. CASE GatewayAccept(p)
    <3>1. Verdicts' = Verdicts
      BY <2>5 DEF GatewayAccept, IInv, TypeOK, Verdicts, VerdictOf
    <3>. QED
      BY <2>5, <3>1 DEF GatewayAccept, Recorded, Lifecycle!lifecycleVars
  <2>6. CASE \/ ReuseOpen(p) \/ ReuseKey(p) \/ Proceed(p)
             \/ InsertRefused(p) \/ Verify(p) \/ VerifyFails(p)
    BY <1>1, <2>6 DEF ReuseOpen, ReuseKey, Proceed, InsertRefused, Verify,
       VerifyFails
  <2>. QED
    BY <1>3, <2>1, <2>2, <2>3, <2>4, <2>5, <2>6 DEF Step
<1>4. ASSUME NEW c \in ChargeIds, GatewayDecide(c)
      PROVE  [Lifecycle!LifecycleNext]_Lifecycle!lifecycleVars
  <2>1. PICK v \in {"paid", "declined"} : gateway' = [gateway EXCEPT ![c] = v]
    BY <1>4 DEF GatewayDecide
  <2>2. Recorded[c] # "none" /\ Recorded' = Recorded
    BY <1>4 DEF GatewayDecide, IInv, AgreeInv, RowAgrees, Recorded, RecordOf
  <2>3. Verdicts[c] = "undecided"
    BY <1>4 DEF GatewayDecide, Verdicts, VerdictOf
  <2>4. Verdicts' = [Verdicts EXCEPT ![c] = v]
    BY <2>1 DEF IInv, TypeOK, Verdicts, VerdictOf
  <2>5. Lifecycle!Decide(c)
    BY <2>2, <2>3, <2>4 DEF Lifecycle!Decide
  <2>. QED
    BY <2>5 DEF Lifecycle!LifecycleNext
<1>5. CASE \/ SweepStart \/ SweepCandidates \/ Tick \/ UNCHANGED vars
           \/ \E c \in ChargeIds : HookUnmatched(c) \/ Age(c)
  BY <1>1, <1>5 DEF SweepStart, SweepCandidates, Tick, vars, HookUnmatched, Age
<1>. QED
  BY <1>2, <1>3, <1>4, <1>5 DEF Next

\* On PostgreSQL the charges table and the gateway together implement the
\* lifecycle that SECURITY.md promises: one prompt at a time, each recorded
\* once, with the outcome the gateway decided.
THEOREM Implementation == ASSUME RowLock PROVE Spec => ImplementsLifecycle
<1>1. IInv /\ [Next]_vars => [Lifecycle!LifecycleNext]_Lifecycle!lifecycleVars
  BY RefinementStep
<1>. QED
  BY <1>1, RefinementInit, IInvAlways, PTL
    DEF Spec, ImplementsLifecycle, Lifecycle!LifecycleSpec

-----------------------------------------------------------------------------
(* What the customer pays for.  Where charges are settled by their own     *)
(* request and by webhooks only, and neither a request nor an open charge  *)
(* outlives the day -- with any number of requests, the scheduler among    *)
(* them, and with or without the row lock -- the stale copies that         *)
(* requests work on are harmless: what a stale copy would charge for has   *)
(* been charged for already, and the idempotency key shows it.             *)

Daily == Kinds \subseteq {"pay", "hook", "sweep"} /\ ~ Overnight

\* The key of the charge a copy of the subscription asks for, and whether a
\* committed charge has it.
Wants(s, day) == Key(PeriodStart(s, day), s.attempts + 1)
Taken(rows, key) ==
  \E c \in ChargeIds :
    /\ rows[c].status \in {"processing", "success", "failed"}
    /\ Key(rows[c].start, rows[c].attempt) = key

OnlyPays ==
  /\ aged = {}
  /\ \A p \in Procs : proc[p].pc \in {"idle", "initiate", "checked", "sent", "hook"}

InOrder ==
  \A c, d \in ChargeIds :
    charges[c].status = "none" /\ c < d => charges[d].status = "none"

\* The open charge is the newest, and the one the subscription asks for.
OpenIsNewest ==
  \A c \in ChargeIds : Open(c) =>
    /\ KeyOf(c) = Wants(sub, now)
    /\ \A d \in ChargeIds : c < d => charges[d].status = "none"

StaleIsTaken(p) ==
  /\ proc[p].pc \in {"initiate", "checked"} =>
       proc[p].sub = sub \/ Taken(charges, Wants(proc[p].sub, now))
  /\ proc[p].pc = "checked" => proc[p].start = PeriodStart(proc[p].sub, now)
  /\ proc[p].pc = "sent" => proc[p].sub = sub

HookIsFirst(p) ==
  proc[p].pc = "hook" =>
    /\ proc[p].ans \in {"finalized", "paid", "declined"}
    /\ \/ proc[p].ans = "finalized" \/ proc[p].chg \in ledger
       \/ charges[proc[p].chg].status = "processing"

PaidUpTo ==
  \A c \in ChargeIds :
    charges[c].status = "success" => charges[c].start + PeriodDays <= sub.periodEnd

Exhausted == sub.status = "suspended" => sub.attempts >= Len(RetryDays)

CreditedDisjoint ==
  \A c, d \in ChargeIds :
    charges[c].status = "success" /\ charges[d].status = "success" /\ c < d
      => charges[c].start + PeriodDays <= charges[d].start

DInv ==
  /\ OnlyPays /\ InOrder /\ OpenIsNewest
  /\ \A p \in Procs : StaleIsTaken(p) /\ HookIsFirst(p)
  /\ PaidUpTo /\ Exhausted /\ CreditedDisjoint /\ StrikesMatchDeclines

LEMMA DailyInit == Init => DInv
<1>. SUFFICES ASSUME Init PROVE DInv
  OBVIOUS
<1>1. \A c \in ChargeIds : charges[c] = NoCharge
  BY DEF Init
<1>2. \A p \in Procs : proc[p].pc = "idle"
  BY DEF Init, Idle
<1>3. OnlyPays /\ \A p \in Procs : StaleIsTaken(p) /\ HookIsFirst(p)
  BY <1>2 DEF Init, OnlyPays, StaleIsTaken, HookIsFirst
<1>4. InOrder /\ OpenIsNewest /\ PaidUpTo /\ CreditedDisjoint
  BY <1>1 DEF NoCharge, InOrder, OpenIsNewest, Open, PaidUpTo, CreditedDisjoint
<1>5. Exhausted
  BY DEF Init, NewSubscription, Exhausted
<1>6. StrikesMatchDeclines
  <2>1. {c \in ChargeIds : Declined(c) /\
           \A d \in ChargeIds : charges[d].status = "success" => d < c} = {}
    BY <1>1 DEF NoCharge, Declined
  <2>2. Cardinality({}) = 0
    BY FS_EmptySet
  <2>3. sub.attempts = 0
    BY DEF Init, NewSubscription
  <2>. QED
    BY <2>1, <2>2, <2>3 DEF StrikesMatchDeclines
<1>. QED
  BY <1>3, <1>4, <1>5, <1>6 DEF DInv

\* A new charge starts after everything paid for.
LEMMA StartsAfterPaid ==
  ASSUME NEW s \in SubRow, NEW day \in Nat
  PROVE  PeriodStart(s, day) >= s.periodEnd
BY BillingAssumption DEF PeriodStart, SubRow, None

\* What the charges as a whole say survives a step that changes none of them
\* and leaves the subscription and the day alone.
LEMMA SameBooks ==
  ASSUME DInv, UNCHANGED <<now, sub, charges, aged>>
  PROVE  /\ InOrder' /\ OpenIsNewest' /\ PaidUpTo' /\ Exhausted'
         /\ CreditedDisjoint' /\ StrikesMatchDeclines'
<1>1. InOrder' /\ PaidUpTo' /\ Exhausted' /\ CreditedDisjoint'
  BY DEF DInv, InOrder, PaidUpTo, Exhausted, CreditedDisjoint
<1>2. OpenIsNewest'
  BY DEF DInv, OpenIsNewest, Open, KeyOf
<1>3. StrikesMatchDeclines'
  BY DEF DInv, StrikesMatchDeclines, Declined
<1>. QED
  BY <1>1, <1>2, <1>3

\* A process that changes only itself and, perhaps, the ledger.
LEMMA DailyQuiet ==
  ASSUME IInv, DInv, UNCHANGED <<now, sub, charges, aged>>, ledger \subseteq ledger',
         NEW p \in Procs, NEW v, proc' = [proc EXCEPT ![p] = v],
         v.pc \in {"idle", "initiate", "checked", "hook"},
         v.pc \in {"initiate", "checked"} => v.sub = sub \/ Taken(charges, Wants(v.sub, now)),
         v.pc = "checked" => v.start = PeriodStart(v.sub, now),
         v.pc = "hook" =>
           /\ v.ans \in {"finalized", "paid", "declined"}
           /\ v.ans = "finalized" \/ charges[v.chg].status = "processing"
  PROVE  DInv'
<1>1. \A q \in Procs : proc'[q] = IF q = p THEN v ELSE proc[q]
  BY DEF IInv, TypeOK
<1>2. OnlyPays'
  BY <1>1 DEF DInv, OnlyPays
<1>3. \A q \in Procs : StaleIsTaken(q)'
  BY <1>1 DEF DInv, StaleIsTaken
<1>4. \A q \in Procs : HookIsFirst(q)'
  BY <1>1 DEF DInv, HookIsFirst
<1>. QED
  BY <1>2, <1>3, <1>4, SameBooks DEF DInv

LEMMA StaysTaken ==
  ASSUME NEW rows, NEW after, NEW key, Taken(rows, key),
         \A c \in ChargeIds :
           rows[c].status \in {"processing", "success", "failed"} =>
             /\ after[c].status \in {"processing", "success", "failed"}
             /\ after[c].start = rows[c].start /\ after[c].attempt = rows[c].attempt
  PROVE  Taken(after, key)
BY DEF Taken

LEMMA OpenAlone ==
  ASSUME DInv, NEW c \in ChargeIds, Open(c)
  PROVE  /\ \A d \in ChargeIds \ {c} : ~ Open(d)
         /\ \A d \in ChargeIds : c < d => charges[d].status = "none"
         /\ charges[c].start = PeriodStart(sub, now)
         /\ charges[c].attempt = sub.attempts + 1
<1>1. \A d \in ChargeIds : c < d => charges[d].status = "none"
  BY DEF DInv, OpenIsNewest
<1>2. ASSUME NEW d \in ChargeIds \ {c}, Open(d) PROVE FALSE
  <2>1. d \in Nat /\ c \in Nat
    BY ChargeIdNat
  <2>2. CASE c < d
    BY <1>1, <1>2, <2>2 DEF Open
  <2>3. CASE d < c
    <3>1. charges[c].status = "none"
      BY <1>2, <2>3 DEF DInv, OpenIsNewest
    <3>. QED
      BY <3>1 DEF Open
  <2>. QED
    BY <2>1, <2>2, <2>3
<1>3. KeyOf(c) = Wants(sub, now)
  BY DEF DInv, OpenIsNewest
<1>. QED
  BY <1>1, <1>2, <1>3 DEF KeyOf, Wants, Key

\* The strikes, as the property counts them.
Success(rows) == {d \in ChargeIds : rows[d].status = "success"}
Struck(rows) ==
  {c \in ChargeIds : /\ rows[c].status = "failed" /\ rows[c].ref
                     /\ \A d \in Success(rows) : d < c}

LEMMA StrikesAre ==
  /\ StrikesMatchDeclines <=> sub.attempts = Cardinality(Struck(charges))
  /\ StrikesMatchDeclines' <=> sub'.attempts = Cardinality(Struck(charges'))
<1>1. Struck(charges) = {c \in ChargeIds : Declined(c) /\
        \A d \in ChargeIds : charges[d].status = "success" => d < c}
  BY DEF Struck, Success, Declined
<1>2. Struck(charges') = {c \in ChargeIds : Declined(c) /\
        \A d \in ChargeIds : charges[d].status = "success" => d < c}'
  BY DEF Struck, Success, Declined
<1>3. StrikesMatchDeclines <=> sub.attempts = Cardinality(Struck(charges))
  BY <1>1 DEF StrikesMatchDeclines
<1>4. StrikesMatchDeclines' <=> sub'.attempts = Cardinality(Struck(charges'))
  BY <1>2 DEF StrikesMatchDeclines
<1>. QED
  BY <1>3, <1>4

LEMMA StruckFinite == \A rows : IsFiniteSet(Struck(rows))
<1>1. IsFiniteSet(ChargeIds)
  BY BillingAssumption, FS_Interval DEF ChargeIds
<1>. QED
  BY <1>1, FS_Subset DEF Struck

\* What the outcome of a charge does to the subscription.
LEMMA OutcomeIs ==
  ASSUME TypeOK, NEW c \in ChargeIds
  PROVE  /\ Outcome(sub, c, "paid").status = "active"
         /\ Outcome(sub, c, "paid").periodEnd = charges[c].start + PeriodDays
         /\ Outcome(sub, c, "paid").attempts = 0
         /\ Outcome(sub, c, "declined").periodEnd = sub.periodEnd
         /\ Outcome(sub, c, "declined").attempts = sub.attempts + 1
         /\ Outcome(sub, c, "declined").status =
              IF sub.attempts + 1 >= Len(RetryDays) THEN "suspended" ELSE "past_due"
<1>1. sub \in SubRow
  BY DEF TypeOK
<1>2. Outcome(sub, c, "paid") = ApplySuccess(sub, c)
  BY DEF Outcome
<1>3. Outcome(sub, c, "declined") = ApplyFailure(sub, now)
  BY DEF Outcome
<1>4. /\ ApplySuccess(sub, c).status = "active"
      /\ ApplySuccess(sub, c).periodEnd = charges[c].start + PeriodDays
      /\ ApplySuccess(sub, c).attempts = 0
  BY <1>1 DEF ApplySuccess, SubRow
<1>5. CASE sub.attempts + 1 >= Len(RetryDays)
  <2>1. ApplyFailure(sub, now) =
          [sub EXCEPT !.attempts = sub.attempts + 1, !.status = "suspended",
                      !.retryAt = None]
    BY <1>5 DEF ApplyFailure
  <2>. QED
    BY <1>1, <1>2, <1>3, <1>4, <1>5, <2>1, ZenonT(60) DEF SubRow
<1>6. CASE ~ (sub.attempts + 1 >= Len(RetryDays))
  <2>1. ApplyFailure(sub, now) =
          [sub EXCEPT !.attempts = sub.attempts + 1, !.status = "past_due",
                      !.retryAt = now + RetryDays[sub.attempts + 1 + 1]]
    BY <1>6 DEF ApplyFailure
  <2>. QED
    BY <1>1, <1>2, <1>3, <1>4, <1>6, <2>1 DEF SubRow
<1>. QED
  BY <1>5, <1>6

\* A charge is settled and the subscription takes its outcome.
LEMMA DailyResolve ==
  ASSUME IInv, DInv, TypeOK', UNCHANGED <<now, aged>>, ledger \subseteq ledger',
         NEW p \in Procs, proc[p].pc \in {"sent", "hook"}, Finish(p),
         \A q \in Procs \ {p} : proc[q].pc # "sent",
         NEW c \in ChargeIds, Open(c), NEW ans \in {"paid", "declined"},
         \A q \in Procs \ {p} :
           proc[q].pc = "hook" /\ proc[q].chg = c => c \in ledger',
         \A d \in ChargeIds \ {c} : charges'[d] = charges[d],
         charges'[c].status = IF ans = "paid" THEN "success" ELSE "failed",
         charges'[c].ref = TRUE,
         charges'[c].start = charges[c].start,
         charges'[c].attempt = charges[c].attempt,
         sub' = Outcome(sub, c, ans)
  PROVE  DInv'
<1>1. \A q \in Procs : proc'[q] = IF q = p THEN Idle ELSE proc[q]
  BY DEF Finish, IInv, TypeOK
<1>2. Idle.pc = "idle"
  BY DEF Idle
<1>3. /\ \A d \in ChargeIds \ {c} : ~ Open(d)
      /\ \A d \in ChargeIds : c < d => charges[d].status = "none"
      /\ charges[c].start = PeriodStart(sub, now)
      /\ charges[c].attempt = sub.attempts + 1
  BY OpenAlone
<1>4. charges[c].status \in {"pending", "processing"}
  BY DEF Open
<1>5. /\ \A d \in ChargeIds : d \in Nat
      /\ sub \in SubRow /\ now \in Nat
      /\ sub.attempts \in Nat /\ sub.periodEnd \in Nat \cup {-1}
      /\ charges[c].start \in Nat
  BY ChargeIdNat DEF IInv, TypeOK, SubRow, ChargeRow, None
<1>6. charges[c].start >= sub.periodEnd
  BY <1>3, <1>5, StartsAfterPaid
<1>7. OnlyPays'
  BY <1>1, <1>2 DEF DInv, OnlyPays
<1>8. InOrder'
  BY <1>4 DEF DInv, InOrder
<1>9. \A d \in ChargeIds : charges'[d].status \notin {"pending", "processing"}
  BY <1>3 DEF Open
<1>10. OpenIsNewest'
  BY <1>9 DEF OpenIsNewest, Open
<1>11. \A q \in Procs : HookIsFirst(q)'
  <2>1. ASSUME NEW q \in Procs \ {p}, proc[q].pc = "hook"
        PROVE  HookIsFirst(q)'
    <3>1. proc'[q] = proc[q] /\ proc[q].chg \in ChargeIds
      BY <1>1, <2>1 DEF IInv, TypeOK, Carrying
    <3>2. CASE proc[q].chg = c
      BY <2>1, <3>1, <3>2 DEF DInv, HookIsFirst
    <3>3. CASE proc[q].chg # c
      BY <2>1, <3>1, <3>3 DEF DInv, HookIsFirst
    <3>. QED
      BY <3>2, <3>3
  <2>. QED
    BY <1>1, <1>2, <2>1 DEF HookIsFirst
<1>12. \A q \in Procs : StaleIsTaken(q)'
  <2>1. ASSUME NEW q \in Procs \ {p}, proc[q].pc \in {"initiate", "checked"}
        PROVE  Taken(charges', Wants(proc[q].sub, now))
    <3>1. CASE proc[q].sub = sub
      <4>1. Key(charges'[c].start, charges'[c].attempt) = Wants(sub, now)
        BY <1>3 DEF Wants
      <4>2. charges'[c].status \in {"processing", "success", "failed"}
        OBVIOUS
      <4>. QED
        BY <3>1, <4>1, <4>2 DEF Taken
    <3>2. CASE proc[q].sub # sub
      <4>1. Taken(charges, Wants(proc[q].sub, now))
        BY <2>1, <3>2 DEF DInv, StaleIsTaken
      <4>2. \A d \in ChargeIds :
              charges[d].status \in {"processing", "success", "failed"} =>
                /\ charges'[d].status \in {"processing", "success", "failed"}
                /\ charges'[d].start = charges[d].start
                /\ charges'[d].attempt = charges[d].attempt
        OBVIOUS
      <4>. QED
        BY <4>1, <4>2, StaysTaken
    <3>. QED
      BY <3>1, <3>2
  <2>2. ASSUME NEW q \in Procs \ {p} PROVE StaleIsTaken(q)'
    <3>1. proc'[q] = proc[q] /\ proc[q].pc # "sent"
      BY <1>1
    <3>2. proc[q].pc = "checked" => proc[q].start = PeriodStart(proc[q].sub, now)
      BY DEF DInv, StaleIsTaken
    <3>. QED
      BY <2>1, <3>1, <3>2 DEF StaleIsTaken
  <2>3. StaleIsTaken(p)'
    BY <1>1, <1>2 DEF StaleIsTaken
  <2>. QED
    BY <2>2, <2>3
<1>13. CASE ans = "paid"
  <2>1. /\ sub'.status = "active" /\ sub'.attempts = 0
        /\ sub'.periodEnd = charges[c].start + PeriodDays
    BY <1>13, OutcomeIs DEF IInv
  <2>2. charges'[c].status = "success"
    BY <1>13
  <2>3. Exhausted'
    BY <2>1 DEF Exhausted
  <2>4. \A d \in ChargeIds : charges[d].status = "success" =>
          charges[d].start + PeriodDays <= charges[c].start
    <3>. SUFFICES ASSUME NEW d \in ChargeIds, charges[d].status = "success"
                  PROVE  charges[d].start + PeriodDays <= charges[c].start
      OBVIOUS
    <3>1. charges[d].start \in Nat
      BY DEF IInv, TypeOK, ChargeRow
    <3>2. charges[d].start + PeriodDays <= sub.periodEnd
      BY DEF DInv, PaidUpTo
    <3>. QED
      BY <1>5, <1>6, <3>1, <3>2, BillingAssumption, SMTT(30)
  <2>5. PaidUpTo'
    <3>. SUFFICES ASSUME NEW d \in ChargeIds, charges'[d].status = "success"
                  PROVE  charges'[d].start + PeriodDays <= sub'.periodEnd
      BY DEF PaidUpTo
    <3>1. CASE d = c
      BY <1>5, <2>1, <3>1, BillingAssumption
    <3>2. CASE d # c
      <4>1. charges[d].start + PeriodDays <= charges[c].start
        BY <2>4, <3>2
      <4>2. charges[d].start \in Nat
        BY DEF IInv, TypeOK, ChargeRow
      <4>3. charges'[d].start = charges[d].start
        BY <3>2
      <4>. QED
        BY <1>5, <2>1, <4>1, <4>2, <4>3, BillingAssumption
    <3>. QED
      BY <3>1, <3>2
  <2>6. CreditedDisjoint'
    <3>. SUFFICES ASSUME NEW d \in ChargeIds, NEW e \in ChargeIds, d < e,
                         charges'[d].status = "success",
                         charges'[e].status = "success"
                  PROVE  charges'[d].start + PeriodDays <= charges'[e].start
      BY DEF CreditedDisjoint
    <3>1. CASE d = c
      BY <1>3, <1>5, <3>1
    <3>2. CASE e = c
      BY <1>5, <2>4, <3>2
    <3>3. CASE d # c /\ e # c
      BY <3>3 DEF DInv, CreditedDisjoint
    <3>. QED
      BY <3>1, <3>2, <3>3
  <2>7. Struck(charges') = {}
    <3>. SUFFICES ASSUME NEW d \in Struck(charges') PROVE FALSE
      OBVIOUS
    <3>1. /\ d \in ChargeIds /\ charges'[d].status = "failed" /\ c < d
      BY <2>2 DEF Struck, Success
    <3>. QED
      BY <1>3, <1>5, <3>1
  <2>8. StrikesMatchDeclines'
    BY <2>1, <2>7, StrikesAre, FS_EmptySet
  <2>. QED
    BY <1>7, <1>8, <1>10, <1>11, <1>12, <2>3, <2>5, <2>6, <2>8 DEF DInv
<1>14. CASE ans = "declined"
  <2>1. /\ sub'.attempts = sub.attempts + 1 /\ sub'.periodEnd = sub.periodEnd
        /\ sub'.status = IF sub.attempts + 1 >= Len(RetryDays)
                           THEN "suspended" ELSE "past_due"
    BY <1>14, OutcomeIs DEF IInv
  <2>2. charges'[c].status = "failed"
    BY <1>14
  <2>3. Exhausted'
    BY <2>1 DEF Exhausted
  <2>4. PaidUpTo' /\ CreditedDisjoint'
    BY <2>1, <2>2 DEF DInv, PaidUpTo, CreditedDisjoint
  <2>5. Success(charges') = Success(charges)
    BY <1>4, <2>2 DEF Success
  <2>6. \A d \in Success(charges) : d < c
    <3>. SUFFICES ASSUME NEW d \in ChargeIds, charges[d].status = "success"
                  PROVE  d < c
      BY DEF Success
    <3>. QED
      BY <1>3, <1>4, <1>5
  <2>7. c \notin Struck(charges)
    BY <1>4 DEF Struck
  <2>8. Struck(charges') = Struck(charges) \cup {c}
    BY <2>2, <2>5, <2>6 DEF Struck
  <2>9. Cardinality(Struck(charges')) = Cardinality(Struck(charges)) + 1
    BY <2>7, <2>8, StruckFinite, FS_AddElement
  <2>10. StrikesMatchDeclines'
    BY <2>1, <2>9, StrikesAre DEF DInv
  <2>. QED
    BY <1>7, <1>8, <1>10, <1>11, <1>12, <2>3, <2>4, <2>10 DEF DInv
<1>. QED
  BY <1>13, <1>14

\* The request that prompted the customer commits its row without an outcome:
\* still pending, failed with no reference, or rolled back.
LEMMA DailyCommit ==
  ASSUME IInv, DInv, UNCHANGED <<now, sub, aged, ledger>>,
         NEW p \in Procs, proc[p].pc = "sent", Finish(p),
         NEW c \in ChargeIds, charges[c].status = "pending",
         \A d \in ChargeIds \ {c} : charges'[d] = charges[d],
         charges'[c].status \in {"processing", "failed", "lost"},
         charges'[c].status = "failed" => ~ charges'[c].ref,
         charges'[c].start = charges[c].start,
         charges'[c].attempt = charges[c].attempt
  PROVE  DInv'
<1>1. \A q \in Procs : proc'[q] = IF q = p THEN Idle ELSE proc[q]
  BY DEF Finish, IInv, TypeOK
<1>2. Idle.pc = "idle"
  BY DEF Idle
<1>3. OnlyPays'
  BY <1>1, <1>2 DEF DInv, OnlyPays
<1>4. InOrder'
  BY DEF DInv, InOrder
<1>5. OpenIsNewest'
  <2>1. Open(c)
    BY DEF Open
  <2>2. \A d \in ChargeIds : Open(d)' => d = c
    BY <2>1, OpenAlone DEF Open
  <2>3. \A d \in ChargeIds : c < d => charges'[d].status = "none"
    BY <2>1, OpenAlone, ChargeIdNat
  <2>4. Key(charges'[c].start, charges'[c].attempt) = Wants(sub', now')
    BY <2>1, OpenAlone DEF Wants
  <2>. QED
    BY <2>2, <2>3, <2>4 DEF OpenIsNewest, KeyOf
<1>6. \A q \in Procs : HookIsFirst(q)'
  <2>1. ASSUME NEW q \in Procs \ {p}, proc[q].pc = "hook"
        PROVE  HookIsFirst(q)'
    <3>1. proc'[q] = proc[q] /\ proc[q].chg \in ChargeIds
      BY <1>1, <2>1 DEF IInv, TypeOK, Carrying
    <3>2. CASE proc[q].chg = c
      BY <2>1, <3>1, <3>2 DEF DInv, HookIsFirst
    <3>3. CASE proc[q].chg # c
      BY <2>1, <3>1, <3>3 DEF DInv, HookIsFirst
    <3>. QED
      BY <3>2, <3>3
  <2>. QED
    BY <1>1, <1>2, <2>1 DEF HookIsFirst
<1>7. \A q \in Procs : StaleIsTaken(q)'
  <2>1. ASSUME NEW q \in Procs \ {p} PROVE StaleIsTaken(q)'
    <3>1. proc'[q] = proc[q]
      BY <1>1
    <3>2. \A d \in ChargeIds :
            charges[d].status \in {"processing", "success", "failed"} =>
              /\ charges'[d].status \in {"processing", "success", "failed"}
              /\ charges'[d].start = charges[d].start
              /\ charges'[d].attempt = charges[d].attempt
      OBVIOUS
    <3>3. Taken(charges, Wants(proc[q].sub, now)) =>
            Taken(charges', Wants(proc[q].sub, now))
      BY <3>2, StaysTaken
    <3>. QED
      BY <3>1, <3>3 DEF DInv, StaleIsTaken
  <2>. QED
    BY <1>1, <1>2, <2>1 DEF StaleIsTaken
<1>8. PaidUpTo' /\ CreditedDisjoint' /\ Exhausted'
  BY DEF DInv, PaidUpTo, CreditedDisjoint, Exhausted
<1>9. Struck(charges') = Struck(charges)
  <2>1. Success(charges') = Success(charges)
    BY DEF Success
  <2>. QED
    BY <2>1 DEF Struck
<1>10. StrikesMatchDeclines'
  BY <1>9, StrikesAre DEF DInv
<1>. QED
  BY <1>3, <1>4, <1>5, <1>6, <1>7, <1>8, <1>10 DEF DInv

\* A request whose key no committed charge has works on a copy that is not
\* stale, and no other charge is open.
LEMMA DailyInsert ==
  ASSUME IInv, DInv, NEW p \in Procs, Insert(p)
  PROVE  DInv'
<1>1. PICK c \in ChargeIds :
        /\ charges[c].status = "none"
        /\ \A d \in 1 .. c - 1 : charges[d].status # "none"
        /\ charges' = [charges EXCEPT ![c] =
                         [status |-> "pending", start |-> proc[p].start,
                          attempt |-> proc[p].sub.attempts + 1, ref |-> FALSE]]
        /\ proc' = [proc EXCEPT ![p].pc = "sent", ![p].chg = c]
  BY DEF Insert
<1>2. /\ proc[p].pc = "checked" /\ Free(p) /\ ~ KeyTaken(p)
      /\ UNCHANGED <<now, sub, aged, ledger>>
  BY DEF Insert
<1>3. /\ \A d \in ChargeIds \ {c} : charges'[d] = charges[d]
      /\ charges'[c].status = "pending" /\ charges'[c].ref = FALSE
      /\ charges'[c].start = proc[p].start
      /\ charges'[c].attempt = proc[p].sub.attempts + 1
  BY <1>1 DEF IInv, TypeOK
<1>4. /\ \A q \in Procs \ {p} : proc'[q] = proc[q]
      /\ proc'[p].pc = "sent" /\ proc'[p].sub = proc[p].sub
  BY <1>1 DEF IInv, TypeOK, Process
<1>5. proc[p].start = PeriodStart(proc[p].sub, now)
  BY <1>2 DEF DInv, StaleIsTaken
<1>6. ~ Taken(charges, Wants(proc[p].sub, now))
  BY <1>2, <1>5 DEF KeyTaken, Taken, Wants, KeyOf, Visible, Terminal
<1>7. proc[p].sub = sub
  BY <1>2, <1>6 DEF DInv, StaleIsTaken
<1>8. \A d \in ChargeIds : ~ Open(d)
  <2>. SUFFICES ASSUME NEW d \in ChargeIds, Open(d) PROVE FALSE
    OBVIOUS
  <2>1. CASE charges[d].status = "pending"
    <3>1. PICK q \in Procs : proc[q].pc = "sent"
      BY <2>1 DEF IInv, LockInv
    <3>. QED
      BY <1>2, <3>1 DEF Free, Holding
  <2>2. CASE charges[d].status = "processing"
    <3>1. Key(charges[d].start, charges[d].attempt) = Wants(proc[p].sub, now)
      BY <1>7 DEF DInv, OpenIsNewest, KeyOf
    <3>. QED
      BY <1>6, <2>2, <3>1 DEF Taken
  <2>. QED
    BY <2>1, <2>2 DEF Open
<1>9. \A d \in ChargeIds : c < d => charges[d].status = "none"
  BY <1>1 DEF DInv, InOrder
<1>10. \A d \in ChargeIds : d < c => charges[d].status # "none"
  BY <1>1 DEF ChargeIds
<1>11. \A d \in ChargeIds : d \in Nat
  BY ChargeIdNat
<1>12. OnlyPays'
  BY <1>2, <1>4 DEF DInv, OnlyPays
<1>13. InOrder'
  <2>. SUFFICES ASSUME NEW d \in ChargeIds, NEW e \in ChargeIds, d < e,
                       charges'[d].status = "none"
                PROVE  charges'[e].status = "none"
    BY DEF InOrder
  <2>1. d # c /\ charges[d].status = "none"
    BY <1>3
  <2>2. c < d
    BY <1>10, <1>11, <2>1
  <2>3. e # c /\ c < e
    BY <1>11, <2>2
  <2>. QED
    BY <1>3, <1>9, <2>3
<1>14. OpenIsNewest'
  <2>1. \A d \in ChargeIds : Open(d)' => d = c
    BY <1>3, <1>8 DEF Open
  <2>2. \A d \in ChargeIds : c < d => charges'[d].status = "none"
    BY <1>3, <1>9, <1>11
  <2>3. Key(charges'[c].start, charges'[c].attempt) = Wants(sub', now')
    BY <1>2, <1>3, <1>5, <1>7 DEF Wants
  <2>. QED
    BY <2>1, <2>2, <2>3 DEF OpenIsNewest, KeyOf
<1>15. \A q \in Procs : HookIsFirst(q)'
  <2>1. ASSUME NEW q \in Procs \ {p}, proc[q].pc = "hook"
        PROVE  HookIsFirst(q)'
    <3>1. proc'[q] = proc[q] /\ proc[q].chg \in ChargeIds
      BY <1>4, <2>1 DEF IInv, TypeOK, Carrying
    <3>2. charges[proc[q].chg].status = "processing" =>
            charges'[proc[q].chg].status = "processing"
      BY <1>1, <1>3, <3>1
    <3>. QED
      BY <1>2, <2>1, <3>1, <3>2 DEF DInv, HookIsFirst
  <2>. QED
    BY <1>4, <2>1 DEF HookIsFirst
<1>16. \A q \in Procs : StaleIsTaken(q)'
  <2>1. ASSUME NEW q \in Procs \ {p} PROVE StaleIsTaken(q)'
    <3>1. \A d \in ChargeIds :
            charges[d].status \in {"processing", "success", "failed"} =>
              /\ charges'[d].status \in {"processing", "success", "failed"}
              /\ charges'[d].start = charges[d].start
              /\ charges'[d].attempt = charges[d].attempt
      BY <1>1, <1>3
    <3>2. Taken(charges, Wants(proc[q].sub, now)) =>
            Taken(charges', Wants(proc[q].sub, now))
      BY <3>1, StaysTaken
    <3>. QED
      BY <1>2, <1>4, <3>2 DEF DInv, StaleIsTaken
  <2>. QED
    BY <1>2, <1>4, <1>7, <2>1 DEF StaleIsTaken
<1>17. PaidUpTo' /\ CreditedDisjoint' /\ Exhausted'
  BY <1>2, <1>3 DEF DInv, PaidUpTo, CreditedDisjoint, Exhausted
<1>18. Struck(charges') = Struck(charges)
  <2>1. Success(charges') = Success(charges)
    BY <1>1, <1>3 DEF Success
  <2>. QED
    BY <1>1, <1>3, <2>1 DEF Struck
<1>19. StrikesMatchDeclines'
  BY <1>2, <1>18, StrikesAre DEF DInv
<1>. QED
  BY <1>12, <1>13, <1>14, <1>15, <1>16, <1>17, <1>19 DEF DInv

\* A new day begins with nobody working and no charge open.
LEMMA DailyTick ==
  ASSUME Daily, IInv, DInv, Tick
  PROVE  DInv'
<1>1. /\ \A p \in Procs : proc[p].pc = "idle"
      /\ \A c \in ChargeIds : charges[c].status # "processing"
      /\ UNCHANGED <<sub, charges, aged, ledger, gateway, proc>>
  BY DEF Daily, Tick
<1>2. \A c \in ChargeIds : ~ Open(c)
  BY <1>1 DEF Open, IInv, LockInv
<1>3. OnlyPays' /\ InOrder' /\ PaidUpTo' /\ Exhausted' /\ CreditedDisjoint'
  BY <1>1 DEF DInv, OnlyPays, InOrder, PaidUpTo, Exhausted, CreditedDisjoint
<1>4. OpenIsNewest'
  BY <1>1, <1>2 DEF OpenIsNewest, Open
<1>5. \A p \in Procs : StaleIsTaken(p)' /\ HookIsFirst(p)'
  BY <1>1 DEF StaleIsTaken, HookIsFirst
<1>6. StrikesMatchDeclines'
  BY <1>1, StrikesAre DEF DInv
<1>. QED
  BY <1>3, <1>4, <1>5, <1>6 DEF DInv

\* The only step that touches the subscription.
Resolves(c, ans) ==
  /\ Open(c) /\ sub' = Outcome(sub, c, ans)
  /\ charges'[c].status = IF ans = "paid" THEN "success" ELSE "failed"

Resolution == \E c \in ChargeIds, ans \in {"paid", "declined"} : Resolves(c, ans)

LEMMA WrittenFresh ==
  ASSUME NEW s \in SubRow, NEW new \in SubRow
  PROVE  Written(s, new, s) = new
BY DEF Written, SubRow

LEMMA DailyHookApply ==
  ASSUME IInv, DInv, TypeOK', NEW p \in Procs, HookApply(p)
  PROVE  DInv' /\ (UNCHANGED sub \/ Resolution)
<1>. DEFINE c == proc[p].chg
            ans == proc[p].ans
            st == CASE ans = "paid" -> "success" [] ans = "declined" -> "failed"
                    [] OTHER -> charges[c].status
<1>1. /\ proc[p].pc = "hook" /\ Free(p) /\ c \notin ledger
      /\ charges' = [charges EXCEPT ![c].status = st]
      /\ sub' = Outcome(sub, c, ans)
      /\ ledger' = ledger \cup {c} /\ aged' = aged \ {c}
      /\ Finish(p) /\ UNCHANGED <<now, gateway>>
  BY DEF HookApply
<1>2. /\ c \in ChargeIds /\ charges \in [ChargeIds -> ChargeRow]
      /\ charges[c] \in ChargeRow
  BY <1>1 DEF IInv, TypeOK, Carrying
<1>3. UNCHANGED aged
  BY <1>1 DEF DInv, OnlyPays
<1>4. /\ ans \in {"finalized", "paid", "declined"}
      /\ ans # "finalized" => charges[c].status = "processing"
  BY <1>1 DEF DInv, HookIsFirst
<1>5. \A q \in Procs \ {p} : proc[q].pc # "sent"
  BY <1>1 DEF Free, Holding
<1>6. CASE ans = "finalized"
  <2>1. charges' = charges /\ sub' = sub
    <3>1. st = charges[c].status
      BY <1>6
    <3>. HIDE DEF st, c, ans
    <3>2. charges' = charges
      BY <1>1, <1>2, <3>1 DEF ChargeRow
    <3>3. sub' = sub
      BY <1>1, <1>6 DEF Outcome
    <3>. QED
      BY <3>2, <3>3
  <2>2. proc' = [proc EXCEPT ![p] = Idle] /\ Idle.pc = "idle"
    BY <1>1 DEF Finish, Idle
  <2>3. DInv'
    BY <1>1, <1>3, <2>1, <2>2, DailyQuiet
  <2>. QED
    BY <2>1, <2>3
<1>7. CASE ans \in {"paid", "declined"}
  <2>1. Open(c) /\ charges[c].ref = TRUE
    BY <1>2, <1>4, <1>7 DEF Open, IInv, AgreeInv, RowAgrees, ChargeRow
  <2>2. st = IF ans = "paid" THEN "success" ELSE "failed"
    BY <1>7
  <2>. HIDE DEF st, c, ans
  <2>3. /\ \A d \in ChargeIds \ {c} : charges'[d] = charges[d]
        /\ charges'[c].status = st
        /\ charges'[c].ref = charges[c].ref
        /\ charges'[c].start = charges[c].start
        /\ charges'[c].attempt = charges[c].attempt
    BY <1>1, <1>2 DEF ChargeRow
  <2>4. c \in ledger' /\ ledger \subseteq ledger'
    BY <1>1
  <2>5. DInv'
    BY <1>1, <1>2, <1>3, <1>5, <1>7, <2>1, <2>2, <2>3, <2>4, DailyResolve
  <2>6. Resolution
    BY <1>1, <1>2, <1>7, <2>1, <2>2, <2>3 DEF Resolution, Resolves
  <2>. QED
    BY <2>5, <2>6
<1>. QED
  BY <1>4, <1>6, <1>7

LEMMA DailyReply ==
  ASSUME IInv, DInv, TypeOK', NEW p \in Procs,
         Reply(p) \/ (Crash(p) /\ proc[p].pc = "sent")
  PROVE  DInv' /\ (UNCHANGED sub \/ Resolution)
<1>. DEFINE c == proc[p].chg
<1>1. proc[p].pc = "sent"
  BY DEF Reply, ReplyPending, ReplyDecided, ReplyError
<1>2. /\ c \in ChargeIds /\ charges[c].status = "pending"
      /\ charges \in [ChargeIds -> ChargeRow] /\ charges[c] \in ChargeRow
  BY <1>1 DEF IInv, TypeOK, Carrying, LockInv
<1>3. charges[c].ref = FALSE
  BY <1>2 DEF IInv, AgreeInv, RowAgrees, ChargeRow
<1>4. proc[p].sub = sub /\ sub \in SubRow
  BY <1>1 DEF DInv, StaleIsTaken, IInv, TypeOK
<1>5. CASE ReplyDecided(p)
  <2>. DEFINE ans == gateway[c]
              st == IF ans = "paid" THEN "success" ELSE "failed"
  <2>1. ans \in {"paid", "declined"}
    BY <1>5 DEF ReplyDecided
  <2>2. sub' = Outcome(sub, c, ans)
    <3>1. sub' = Written(sub, Outcome(sub, c, ans), sub)
      BY <1>4, <1>5 DEF ReplyDecided
    <3>2. Outcome(sub, c, ans) \in SubRow
      BY <1>2, <1>4, OutcomeType DEF IInv
    <3>. QED
      BY <1>4, <3>1, <3>2, WrittenFresh
  <2>3. /\ charges' = [charges EXCEPT ![c].status = st, ![c].ref = TRUE]
        /\ Finish(p) /\ UNCHANGED <<now, aged, ledger>>
    BY <1>5 DEF ReplyDecided
  <2>4. \A q \in Procs \ {p} : proc[q].pc # "sent"
    BY <1>1 DEF IInv, LockInv, Holding
  <2>5. \A q \in Procs \ {p} : proc[q].pc = "hook" => proc[q].chg # c
    BY <1>2 DEF IInv, AgreeInv, CarrierAgrees, Visible, Terminal
  <2>6. Open(c)
    BY <1>2 DEF Open
  <2>. HIDE DEF c, ans, st
  <2>7. /\ \A d \in ChargeIds \ {c} : charges'[d] = charges[d]
        /\ charges'[c].status = st
        /\ charges'[c].ref = TRUE
        /\ charges'[c].start = charges[c].start
        /\ charges'[c].attempt = charges[c].attempt
    BY <1>2, <2>3 DEF ChargeRow
  <2>8. st = IF ans = "paid" THEN "success" ELSE "failed"
    BY DEF st
  <2>9. /\ charges'[c].status = IF ans = "paid" THEN "success" ELSE "failed"
        /\ Finish(p) /\ UNCHANGED <<now, aged>> /\ ledger \subseteq ledger'
        /\ c \in ChargeIds /\ proc[p].pc \in {"sent", "hook"}
        /\ \A q \in Procs \ {p} :
             proc[q].pc = "hook" /\ proc[q].chg = c => c \in ledger'
    BY <1>1, <1>2, <2>3, <2>5, <2>7, <2>8
  <2>10. DInv'
    BY <2>1, <2>2, <2>4, <2>6, <2>7, <2>9, DailyResolve
  <2>11. Resolution
    BY <1>2, <2>1, <2>2, <2>6, <2>7, <2>8 DEF Resolution, Resolves
  <2>. QED
    BY <2>10, <2>11
<1>6. ASSUME NEW st \in {"processing", "failed", "lost"},
             NEW rf, st = "failed" => rf = FALSE,
             charges' = [charges EXCEPT ![c].status = st, ![c].ref = rf],
             Finish(p), UNCHANGED <<now, sub, aged, ledger>>
      PROVE  DInv'
  <2>. HIDE DEF c
  <2>1. /\ \A d \in ChargeIds \ {c} : charges'[d] = charges[d]
        /\ charges'[c].status = st
        /\ charges'[c].ref = rf
        /\ charges'[c].start = charges[c].start
        /\ charges'[c].attempt = charges[c].attempt
    BY <1>2, <1>6 DEF ChargeRow
  <2>. QED
    BY <1>1, <1>2, <1>6, <2>1, DailyCommit
<1>7. CASE ReplyPending(p)
  <2>1. DInv'
    BY <1>6, <1>7 DEF ReplyPending
  <2>. QED
    BY <1>7, <2>1, SMTT(30) DEF ReplyPending
<1>8. CASE ReplyError(p) \/ Crash(p)
  <2>. DEFINE st == IF ReplyError(p) THEN "failed" ELSE "lost"
  <2>1. /\ charges' = [charges EXCEPT ![c].status = st]
        /\ Finish(p) /\ UNCHANGED <<now, sub, aged, ledger>>
    BY <1>1, <1>8 DEF ReplyError, Crash
  <2>2. st \in {"processing", "failed", "lost"}
    OBVIOUS
  <2>. HIDE DEF st, c
  <2>3. charges' = [charges EXCEPT ![c].status = st, ![c].ref = FALSE]
    BY <1>2, <1>3, <2>1 DEF ChargeRow
  <2>4. DInv'
    BY <1>6, <2>1, <2>2, <2>3 DEF c
  <2>. QED
    BY <2>1, <2>4
<1>. QED
  BY <1>5, <1>7, <1>8 DEF Reply

\* A step of one process.
LEMMA DailyProcess ==
  ASSUME Daily, IInv, DInv, TypeOK', NEW p \in Procs,
         Step(p) \/ (p \in Requests /\ Request(p))
  PROVE  DInv' /\ (UNCHANGED sub \/ Resolution)
<1>1. Idle.pc = "idle" /\ proc[p].pc \in {"idle", "initiate", "checked", "sent", "hook"}
  BY DEF Idle, DInv, OnlyPays
<1>2. CASE PayStart(p)
  <2>. DEFINE v == [Idle EXCEPT !.pc = "initiate", !.sub = sub]
  <2>1. v.pc = "initiate" /\ v.sub = sub
    BY DEF Idle
  <2>2. /\ proc' = [proc EXCEPT ![p] = v]
        /\ UNCHANGED <<now, sub, charges, aged, ledger>>
    BY <1>2 DEF PayStart
  <2>. HIDE DEF v
  <2>. QED
    BY <2>1, <2>2, DailyQuiet
<1>3. ASSUME NEW c \in ChargeIds, HookStart(p, c) PROVE DInv' /\ UNCHANGED sub
  <2>. DEFINE v == [Idle EXCEPT !.pc = "hook", !.chg = c,
                      !.ans = IF charges[c].status \in Terminal
                                THEN "finalized" ELSE gateway[c]]
  <2>1. /\ v.pc = "hook" /\ v.chg = c
        /\ v.ans = IF charges[c].status \in Terminal
                     THEN "finalized" ELSE gateway[c]
    BY DEF Idle
  <2>2. /\ proc' = [proc EXCEPT ![p] = v]
        /\ UNCHANGED <<now, sub, charges, aged, ledger>>
        /\ gateway[c] \in {"paid", "declined"} /\ Visible(c)
    BY <1>3 DEF HookStart
  <2>. HIDE DEF v
  <2>3. /\ v.ans \in {"finalized", "paid", "declined"}
        /\ v.ans = "finalized" \/ charges[v.chg].status = "processing"
    BY <2>1, <2>2 DEF Visible
  <2>. QED
    BY <2>1, <2>2, <2>3, DailyQuiet
<1>4. CASE /\ proc[p].pc # "sent" /\ Finish(p)
           /\ UNCHANGED <<now, sub, charges, aged, ledger>>
  BY <1>1, <1>4, DailyQuiet DEF Finish
<1>5. CASE HookRefused(p) \/ ReuseOpen(p) \/ ReuseKey(p) \/ InsertRefused(p)
  BY <1>4, <1>5 DEF HookRefused, ReuseOpen, ReuseKey, InsertRefused
<1>6. CASE Crash(p) /\ proc[p].pc # "sent"
  BY <1>4, <1>6 DEF Crash
<1>7. CASE Proceed(p)
  <2>. DEFINE v == [proc[p] EXCEPT !.pc = "checked",
                                   !.start = PeriodStart(proc[p].sub, now)]
  <2>1. /\ v.pc = "checked" /\ v.sub = proc[p].sub
        /\ v.start = PeriodStart(proc[p].sub, now)
    BY DEF IInv, TypeOK, Process
  <2>2. /\ proc' = [proc EXCEPT ![p] = v] /\ proc[p].pc = "initiate"
        /\ UNCHANGED <<now, sub, charges, aged, ledger>>
    BY <1>7 DEF Proceed, IInv, TypeOK
  <2>. HIDE DEF v
  <2>3. v.sub = sub \/ Taken(charges, Wants(v.sub, now))
    BY <2>1, <2>2 DEF DInv, StaleIsTaken
  <2>. QED
    BY <2>1, <2>2, <2>3, DailyQuiet
<1>8. CASE Insert(p)
  <2>1. UNCHANGED sub
    BY <1>8 DEF Insert
  <2>. QED
    BY <1>8, <2>1, DailyInsert
<1>9. CASE HookApply(p)
  BY <1>9, DailyHookApply
<1>10. CASE Reply(p) \/ (Crash(p) /\ proc[p].pc = "sent")
  BY <1>10, DailyReply
<1>11. CASE GatewayAccept(p)
  <2>1. UNCHANGED <<now, sub, charges, aged, ledger>> /\ proc' = [proc EXCEPT ![p] = proc[p]]
    BY <1>11 DEF GatewayAccept, IInv, TypeOK
  <2>2. OnlyPays' /\ \A q \in Procs : StaleIsTaken(q)' /\ HookIsFirst(q)'
    BY <1>11, SMTT(30)
    DEF GatewayAccept, DInv, OnlyPays, StaleIsTaken, HookIsFirst
  <2>. QED
    BY <2>1, <2>2, SameBooks DEF DInv
<1>12. ~ \/ AdminStart(p) \/ AdminCommit(p) \/ Verify(p) \/ VerifyFails(p)
         \/ Settle(p) \/ \E c \in ChargeIds : PollStart(p, c)
  BY <1>1 DEF Daily, AdminStart, AdminCommit, Verify, VerifyFails, Settle, PollStart
<1>. QED
  BY <1>2, <1>3, <1>5, <1>6, <1>7, <1>8, <1>9, <1>10, <1>11, <1>12
  DEF Step, Request

LEMMA DailyStep ==
  ASSUME Daily, IInv, DInv, [Next]_vars
  PROVE  DInv' /\ (UNCHANGED sub \/ Resolution)
<1>1. TypeOK' /\ Sweeper \in Procs /\ Requests \subseteq Procs
  BY TypeStep DEF IInv, Procs
<1>2. CASE SweepStart
  <2>1. /\ proc' = [proc EXCEPT ![Sweeper] = Considered(sub)]
        /\ UNCHANGED <<now, sub, charges, aged, ledger, gateway>>
    BY <1>2 DEF SweepStart, DInv, OnlyPays
  <2>2. \/ Considered(sub).pc = "idle"
        \/ Considered(sub).pc = "initiate" /\ Considered(sub).sub = sub
    BY DEF Considered, Idle
  <2>3. DInv'
    BY <1>1, <2>1, <2>2, DailyQuiet
  <2>. QED
    BY <2>1, <2>3
<1>3. ~ SweepCandidates
  BY <1>1 DEF SweepCandidates, DInv, OnlyPays
<1>4. CASE \E c \in ChargeIds : HookUnmatched(c) \/ GatewayDecide(c)
  <2>1. UNCHANGED <<now, sub, charges, aged, proc>> /\ ledger \subseteq ledger'
    BY <1>4 DEF HookUnmatched, GatewayDecide
  <2>2. OnlyPays' /\ \A q \in Procs : StaleIsTaken(q)' /\ HookIsFirst(q)'
    BY <2>1 DEF DInv, OnlyPays, StaleIsTaken, HookIsFirst
  <2>. QED
    BY <2>1, <2>2, SameBooks DEF DInv
<1>5. ~ \E c \in ChargeIds : Age(c)
  BY DEF Daily, Age
<1>6. CASE Tick
  BY <1>6, DailyTick DEF Tick
<1>7. CASE UNCHANGED vars
  <2>1. UNCHANGED <<now, sub, charges, aged, ledger, proc>>
    BY <1>7 DEF vars
  <2>2. OnlyPays' /\ \A q \in Procs : StaleIsTaken(q)' /\ HookIsFirst(q)'
    BY <2>1 DEF DInv, OnlyPays, StaleIsTaken, HookIsFirst
  <2>. QED
    BY <2>1, <2>2, SameBooks DEF DInv
<1>8. ASSUME NEW p \in Procs, Step(p) \/ (p \in Requests /\ Request(p))
      PROVE  DInv' /\ (UNCHANGED sub \/ Resolution)
  BY <1>1, <1>8, DailyProcess
<1>. QED
  BY <1>1, <1>2, <1>3, <1>4, <1>5, <1>6, <1>7, <1>8 DEF Next

LEMMA DailyAlways == ASSUME Daily PROVE Spec => [](IInv /\ DInv)
<1>1. Init => IInv /\ DInv
  BY IInvInit, DailyInit
<1>2. IInv /\ DInv /\ [Next]_vars => (IInv /\ DInv)'
  BY IInvStep, DailyStep
<1>. QED
  BY <1>1, <1>2, PTL DEF Spec

\* Within the day and without polls or administrators, one charge at a time
\* awaits payment even where there is no row lock (SQLite): an open charge is
\* the newest.
THEOREM OneOpenByKeys == ASSUME Daily PROVE Spec => []OneOpenCharge
<1>1. DInv => OneOpenCharge
  BY OpenAlone DEF OneOpenCharge
<1>. QED
  BY <1>1, DailyAlways, PTL

\* Likewise, two charges on record that the customer paid, credited or still
\* waiting to be, are never for the same days, whatever stale copies the requests
\* work on.  Prompts without a reference on record are outside of it.
THEOREM PaidOnceOnRecord == ASSUME Daily PROVE Spec => []PeriodsDisjoint
<1>1. ASSUME IInv, DInv PROVE PeriodsDisjoint
  <2>1. ASSUME NEW c \in ChargeIds, PaidOnRecord(c)
        PROVE  charges[c].status = "success" \/ Open(c)
    BY <1>1, <2>1 DEF PaidOnRecord, IInv, TypeOK, ChargeRow, AgreeInv, RowAgrees, Open
  <2>. SUFFICES ASSUME NEW c \in ChargeIds, NEW d \in ChargeIds, c < d,
                       PaidOnRecord(c), PaidOnRecord(d)
                PROVE  charges[c].start + PeriodDays <= charges[d].start
    BY DEF PeriodsDisjoint
  <2>2. ~ Open(c) /\ charges[c].status = "success"
    <3>1. charges[d].status # "none"
      BY <2>1 DEF Open
    <3>. QED
      BY <1>1, <2>1, <3>1 DEF DInv, OpenIsNewest
  <2>3. CASE charges[d].status = "success"
    BY <1>1, <2>2, <2>3 DEF DInv, CreditedDisjoint
  <2>4. CASE Open(d)
    <3>1. charges[d].start = PeriodStart(sub, now)
      BY <1>1, <2>4, OpenAlone
    <3>2. sub \in SubRow /\ now \in Nat /\ sub.periodEnd \in Nat \cup {-1}
      BY <1>1 DEF IInv, TypeOK, SubRow, None
    <3>3. charges[d].start >= sub.periodEnd
      BY <3>1, <3>2, StartsAfterPaid
    <3>4. charges[c].start + PeriodDays <= sub.periodEnd
      BY <1>1, <2>2 DEF DInv, PaidUpTo
    <3>5. charges[c].start \in Nat /\ charges[d].start \in Nat /\ PeriodDays \in Nat
      BY <1>1, BillingAssumption DEF IInv, TypeOK, ChargeRow
    <3>. QED
      BY <3>2, <3>3, <3>4, <3>5
  <2>. QED
    BY <2>1, <2>3, <2>4
<1>. QED
  BY <1>1, DailyAlways, PTL

\* Likewise, the subscription's strikes are the charges declined since the last
\* payment: no decline counts twice and none is forgotten.
THEOREM StrikesAreDeclines == ASSUME Daily PROVE Spec => []StrikesMatchDeclines
<1>1. DInv => StrikesMatchDeclines
  BY DEF DInv
<1>. QED
  BY <1>1, DailyAlways, PTL

\* Likewise, no step shortens the period already paid for.
THEOREM PaymentLengthens == ASSUME Daily PROVE Spec => PaymentNeverShortens
<1>1. ASSUME IInv, DInv, [Next]_vars PROVE sub'.periodEnd >= sub.periodEnd
  <2>1. sub \in SubRow /\ sub.periodEnd \in Nat \cup {-1}
    BY <1>1 DEF IInv, TypeOK, SubRow, None
  <2>2. CASE UNCHANGED sub
    BY <2>1, <2>2
  <2>3. ASSUME NEW c \in ChargeIds, Resolves(c, "paid")
        PROVE  sub'.periodEnd >= sub.periodEnd
    <3>1. charges[c].start = PeriodStart(sub, now) /\ now \in Nat
      BY <1>1, <2>3, OpenAlone DEF Resolves, IInv, TypeOK
    <3>2. charges[c].start >= sub.periodEnd /\ charges[c].start \in Nat
      BY <1>1, <2>1, <3>1, StartsAfterPaid, PeriodStartType
    <3>3. sub'.periodEnd = charges[c].start + PeriodDays
      BY <1>1, <2>3, OutcomeIs DEF Resolves, IInv
    <3>. QED
      BY <2>1, <3>2, <3>3, BillingAssumption
  <2>4. ASSUME NEW c \in ChargeIds, Resolves(c, "declined")
        PROVE  sub'.periodEnd >= sub.periodEnd
    BY <1>1, <2>1, <2>4, OutcomeIs DEF Resolves, IInv
  <2>. QED
    BY <1>1, <2>2, <2>3, <2>4, DailyStep DEF Resolution
<1>. QED
  BY <1>1, DailyAlways, PTL DEF PaymentNeverShortens, Spec

\* Likewise, a suspension is lifted by nothing but a payment recorded.
THEOREM SuspensionNeedsPayment ==
  ASSUME Daily PROVE Spec => OnlyPaymentLiftsSuspension
<1>. DEFINE Lifted ==
       sub.status = "suspended" /\ sub'.status # "suspended" => PaymentRecorded
<1>1. ASSUME IInv, DInv, [Next]_vars, sub.status = "suspended",
             sub'.status # "suspended"
      PROVE  PaymentRecorded
  <2>1. PICK c \in ChargeIds, ans \in {"paid", "declined"} : Resolves(c, ans)
    BY <1>1, DailyStep DEF Resolution
  <2>2. CASE ans = "paid"
    BY <2>1, <2>2 DEF Resolves, Open, PaymentRecorded
  <2>3. CASE ans = "declined"
    <3>1. sub.attempts \in Nat /\ sub.attempts >= Len(RetryDays)
      BY <1>1 DEF DInv, Exhausted, IInv, TypeOK, SubRow
    <3>2. sub'.status = IF sub.attempts + 1 >= Len(RetryDays)
                          THEN "suspended" ELSE "past_due"
      BY <1>1, <2>1, <2>3, OutcomeIs DEF Resolves, IInv
    <3>3. Len(RetryDays) \in Nat
      BY BillingAssumption
    <3>. QED
      BY <1>1, <3>1, <3>2, <3>3
  <2>. QED
    BY <2>2, <2>3
<1>2. IInv /\ DInv /\ [Next]_vars => [Lifted]_vars
  BY <1>1
<1>. QED
  BY <1>2, DailyAlways, PTL DEF OnlyPaymentLiftsSuspension, Spec

=============================================================================
