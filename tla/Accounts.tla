----------------------------- MODULE Accounts -----------------------------
(***************************************************************************)
(* User accounts and their sessions: sign-up, e-mail links, login and its  *)
(* lockout, password changes, what a manager does to a staff account, and  *)
(* the platform administrator's flag (app/routers/auth.py and staff.py,    *)
(* app/core/dependencies.py and security.py, app/models/user.py,           *)
(* create_admin.py).                                                       *)
(*                                                                         *)
(* A session token carries the account's token_version; a token is good    *)
(* while the two agree.  Every handler loads the account, spends time on a *)
(* password hash or on a query, and commits the columns that it changed.   *)
(* The counters it changes, failed_logins and token_version, are literals  *)
(* computed from its copy.                                                 *)
(***************************************************************************)
EXTENDS Integers, FiniteSets

CONSTANTS
  Requests,    \* slots for requests in flight
  Users,       \* the accounts there may be
  Identifiers, \* what may be typed at login: the accounts that each matches
  Threshold,   \* LOGIN_LOCKOUT_THRESHOLD
  Kinds,       \* which requests arrive, a subset of AllKinds
  MaxVersion,  \* bound on token versions
  MaxLinks     \* bound on links ever e-mailed

LoginKinds == {"fail", "login"}
LinkKinds == {"verify", "reset"}
AllKinds == LoginKinds \cup LinkKinds \cup
            {"register", "again", "forgot", "change", "profile", "invite",
             "suspend", "restore", "recode", "appoint", "promote", "revoke"}

ASSUME AccountsAssumption ==
  /\ Identifiers \subseteq SUBSET Users
  /\ Threshold \in Nat \ {0} /\ MaxVersion \in Nat /\ MaxLinks \in Nat
  /\ Kinds \subseteq AllKinds

VARIABLES
  users,     \* the rows of users
  tokens,    \* the token versions that a user's issued tokens carry
  minted,    \* how many links have been made
  inbox,     \* the links that were delivered
  spent,     \* history: how often each link set something
  streak,    \* history: failed logins in a row, up to Threshold, since the
             \* account was last signed in to, reset or released from its lock
  fresh,     \* history: every commit found the row as its session loaded it,
             \* and every token was issued for the version its request wrote
  proc       \* the requests in flight, with their sessions

accountVars == <<users, tokens, minted, inbox, spent, streak, fresh, proc>>

Links == 1 .. MaxLinks
Versions == 0 .. MaxVersion

\* admin is is_platform_admin, must is must_change_password, code says that the
\* password is a temporary code, mail and reset are the links whose hashes are in
\* the row, 0 for none.
\* lock: locked_until is null, in the future, or past; "set" is a future time
\* that a commit is to write, even over another.
UserRow == [known : BOOLEAN, staff : BOOLEAN, active : BOOLEAN,
            admin : BOOLEAN, confirmed : BOOLEAN, must : BOOLEAN,
            code : BOOLEAN, version : Nat, fails : Nat, lock : {"none", "on", "over", "set"},
            mail : Nat, reset : Nat]

\* rows are the session's copies; new is what it will make of them; link is
\* the link that the request spends or mails.
Process == [pc : {"idle", "commit", "issue", "send"}, kind : AllKinds,
            who : SUBSET Users, rows : [Users -> UserRow],
            new : [Users -> UserRow], link : Nat]

TypeOK ==
  /\ users \in [Users -> UserRow]
  /\ tokens \in [Users -> SUBSET Nat]
  /\ minted \in 0 .. MaxLinks
  /\ inbox \subseteq Links
  /\ spent \in [Links -> Nat]
  /\ streak \in [Users -> 0 .. Threshold]
  /\ fresh \in BOOLEAN
  /\ proc \in [Requests -> Process]
  /\ \A u \in Users : users[u].fails < Threshold

Nobody == [known |-> FALSE, staff |-> FALSE, active |-> TRUE,
           admin |-> FALSE, confirmed |-> FALSE, must |-> FALSE, code |-> FALSE,
           version |-> 0, fails |-> 0, lock |-> "none", mail |-> 0, reset |-> 0]
Idle == [pc |-> "idle", kind |-> "login", who |-> {},
         rows |-> [u \in Users |-> Nobody],
         new |-> [u \in Users |-> Nobody], link |-> 0]

Init ==
  /\ users = [u \in Users |-> Nobody]
  /\ tokens = [u \in Users |-> {}]
  /\ minted = 0
  /\ inbox = {}
  /\ spent = [l \in Links |-> 0]
  /\ streak = [u \in Users |-> 0]
  /\ fresh = TRUE
  /\ proc = [p \in Requests |-> Idle]

-----------------------------------------------------------------------------
(* What the handlers compute.                                              *)

\* get_current_user: the account is active and the versions agree.
Valid(u, v) == v \in tokens[u] /\ users[u].active /\ users[u].version = v

SignedIn(u) == \E v \in tokens[u] : Valid(u, v)

\* Mutant: the lock comes one failure late.
CountedLate(row) ==
  IF row.fails >= Threshold
  THEN [row EXCEPT !.lock = "set", !.fails = 0]
  ELSE [row EXCEPT !.fails = @ + 1]

\* Mutant: a failure below the threshold clears the lock, run out or not.
CountedClears(row) ==
  IF row.fails + 1 >= Threshold
  THEN [row EXCEPT !.lock = "set", !.fails = 0]
  ELSE [row EXCEPT !.fails = @ + 1, !.lock = "none"]

\* A failed login: the Threshold-th locks the account and starts anew.
Counted(row) ==
  IF row.fails + 1 >= Threshold
  THEN [row EXCEPT !.lock = "set", !.fails = 0]
  ELSE [row EXCEPT !.fails = @ + 1]

Cleared(row) == [row EXCEPT !.fails = 0, !.lock = "none"]

\* Mutant: the link stays in the row.
ResetKeepsLink(row) == [Cleared(row) EXCEPT !.code = FALSE, !.confirmed = TRUE,
                                            !.version = @ + 1]

\* reset_password: single use, confirms the address, ends every session.
Reset(row) == [Cleared(row) EXCEPT !.code = FALSE, !.reset = 0,
                                   !.confirmed = TRUE, !.version = @ + 1]

\* Mutant: a new password in the profile lifts the forced change as well.
ChangedInProfileSettles(row) == [row EXCEPT !.code = FALSE, !.must = FALSE,
                                            !.version = @ + 1]

\* change_password, and the password part of update_me.
Changed(row) == [row EXCEPT !.code = FALSE, !.must = FALSE, !.version = @ + 1]
ChangedInProfile(row) == [row EXCEPT !.code = FALSE, !.version = @ + 1]

\* Mutant: the fresh code may be kept.
RecodedKept(row) == [Cleared(row) EXCEPT !.code = TRUE, !.version = @ + 1]

\* reset_staff_password: a fresh temporary code.
Recoded(row) == [Cleared(row) EXCEPT !.code = TRUE, !.must = TRUE,
                                     !.version = @ + 1]

\* Mutant: a deactivation trusts is_active to end the sessions.
SuspendedQuietly(row) == [row EXCEPT !.active = FALSE]

\* update_staff: only a deactivation bumps the version.
Suspended(row) == [row EXCEPT !.active = FALSE, !.version = @ + 1]
Restored(row) == [row EXCEPT !.active = TRUE]

Registered(l) == [Nobody EXCEPT !.known = TRUE, !.mail = l]
Invited == [Nobody EXCEPT !.known = TRUE, !.staff = TRUE, !.confirmed = TRUE,
                          !.must = TRUE, !.code = TRUE]

\* create_admin: a new account with the flag, the flag given to an account, or
\* taken from one, whose sessions it ends.
Appointed == [Nobody EXCEPT !.known = TRUE, !.admin = TRUE]
Promoted(row) == [row EXCEPT !.admin = TRUE]
Revoked(row) == [row EXCEPT !.admin = FALSE, !.version = @ + 1]

\* set_password makes a new hash, whatever the password.
PasswordKinds == {"reset", "change", "profile", "recode"}

\* A commit writes the columns that the session changed.
Written(kind, old, new, row) ==
  LET write == [c \in DOMAIN row |->
                  IF new[c] # old[c] \/ (c = "code" /\ kind \in PasswordKinds)
                  THEN new[c] ELSE row[c]]
  IN  [write EXCEPT !.lock = IF @ = "set" THEN "on" ELSE @]

\* A request of some kind about the accounts in who loads them and computes.
Begin(p, kind, who, new, l) ==
  /\ proc[p].pc = "idle"
  /\ kind \in Kinds
  /\ proc' = [proc EXCEPT ![p] =
       [pc |-> "commit", kind |-> kind, who |-> who,
        rows |-> [u \in Users |-> IF u \in who THEN users[u] ELSE Nobody],
        new |-> [u \in Users |-> IF u \in who THEN new[u] ELSE Nobody],
        link |-> l]]
  /\ UNCHANGED <<users, tokens, inbox, spent, streak, fresh>>

\* One account, and no link made.
BeginOne(p, kind, u, row) ==
  Begin(p, kind, {u}, [users EXCEPT ![u] = row], 0) /\ UNCHANGED minted

\* One account, and a new link, whose hash the row will keep.
BeginLink(p, kind, u, row(_)) ==
  /\ minted < MaxLinks
  /\ minted' = minted + 1
  /\ Begin(p, kind, {u}, [users EXCEPT ![u] = row(minted + 1)], minted + 1)

-----------------------------------------------------------------------------
(* The handlers, up to their commit.                                       *)

\* register: a new account, or, for one that is unconfirmed and whose password
\* was given, a fresh link.
Register(p, u) ==
  /\ ~users[u].known
  /\ BeginLink(p, "register", u, Registered)
RegisterAgain(p, u) ==
  /\ users[u].known /\ ~users[u].confirmed
  /\ LET row(l) == [users[u] EXCEPT !.mail = l]
     IN  BeginLink(p, "again", u, row)

\* Mutant: the address need not be confirmed.
LoginUnconfirmed(p, u) ==
  /\ users[u].known /\ users[u].active
  /\ users[u].lock # "on"
  /\ BeginOne(p, "login", u, Cleared(users[u]))

\* login: the password matches none of the accounts, and counts against all,
\* or it matches one that is neither locked nor disabled, and confirmed, as an
\* account without an e-mail address is from the start, or an administrator's.
LoginFails(p, who) ==
  /\ \A u \in who : users[u].known
  /\ who # {}
  /\ Begin(p, "fail", who, [u \in Users |-> Counted(users[u])], 0)
  /\ UNCHANGED minted
Login(p, u) ==
  /\ users[u].known /\ users[u].active
  /\ users[u].confirmed \/ users[u].admin
  /\ users[u].lock # "on"
  /\ BeginOne(p, "login", u, Cleared(users[u]))

\* verify_email and reset_password find the account by the link.
VerifyEmail(p, u, l) ==
  /\ l \in inbox /\ users[u].mail = l
  /\ Begin(p, "verify", {u},
           [users EXCEPT ![u] = [@ EXCEPT !.confirmed = TRUE, !.mail = 0]], l)
  /\ UNCHANGED minted
ResetPassword(p, u, l) ==
  /\ l \in inbox /\ users[u].reset = l
  /\ users[u].active
  /\ Begin(p, "reset", {u}, [users EXCEPT ![u] = Reset(@)], l)
  /\ UNCHANGED minted

ForgotPassword(p, u) ==
  /\ users[u].known /\ users[u].active
  /\ LET row(l) == [users[u] EXCEPT !.reset = l]
     IN  BeginLink(p, "forgot", u, row)

\* change_password and update_me: signed in, and the current password given.
ChangePassword(p, u) ==
  SignedIn(u) /\ BeginOne(p, "change", u, Changed(users[u]))
UpdateMe(p, u) ==
  SignedIn(u) /\ BeginOne(p, "profile", u, ChangedInProfile(users[u]))

\* create_staff, update_staff and reset_staff_password, by the manager.
CreateStaff(p, u) ==
  ~users[u].known /\ BeginOne(p, "invite", u, Invited)
Deactivate(p, u) ==
  /\ users[u].known /\ users[u].staff /\ users[u].active
  /\ BeginOne(p, "suspend", u, Suspended(users[u]))
Reactivate(p, u) ==
  /\ users[u].known /\ users[u].staff /\ ~users[u].active
  /\ BeginOne(p, "restore", u, Restored(users[u]))
ResetStaffPassword(p, u) ==
  /\ users[u].known /\ users[u].staff
  /\ BeginOne(p, "recode", u, Recoded(users[u]))

\* create_admin, run on the server beside the requests.
Appoint(p, u) ==
  ~users[u].known /\ BeginOne(p, "appoint", u, Appointed)
Promote(p, u) ==
  /\ users[u].known /\ ~users[u].admin
  /\ BeginOne(p, "promote", u, Promoted(users[u]))
Revoke(p, u) ==
  users[u].admin /\ BeginOne(p, "revoke", u, Revoked(users[u]))

-----------------------------------------------------------------------------
(* The commit, and what follows it.                                        *)

\* Where the request goes: change_password and verify_email read the row again
\* and issue tokens, three others mail the link they made.
After(kind) ==
  CASE kind \in {"change", "verify"} -> "issue"
    [] kind \in {"register", "again", "forgot"} -> "send"
    [] OTHER -> "idle"

Inserts == {"register", "invite", "appoint"}

\* uq_users_restaurant_phone and the unique index on e-mails refuse a second
\* row (Abandon).  login issues its tokens from the copy.
Commit(p) ==
  LET r == proc[p]
      next == After(r.kind)
  IN
  /\ r.pc = "commit"
  /\ r.kind \in Inserts => \A u \in r.who : ~users[u].known
  /\ \A u \in r.who : r.new[u].version <= MaxVersion
  /\ users' = [u \in Users |->
       IF u \in r.who THEN Written(r.kind, r.rows[u], r.new[u], users[u])
       ELSE users[u]]
  /\ tokens' = [u \in Users |->
       IF r.kind = "login" /\ u \in r.who
       THEN tokens[u] \cup {r.new[u].version} ELSE tokens[u]]
  /\ spent' = [l \in Links |->
       spent[l] + IF r.kind \in LinkKinds /\ l = r.link THEN 1 ELSE 0]
  /\ streak' = [u \in Users |->
       CASE u \in r.who /\ r.kind = "fail" ->
              IF streak[u] = Threshold THEN Threshold ELSE streak[u] + 1
         [] u \in r.who /\ r.kind \in {"login", "reset", "recode"} -> 0
         [] OTHER -> streak[u]]
  /\ fresh' = (fresh /\ \A u \in r.who : r.rows[u] = users[u])
  /\ proc' = [proc EXCEPT ![p] =
       CASE next = "idle" -> Idle
         [] next = "send" -> [Idle EXCEPT !.pc = "send", !.link = r.link]
         [] next = "issue" -> [Idle EXCEPT !.pc = "issue", !.kind = r.kind,
                                           !.who = r.who, !.new = r.new]]
  /\ UNCHANGED <<minted, inbox>>

\* db.refresh, then _issue_tokens: for the version in the row as it is now.
Issue(p) ==
  /\ proc[p].pc = "issue"
  /\ tokens' = [u \in Users |->
       IF u \in proc[p].who THEN tokens[u] \cup {users[u].version}
       ELSE tokens[u]]
  /\ fresh' = (fresh /\ \A u \in proc[p].who :
                        users[u].version = proc[p].new[u].version)
  /\ proc' = [proc EXCEPT ![p] = Idle]
  /\ UNCHANGED <<users, minted, inbox, spent, streak>>

\* send_email within its deadline: delivered, or not (Abandon).
Send(p) ==
  /\ proc[p].pc = "send"
  /\ inbox' = inbox \cup {proc[p].link}
  /\ proc' = [proc EXCEPT ![p] = Idle]
  /\ UNCHANGED <<users, tokens, minted, spent, streak, fresh>>

Abandon(p) ==
  /\ proc[p].pc # "idle"
  /\ proc' = [proc EXCEPT ![p] = Idle]
  /\ UNCHANGED <<users, tokens, minted, inbox, spent, streak, fresh>>

\* The time until which an account is locked passes.
LockEnds(u) ==
  /\ users[u].lock = "on"
  /\ users' = [users EXCEPT ![u].lock = "over"]
  /\ streak' = [streak EXCEPT ![u] = 0]
  /\ UNCHANGED <<tokens, minted, inbox, spent, fresh, proc>>

-----------------------------------------------------------------------------

Arrive(p, u) ==
  \/ Register(p, u) \/ RegisterAgain(p, u)
  \/ Login(p, u)
  \/ \E l \in Links : VerifyEmail(p, u, l) \/ ResetPassword(p, u, l)
  \/ ForgotPassword(p, u)
  \/ ChangePassword(p, u) \/ UpdateMe(p, u)
  \/ CreateStaff(p, u) \/ Deactivate(p, u) \/ Reactivate(p, u)
  \/ ResetStaffPassword(p, u)
  \/ Appoint(p, u) \/ Promote(p, u) \/ Revoke(p, u)

Next ==
  \/ \E p \in Requests : \/ \E u \in Users : Arrive(p, u)
                         \/ \E who \in Identifiers : LoginFails(p, who)
                         \/ Commit(p) \/ Issue(p) \/ Send(p) \/ Abandon(p)
  \/ \E u \in Users : LockEnds(u)

Spec == Init /\ [][Next]_accountVars

-----------------------------------------------------------------------------
(* Properties that hold however the requests overlap.                      *)

EndKinds == {"reset", "change", "profile", "recode", "suspend", "revoke"}

\* In this step p committed.
Committed(p) == /\ proc[p].pc = "commit" /\ proc'[p].pc # "commit"
                /\ users' # users

\* dependencies.py:58-60: a forced password change ends only with the account's
\* own change_password; no link, profile or manager's commit lifts it.
ForcedUntilChosen ==
  [][\A u \in Users : users[u].must /\ ~users'[u].must =>
       \E p \in Requests : Committed(p) /\ proc[p].kind = "change"
                                        /\ u \in proc[p].who]_accountVars

-----------------------------------------------------------------------------
(* Properties while every commit was fresh; section 11 of the README says  *)
(* what breaks them otherwise.                                             *)

\* auth.py:467, "EVERY EXISTING SESSION DIES", :581, staff.py:239-242 and :263,
\* create_admin.py:61: the commit of a new password, of a deactivation or of a
\* revocation leaves no token that was issued before it good, and nothing brings
\* a token that has died back.
DeadStaysDead ==
  [][fresh' => \A u \in Users : \A v \in tokens[u] :
       users'[u].active /\ users'[u].version = v =>
         /\ Valid(u, v)
         /\ \A p \in Requests : Committed(p) /\ u \in proc[p].who =>
                                  proc[p].kind \notin EndKinds
    ]_accountVars

\* auth.py:249-257: whoever is signed in has confirmed an address or is a
\* platform administrator, whichever handler issued the token; an unconfirmed
\* administrator's sessions go with the flag (create_admin.py:61).
NoSessionUnconfirmed ==
  fresh => \A u \in Users :
             SignedIn(u) => users[u].confirmed \/ users[u].admin

\* dependencies.py:62-66: a password that a manager issued, and so knows, stands
\* under a forced change, so that get_settled_user turns its sessions away.
CodeIsForced == fresh => \A u \in Users : users[u].code => users[u].must

\* auth.py:458, "SINGLE USE": no link sets anything twice.
LinkUsedOnce == fresh => \A l \in Links : spent[l] <= 1

\* auth.py:233-237: an account stays locked from its Threshold-th failed login
\* in a row until the lock runs out, or a reset or a fresh code releases it.
FailuresLock ==
  fresh => \A u \in Users : streak[u] = Threshold => users[u].lock = "on"

=============================================================================
