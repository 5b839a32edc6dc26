--------------------------- MODULE AccountsProofs ---------------------------
(***************************************************************************)
(* Machine-checked facts about Accounts for every number of requests,      *)
(* users and links, every lockout threshold and every set of identifiers.  *)
(***************************************************************************)
EXTENDS Accounts, TLAPS

-----------------------------------------------------------------------------
(* What a session has computed from what it loaded.                        *)

MintKinds == {"register", "again", "forgot"}

\* Whom login lets in.
Allowed(row) == row.confirmed \/ row.admin

\* The row that a request of some kind makes of one that it may load.
Computed(kind, old, new, l) ==
  \/ kind = "register" /\ ~old.known /\ new = Registered(l)
  \/ kind = "invite" /\ ~old.known /\ new = Invited
  \/ kind = "appoint" /\ ~old.known /\ new = Appointed
  \/ kind = "again" /\ ~old.confirmed /\ new = [old EXCEPT !.mail = l]
  \/ kind = "fail" /\ new = Counted(old)
  \/ kind = "login" /\ old.active /\ Allowed(old) /\ new = Cleared(old)
  \/ /\ kind = "verify" /\ old.mail = l
     /\ new = [old EXCEPT !.confirmed = TRUE, !.mail = 0]
  \/ kind = "reset" /\ old.reset = l /\ new = Reset(old)
  \/ kind = "forgot" /\ new = [old EXCEPT !.reset = l]
  \/ kind = "change" /\ old.active /\ new = Changed(old)
  \/ kind = "profile" /\ new = ChangedInProfile(old)
  \/ kind = "suspend" /\ old.staff /\ new = Suspended(old)
  \/ kind = "restore" /\ new = Restored(old)
  \/ kind = "recode" /\ new = Recoded(old)
  \/ kind = "promote" /\ new = Promoted(old)
  \/ kind = "revoke" /\ new = Revoked(old)

Inserting(kind, old) == kind \in Inserts <=> ~old.known

\* A row that nobody has is blank.
Blank == \A u \in Users : ~users[u].known => users[u] = Nobody

\* A request that has not committed yet, against the rows it is about.
CommitFits(p) ==
  LET r == proc[p] IN
  r.pc = "commit" =>
    /\ \A u \in r.who :
         /\ Computed(r.kind, r.rows[u], r.new[u], r.link)
         /\ Inserting(r.kind, r.rows[u])
         /\ r.rows[u].known => users[u].known
         /\ ~r.rows[u].known => r.rows[u] = Nobody
         /\ r.new[u].fails < Threshold
    /\ r.kind \in LinkKinds \cup MintKinds =>
         r.link \in Links /\ \E u \in Users : r.who = {u}

\* One that is still to issue its tokens, or to mail its link.
IssueFits(p) ==
  /\ proc[p].pc = "issue" => \A u \in proc[p].who : users[u].known
  /\ proc[p].pc = "send" => proc[p].link \in Links

\* Nobody has a token for an account that there is not.
TokensKnown == \A u \in Users : tokens[u] # {} => users[u].known

IInv ==
  /\ TypeOK
  /\ Blank
  /\ \A p \in Requests : CommitFits(p) /\ IssueFits(p)
  /\ TokensKnown

-----------------------------------------------------------------------------
(* Rows.                                                                   *)

LEMMA RowFields ==
  ASSUME NEW row \in UserRow
  PROVE  DOMAIN row = {"known", "staff", "active", "admin", "confirmed", "must",
                       "code", "version", "fails", "lock", "mail", "reset"}
BY DEF UserRow

LEMMA WrittenFacts ==
  ASSUME NEW kind, NEW old \in UserRow, NEW new \in UserRow, NEW row \in UserRow
  PROVE  LET w == Written(kind, old, new, row) IN
         /\ w \in UserRow
         /\ w.known = IF new.known # old.known THEN new.known ELSE row.known
         /\ w.must = IF new.must # old.must THEN new.must ELSE row.must
         /\ w.fails = IF new.fails # old.fails THEN new.fails ELSE row.fails
<1>1. Written(kind, old, new, row) \in UserRow
  BY RowFields DEF Written, UserRow
<1>2. Written(kind, old, new, row).known =
        IF new.known # old.known THEN new.known ELSE row.known
  BY RowFields DEF Written, UserRow
<1>4. Written(kind, old, new, row).must =
        IF new.must # old.must THEN new.must ELSE row.must
  BY RowFields DEF Written, UserRow
<1>5. Written(kind, old, new, row).fails =
        IF new.fails # old.fails THEN new.fails ELSE row.fails
  BY RowFields DEF Written, UserRow
<1>. QED
  BY <1>1, <1>2, <1>4, <1>5

\* A commit onto the row that its session loaded writes what it computed.
Settled(row) == [row EXCEPT !.lock = IF @ = "set" THEN "on" ELSE @]

LEMMA WrittenFresh ==
  ASSUME NEW kind, NEW old \in UserRow, NEW new \in UserRow
  PROVE  Written(kind, old, new, old) = Settled(new)
<1>. DEFINE w == [c \in DOMAIN old |->
                    IF new[c] # old[c] \/ (c = "code" /\ kind \in PasswordKinds)
                    THEN new[c] ELSE old[c]]
<1>1. w = new
  BY RowFields DEF UserRow
<1>. QED
  BY <1>1 DEF Written, Settled

LEMMA NobodyFits == Nobody \in UserRow /\ Nobody.fails < Threshold
BY AccountsAssumption DEF Nobody, UserRow

\* What the handlers compute is a row again, with fewer failures counted than
\* lock an account.
LEMMA ComputedFits ==
  ASSUME NEW old \in UserRow, old.fails < Threshold, NEW kind, NEW new,
         NEW l \in Nat, Computed(kind, old, new, l)
  PROVE  new \in UserRow /\ new.fails < Threshold
<1>1. old.version + 1 \in Nat /\ old.fails + 1 \in Nat
  <2>1. old.version \in Nat /\ old.fails \in Nat
    BY DEF UserRow
  <2>. QED
    BY <2>1
<1>2. /\ Registered(l) \in UserRow /\ Invited \in UserRow
      /\ [old EXCEPT !.mail = l] \in UserRow
      /\ [old EXCEPT !.reset = l] \in UserRow
      /\ [old EXCEPT !.confirmed = TRUE, !.mail = 0] \in UserRow
      /\ Restored(old) \in UserRow
      /\ Appointed \in UserRow /\ Promoted(old) \in UserRow
  BY DEF UserRow, Registered, Invited, Appointed, Nobody, Restored, Promoted
<1>3. Cleared(old) \in UserRow /\ Counted(old) \in UserRow
  BY <1>1 DEF UserRow, Cleared, Counted
<1>4. Reset(old) \in UserRow /\ Recoded(old) \in UserRow
  BY <1>1 DEF UserRow, Cleared, Reset, Recoded
<1>5. /\ Changed(old) \in UserRow /\ ChangedInProfile(old) \in UserRow
      /\ Suspended(old) \in UserRow /\ Revoked(old) \in UserRow
  BY <1>1 DEF UserRow, Changed, ChangedInProfile, Suspended, Revoked
<1>6. new \in UserRow
  BY <1>2, <1>3, <1>4, <1>5 DEF Computed
<1>7. 0 < Threshold
  BY AccountsAssumption
<1>8. Counted(old).fails < Threshold
  BY <1>1, <1>7, AccountsAssumption DEF UserRow, Counted
<1>9. new = Counted(old) \/ new.fails = 0 \/ new.fails = old.fails
  BY DEF Computed, UserRow, Registered, Invited, Nobody, Cleared, Reset,
     Changed, ChangedInProfile, Suspended, Restored, Recoded, Appointed,
     Promoted, Revoked
<1>. QED
  BY <1>6, <1>7, <1>8, <1>9

-----------------------------------------------------------------------------
(* How a request begins.                                                   *)

\* It loads the accounts in who and computes; a kind that mails a link makes
\* it, and one that was sent a link keeps it.
Loads(p) ==
  \E kind \in AllKinds, who \in SUBSET Users, new \in [Users -> UserRow],
     l \in Nat :
    /\ Begin(p, kind, who, new, l)
    /\ \A u \in who : /\ Computed(kind, users[u], new[u], l)
                      /\ Inserting(kind, users[u])
    /\ IF kind \in MintKinds
       THEN minted < MaxLinks /\ l = minted + 1 /\ minted' = minted + 1
       ELSE minted' = minted
    /\ kind \in LinkKinds => l \in Links
    /\ kind \in LinkKinds \cup MintKinds => \E u \in Users : who = {u}
    /\ kind = "change" => \A u \in who : SignedIn(u)

LEMMA BeginOneLoads ==
  ASSUME TypeOK, NEW p \in Requests, NEW kind \in AllKinds \ (LinkKinds \cup
         MintKinds), NEW u \in Users, NEW row, BeginOne(p, kind, u, row),
         Computed(kind, users[u], row, 0), Inserting(kind, users[u]),
         kind = "change" => SignedIn(u)
  PROVE  Loads(p)
<1>. DEFINE new == [users EXCEPT ![u] = row]
<1>1. row \in UserRow
  BY ComputedFits DEF TypeOK
<1>2. new \in [Users -> UserRow] /\ new[u] = row
  BY <1>1 DEF TypeOK
<1>3. Begin(p, kind, {u}, new, 0) /\ minted' = minted
  BY DEF BeginOne
<1>4. {u} \in SUBSET Users /\ 0 \in Nat
  OBVIOUS
<1>. HIDE DEF new
<1>5. \A v \in {u} : /\ Computed(kind, users[v], new[v], 0)
                     /\ Inserting(kind, users[v])
  BY <1>2
<1>. QED
  BY <1>2, <1>3, <1>4, <1>5 DEF Loads

LEMMA BeginMintLoads ==
  ASSUME TypeOK, NEW p \in Requests, NEW kind \in MintKinds, NEW u \in Users,
         NEW row, minted < MaxLinks, minted' = minted + 1,
         Begin(p, kind, {u}, [users EXCEPT ![u] = row], minted + 1),
         Computed(kind, users[u], row, minted + 1), Inserting(kind, users[u])
  PROVE  Loads(p)
<1>. DEFINE new == [users EXCEPT ![u] = row]
<1>1. /\ minted + 1 \in Nat /\ kind \in AllKinds /\ kind \notin LinkKinds
      /\ kind # "change"
  BY AccountsAssumption DEF TypeOK, MintKinds, AllKinds, LinkKinds
<1>2. row \in UserRow
  BY <1>1, ComputedFits DEF TypeOK
<1>3. new \in [Users -> UserRow] /\ new[u] = row
  BY <1>2 DEF TypeOK
<1>4. Begin(p, kind, {u}, new, minted + 1) /\ {u} \in SUBSET Users
  OBVIOUS
<1>. HIDE DEF new
<1>5. \A v \in {u} : /\ Computed(kind, users[v], new[v], minted + 1)
                     /\ Inserting(kind, users[v])
  BY <1>3
<1>. QED
  BY <1>1, <1>3, <1>4, <1>5 DEF Loads

LEMMA BeginLinkLoads ==
  ASSUME TypeOK, NEW p \in Requests, NEW kind \in LinkKinds, NEW u \in Users,
         NEW row, NEW l \in Links, minted' = minted,
         Begin(p, kind, {u}, [users EXCEPT ![u] = row], l),
         Computed(kind, users[u], row, l), Inserting(kind, users[u])
  PROVE  Loads(p)
<1>. DEFINE new == [users EXCEPT ![u] = row]
<1>1. /\ l \in Nat /\ kind \in AllKinds /\ kind \notin MintKinds
      /\ kind # "change"
  BY DEF Links, MintKinds, AllKinds, LinkKinds
<1>2. row \in UserRow
  BY <1>1, ComputedFits DEF TypeOK
<1>3. new \in [Users -> UserRow] /\ new[u] = row
  BY <1>2 DEF TypeOK
<1>4. Begin(p, kind, {u}, new, l) /\ {u} \in SUBSET Users
  OBVIOUS
<1>. HIDE DEF new
<1>5. \A v \in {u} : /\ Computed(kind, users[v], new[v], l)
                     /\ Inserting(kind, users[v])
  BY <1>3
<1>. QED
  BY <1>1, <1>3, <1>4, <1>5 DEF Loads

\* Every handler loads an account that it may work on.
LEMMA ArriveLoads ==
  ASSUME IInv, NEW p \in Requests, NEW u \in Users, Arrive(p, u)
  PROVE  Loads(p)
<1>1. TypeOK /\ users[u] \in UserRow
  BY DEF IInv, TypeOK
<1>2. SignedIn(u) => users[u].active /\ users[u].known
  BY DEF IInv, TokensKnown, SignedIn, Valid
<1>3. /\ users[u].admin => users[u].known
      /\ users[u].staff => users[u].known
      /\ users[u].mail \in Links => users[u].known
      /\ users[u].reset \in Links => users[u].known
  BY DEF IInv, Blank, Nobody, Links
<1>4. CASE Register(p, u)
  <2>1. /\ minted < MaxLinks /\ minted' = minted + 1
        /\ Begin(p, "register", {u},
                 [users EXCEPT ![u] = Registered(minted + 1)], minted + 1)
    BY <1>4 DEF Register, BeginLink
  <2>2. /\ Computed("register", users[u], Registered(minted + 1), minted + 1)
        /\ Inserting("register", users[u]) /\ "register" \in MintKinds
    BY <1>4 DEF Register, Computed, Inserting, Inserts, MintKinds
  <2>. QED
    BY <1>1, <2>1, <2>2, BeginMintLoads
<1>5. CASE RegisterAgain(p, u)
  <2>1. /\ minted < MaxLinks /\ minted' = minted + 1
        /\ Begin(p, "again", {u},
                 [users EXCEPT ![u] = [users[u] EXCEPT !.mail = minted + 1]],
                 minted + 1)
    BY <1>5 DEF RegisterAgain, BeginLink
  <2>2. /\ Computed("again", users[u], [users[u] EXCEPT !.mail = minted + 1],
                    minted + 1)
        /\ Inserting("again", users[u]) /\ "again" \in MintKinds
    BY <1>5 DEF RegisterAgain, Computed, Inserting, Inserts, MintKinds
  <2>. QED
    BY <1>1, <2>1, <2>2, BeginMintLoads
<1>6. CASE ForgotPassword(p, u)
  <2>1. /\ minted < MaxLinks /\ minted' = minted + 1
        /\ Begin(p, "forgot", {u},
                 [users EXCEPT ![u] = [users[u] EXCEPT !.reset = minted + 1]],
                 minted + 1)
    BY <1>6 DEF ForgotPassword, BeginLink
  <2>2. /\ Computed("forgot", users[u], [users[u] EXCEPT !.reset = minted + 1],
                    minted + 1)
        /\ Inserting("forgot", users[u]) /\ "forgot" \in MintKinds
    BY <1>6 DEF ForgotPassword, Computed, Inserting, Inserts, MintKinds
  <2>. QED
    BY <1>1, <2>1, <2>2, BeginMintLoads
<1>7. ASSUME NEW l \in Links, VerifyEmail(p, u, l)
      PROVE  Loads(p)
  <2>1. Begin(p, "verify", {u}, [users EXCEPT ![u] =
                [users[u] EXCEPT !.confirmed = TRUE, !.mail = 0]], l)
    BY <1>7 DEF VerifyEmail
  <2>2. /\ Computed("verify", users[u],
                    [users[u] EXCEPT !.confirmed = TRUE, !.mail = 0], l)
        /\ Inserting("verify", users[u]) /\ "verify" \in LinkKinds
    BY <1>3, <1>7 DEF VerifyEmail, Computed, Inserting, Inserts, LinkKinds
  <2>. QED
    BY <1>1, <1>7, <2>1, <2>2, BeginLinkLoads DEF VerifyEmail
<1>8. ASSUME NEW l \in Links, ResetPassword(p, u, l)
      PROVE  Loads(p)
  <2>1. Begin(p, "reset", {u}, [users EXCEPT ![u] = Reset(users[u])], l)
    BY <1>8 DEF ResetPassword
  <2>2. /\ Computed("reset", users[u], Reset(users[u]), l)
        /\ Inserting("reset", users[u]) /\ "reset" \in LinkKinds
    BY <1>3, <1>8 DEF ResetPassword, Computed, Inserting, Inserts, LinkKinds
  <2>. QED
    BY <1>1, <1>8, <2>1, <2>2, BeginLinkLoads DEF ResetPassword
<1>9. ASSUME NEW kind \in AllKinds, NEW row, BeginOne(p, kind, u, row),
             kind \notin LinkKinds \cup MintKinds,
             Computed(kind, users[u], row, 0), Inserting(kind, users[u]),
             kind = "change" => SignedIn(u)
      PROVE  Loads(p)
  BY <1>1, <1>9, BeginOneLoads
<1>. USE DEF AllKinds, LoginKinds, LinkKinds, MintKinds, Inserts
<1>10. CASE Login(p, u)
  <2>1. Computed("login", users[u], Cleared(users[u]), 0)
    BY <1>10 DEF Login, Computed, Allowed
  <2>. QED
    BY <1>9, <1>10, <2>1 DEF Login, Inserting
<1>11. CASE ChangePassword(p, u)
  <2>1. Computed("change", users[u], Changed(users[u]), 0)
    BY <1>2, <1>11 DEF ChangePassword, Computed
  <2>. QED
    BY <1>2, <1>3, <1>9, <1>11, <2>1 DEF ChangePassword, Inserting
<1>12. CASE UpdateMe(p, u)
  <2>1. Computed("profile", users[u], ChangedInProfile(users[u]), 0)
    BY DEF Computed
  <2>. QED
    BY <1>2, <1>3, <1>9, <1>12, <2>1 DEF UpdateMe, Inserting
<1>13. CASE CreateStaff(p, u)
  <2>1. Computed("invite", users[u], Invited, 0)
    BY <1>13 DEF CreateStaff, Computed
  <2>. QED
    BY <1>9, <1>13, <2>1 DEF CreateStaff, Inserting
<1>14. CASE Deactivate(p, u)
  <2>1. Computed("suspend", users[u], Suspended(users[u]), 0)
    BY <1>14 DEF Deactivate, Computed
  <2>. QED
    BY <1>9, <1>14, <2>1 DEF Deactivate, Inserting
<1>15. CASE Reactivate(p, u)
  <2>1. Computed("restore", users[u], Restored(users[u]), 0)
    BY DEF Computed
  <2>. QED
    BY <1>9, <1>15, <2>1 DEF Reactivate, Inserting
<1>16. CASE ResetStaffPassword(p, u)
  <2>1. Computed("recode", users[u], Recoded(users[u]), 0)
    BY DEF Computed
  <2>. QED
    BY <1>9, <1>16, <2>1 DEF ResetStaffPassword, Inserting
<1>17. CASE Appoint(p, u)
  <2>1. Computed("appoint", users[u], Appointed, 0)
    BY <1>17 DEF Appoint, Computed
  <2>. QED
    BY <1>9, <1>17, <2>1 DEF Appoint, Inserting
<1>18. CASE Promote(p, u)
  <2>1. Computed("promote", users[u], Promoted(users[u]), 0)
    BY DEF Computed
  <2>. QED
    BY <1>9, <1>18, <2>1 DEF Promote, Inserting
<1>19. CASE Revoke(p, u)
  <2>1. Computed("revoke", users[u], Revoked(users[u]), 0)
    BY DEF Computed
  <2>. QED
    BY <1>3, <1>9, <1>19, <2>1 DEF Revoke, Inserting
<1>. QED
  BY <1>4, <1>5, <1>6, <1>7, <1>8, <1>10, <1>11, <1>12, <1>13, <1>14, <1>15,
     <1>16, <1>17, <1>18, <1>19 DEF Arrive

LEMMA LoginFailsLoads ==
  ASSUME IInv, NEW p \in Requests, NEW who \in Identifiers, LoginFails(p, who)
  PROVE  Loads(p)
<1>. DEFINE new == [u \in Users |-> Counted(users[u])]
<1>1. who \in SUBSET Users
  BY AccountsAssumption
<1>2. ASSUME NEW u \in Users
      PROVE  Counted(users[u]) \in UserRow
  <2>1. users[u] \in UserRow /\ users[u].fails < Threshold
    BY DEF IInv, TypeOK
  <2>2. Computed("fail", users[u], Counted(users[u]), 0) /\ 0 \in Nat
    BY DEF Computed
  <2>. QED
    BY <2>1, <2>2, ComputedFits
<1>3. new \in [Users -> UserRow]
  BY <1>2
<1>4. Begin(p, "fail", who, new, 0) /\ minted' = minted
  BY DEF LoginFails
<1>5. \A u \in who : /\ Computed("fail", users[u], new[u], 0)
                     /\ Inserting("fail", users[u])
  BY <1>1 DEF LoginFails, Computed, Inserting, Inserts
<1>6. /\ "fail" \in AllKinds /\ "fail" \notin MintKinds
      /\ "fail" \notin LinkKinds /\ 0 \in Nat /\ "fail" # "change"
  BY DEF AllKinds, LoginKinds, MintKinds, LinkKinds
<1>. HIDE DEF new
<1>. QED
  BY <1>1, <1>3, <1>4, <1>5, <1>6 DEF Loads

-----------------------------------------------------------------------------
(* Every step keeps the invariant.                                         *)

\* An account that is known stays so.
Grows == \A u \in Users : users[u].known => users'[u].known

LEMMA OthersFit ==
  ASSUME IInv, NEW q \in Requests, proc'[q] = proc[q], Grows
  PROVE  CommitFits(q)' /\ IssueFits(q)'
<1>1. proc[q].who \subseteq Users
  BY DEF IInv, TypeOK, Process
<1>2. CommitFits(q) /\ IssueFits(q)
  BY DEF IInv
<1>3. CommitFits(q)'
  BY <1>1, <1>2 DEF CommitFits, Grows
<1>4. IssueFits(q)'
  BY <1>1, <1>2 DEF IssueFits, Grows
<1>. QED
  BY <1>3, <1>4

LEMMA IdleFits == Idle \in Process
BY NobodyFits DEF Idle, Process, AllKinds, LoginKinds

LEMMA InitInv == Init => IInv
<1>. SUFFICES ASSUME Init PROVE IInv
  OBVIOUS
<1>1. TypeOK
  BY NobodyFits, IdleFits, AccountsAssumption DEF Init, TypeOK
<1>2. \A p \in Requests : CommitFits(p) /\ IssueFits(p)
  BY DEF Init, CommitFits, IssueFits, Idle
<1>3. Blank /\ TokensKnown
  BY DEF Init, Blank, TokensKnown
<1>. QED
  BY <1>1, <1>2, <1>3 DEF IInv

LEMMA LoadsInv ==
  ASSUME IInv, NEW p \in Requests, Loads(p)
  PROVE  IInv'
<1>1. PICK kind \in AllKinds, who \in SUBSET Users,
           new \in [Users -> UserRow], l \in Nat :
        /\ Begin(p, kind, who, new, l)
        /\ \A u \in who : /\ Computed(kind, users[u], new[u], l)
                          /\ Inserting(kind, users[u])
        /\ IF kind \in MintKinds
           THEN minted < MaxLinks /\ l = minted + 1 /\ minted' = minted + 1
           ELSE minted' = minted
        /\ kind \in LinkKinds => l \in Links
        /\ kind \in LinkKinds \cup MintKinds => \E u \in Users : who = {u}
  BY DEF Loads
<1>. DEFINE v == [pc |-> "commit", kind |-> kind, who |-> who,
                  rows |-> [u \in Users |-> IF u \in who THEN users[u]
                                            ELSE Nobody],
                  new |-> [u \in Users |-> IF u \in who THEN new[u]
                                           ELSE Nobody],
                  link |-> l]
<1>2. proc' = [proc EXCEPT ![p] = v] /\ v \in Process
  BY <1>1, NobodyFits DEF Begin, Process, IInv, TypeOK
<1>3. UNCHANGED <<users, tokens, inbox, spent, streak, fresh>>
  BY <1>1 DEF Begin
<1>4. minted' \in 0 .. MaxLinks
  BY <1>1, AccountsAssumption DEF IInv, TypeOK
<1>5. TypeOK'
  BY <1>2, <1>3, <1>4 DEF IInv, TypeOK
<1>6. proc'[p] = v
  BY <1>2 DEF IInv, TypeOK
<1>7. CommitFits(p)' /\ IssueFits(p)'
  <2>1. \A u \in who : /\ v.rows[u] = users[u] /\ v.new[u] = new[u]
                       /\ u \in Users
    OBVIOUS
  <2>2. \A u \in who : new[u].fails < Threshold
    BY <1>1, ComputedFits DEF IInv, TypeOK
  <2>3. kind \in LinkKinds \cup MintKinds => l \in Links
    BY <1>1, AccountsAssumption DEF IInv, TypeOK, Links
  <2>4. v.pc = "commit" /\ v.kind = kind /\ v.who = who /\ v.link = l
    OBVIOUS
  <2>. HIDE DEF v
  <2>5. CommitFits(p)'
    BY <1>1, <1>3, <1>6, <2>1, <2>2, <2>3, <2>4 DEF CommitFits, IInv, Blank
  <2>6. IssueFits(p)'
    BY <1>6, <2>4 DEF IssueFits
  <2>. QED
    BY <2>5, <2>6
<1>8. ASSUME NEW q \in Requests, q # p
      PROVE  CommitFits(q)' /\ IssueFits(q)'
  <2>1. proc'[q] = proc[q]
    BY <1>2, <1>8 DEF IInv, TypeOK
  <2>. QED
    BY <1>3, <2>1, OthersFit DEF Grows
<1>. QED
  BY <1>3, <1>5, <1>7, <1>8 DEF IInv, Blank, TokensKnown

\* A computed row is known.
LEMMA ComputedKeeps ==
  ASSUME NEW old \in UserRow, NEW kind, NEW new, NEW l,
         Computed(kind, old, new, l), Inserting(kind, old),
         ~old.known => old = Nobody
  PROVE  new.known
<1>1. CASE kind = "register"
  BY <1>1 DEF Computed, Registered, Nobody
<1>2. CASE kind \in {"invite", "appoint"}
  BY <1>2 DEF Computed, Invited, Appointed, Nobody
<1>3. CASE kind \notin Inserts
  <2>1. old.known
    BY <1>3 DEF Inserting
  <2>2. CASE kind \in {"again", "forgot", "fail", "login"}
    BY <2>1, <2>2 DEF Computed, UserRow, Counted, Cleared
  <2>3. CASE kind \in {"verify", "reset", "recode"}
    BY <2>1, <2>3 DEF Computed, UserRow, Reset, Recoded, Cleared
  <2>4. CASE kind \in {"change", "profile", "suspend", "restore", "promote",
                       "revoke"}
    BY <2>1, <2>4 DEF Computed, UserRow, Changed, ChangedInProfile, Suspended,
       Restored, Promoted, Revoked
  <2>. QED
    BY <1>3, <2>2, <2>3, <2>4 DEF Computed, Inserts
<1>. QED
  BY <1>1, <1>2, <1>3 DEF Inserts

\* What a commit does to the account u.
LEMMA CommitFacts ==
  ASSUME IInv, NEW p \in Requests, Commit(p), NEW u \in Users
  PROVE  /\ users'[u] \in UserRow /\ users'[u].fails < Threshold
         /\ u \in proc[p].who =>
              /\ users'[u] = Written(proc[p].kind, proc[p].rows[u],
                                     proc[p].new[u], users[u])
              /\ users'[u].known
         /\ u \notin proc[p].who => users'[u] = users[u]
<1>. DEFINE r == proc[p]
<1>1. /\ r \in Process /\ r.pc = "commit" /\ CommitFits(p)
      /\ users[u] \in UserRow /\ users[u].fails < Threshold
  BY DEF IInv, TypeOK, Commit
<1>2. CASE u \notin r.who
  BY <1>1, <1>2 DEF Commit
<1>3. CASE u \in r.who
  <2>1. users'[u] = Written(r.kind, r.rows[u], r.new[u], users[u])
    BY <1>3 DEF Commit
  <2>2. r.rows[u] \in UserRow /\ r.new[u] \in UserRow
    BY <1>1 DEF Process
  <2>3. /\ Computed(r.kind, r.rows[u], r.new[u], r.link)
        /\ Inserting(r.kind, r.rows[u])
        /\ r.rows[u].known => users[u].known
        /\ ~r.rows[u].known => r.rows[u] = Nobody
        /\ r.new[u].fails < Threshold
    BY <1>1, <1>3 DEF CommitFits
  <2>. HIDE DEF r
  <2>4. r.new[u].known
    BY <2>2, <2>3, ComputedKeeps
  <2>6. /\ users'[u] \in UserRow
        /\ users'[u].known = IF r.new[u].known # r.rows[u].known
                             THEN r.new[u].known ELSE users[u].known
        /\ users'[u].fails = IF r.new[u].fails # r.rows[u].fails
                             THEN r.new[u].fails ELSE users[u].fails
    BY <1>1, <2>1, <2>2, WrittenFacts, SMTT(30)
  <2>7. users'[u].known
    BY <2>2, <2>3, <2>4, <2>6 DEF UserRow
  <2>9. users'[u].fails < Threshold
    BY <1>1, <2>3, <2>6
  <2>. QED
    BY <1>3, <2>1, <2>6, <2>7, <2>9 DEF r
<1>. QED
  BY <1>2, <1>3

LEMMA CommitInv ==
  ASSUME IInv, NEW p \in Requests, Commit(p)
  PROVE  IInv'
<1>. DEFINE r == proc[p]
            next == After(r.kind)
<1>1. r \in Process /\ r.pc = "commit" /\ CommitFits(p) /\ TypeOK
  BY DEF IInv, TypeOK, Commit
<1>2. users' \in [Users -> UserRow] /\ \A u \in Users : users'[u].fails < Threshold
  <2>1. users' = [u \in Users |-> users'[u]]
    BY DEF Commit
  <2>2. \A u \in Users : users'[u] \in UserRow /\ users'[u].fails < Threshold
    BY CommitFacts
  <2>. QED
    BY <2>1, <2>2
<1>3. Grows
  BY CommitFacts DEF Grows
<1>4. Blank'
  BY CommitFacts DEF IInv, Blank
<1>5. tokens' \in [Users -> SUBSET Nat]
  <2>1. \A u \in Users : r.new[u].version \in Nat
    BY <1>1 DEF Process, UserRow
  <2>. QED
    BY <1>1, <2>1 DEF Commit, TypeOK
<1>6. TokensKnown'
  <2>1. ASSUME NEW u \in Users, tokens'[u] # {}
        PROVE  users'[u].known
    <3>1. CASE tokens[u] # {}
      BY <1>3, <3>1, SMTT(30) DEF IInv, TokensKnown, Grows
    <3>2. CASE tokens[u] = {}
      BY <2>1, <3>2, CommitFacts DEF Commit
    <3>. QED
      BY <3>1, <3>2
  <2>. QED
    BY <2>1 DEF TokensKnown
<1>7. spent' \in [Links -> Nat]
  BY <1>1 DEF Commit, TypeOK
<1>8. streak' \in [Users -> 0 .. Threshold]
  <2>1. Threshold \in Nat
    BY AccountsAssumption
  <2>2. \A u \in Users : streak[u] \in 0 .. Threshold
    BY <1>1 DEF TypeOK
  <2>3. \A u \in Users : streak'[u] \in 0 .. Threshold
    <3>. TAKE u \in Users
    <3>1. \/ streak'[u] = streak[u] \/ streak'[u] = 0 \/ streak'[u] = Threshold
          \/ streak[u] # Threshold /\ streak'[u] = streak[u] + 1
      BY DEF Commit
    <3>. QED
      BY <2>1, <2>2, <3>1
  <2>4. streak' = [u \in Users |-> streak'[u]]
    BY DEF Commit
  <2>. QED
    BY <2>3, <2>4
<1>9. \/ proc'[p] = Idle
      \/ proc'[p] = [Idle EXCEPT !.pc = "send", !.link = r.link]
      \/ /\ proc'[p] = [Idle EXCEPT !.pc = "issue", !.kind = r.kind,
                                    !.who = r.who, !.new = r.new]
         /\ r.kind \in {"change", "verify"}
  BY <1>1 DEF Commit, After, TypeOK
<1>10. /\ proc'[p] \in Process /\ proc' = [proc EXCEPT ![p] = proc'[p]]
       /\ proc'[p].pc # "commit"
  <2>1. proc' = [proc EXCEPT ![p] = proc'[p]]
    <3>1. PICK v : proc' = [proc EXCEPT ![p] = v]
      BY DEF Commit
    <3>. QED
      BY <1>1, <3>1 DEF TypeOK
  <2>2. CASE proc'[p] = Idle
    BY <2>1, <2>2, IdleFits DEF Idle
  <2>3. CASE proc'[p] = [Idle EXCEPT !.pc = "send", !.link = r.link]
    <3>1. r.link \in Nat
      BY <1>1 DEF Process
    <3>. QED
      BY <2>1, <2>3, <3>1, IdleFits DEF Process, Idle
  <2>4. CASE proc'[p] = [Idle EXCEPT !.pc = "issue", !.kind = r.kind,
                                     !.who = r.who, !.new = r.new]
    <3>1. /\ r.kind \in AllKinds /\ r.who \in SUBSET Users
          /\ r.new \in [Users -> UserRow]
      BY <1>1 DEF Process
    <3>. QED
      BY <2>1, <2>4, <3>1, IdleFits DEF Process, Idle
  <2>. QED
    BY <1>9, <2>2, <2>3, <2>4
<1>11. TypeOK'
  BY <1>1, <1>2, <1>5, <1>7, <1>8, <1>10 DEF Commit, TypeOK
<1>12. CommitFits(p)' /\ IssueFits(p)'
  <2>1. CommitFits(p)'
    BY <1>10 DEF CommitFits
  <2>2. ASSUME proc'[p].pc = "issue", NEW u \in proc'[p].who
        PROVE  users'[u].known
    <3>1. r.kind \in {"change", "verify"} /\ u \in r.who
      <4>. HIDE DEF r
      <4>1. Idle.pc # "issue" /\ [Idle EXCEPT !.pc = "send", !.link = r.link].pc # "issue"
        BY DEF Idle
      <4>2. proc'[p] = [Idle EXCEPT !.pc = "issue", !.kind = r.kind,
                                    !.who = r.who, !.new = r.new]
            /\ r.kind \in {"change", "verify"}
        BY <1>9, <2>2, <4>1
      <4>3. proc'[p].who = r.who
        BY <4>2 DEF Idle
      <4>. QED
        BY <2>2, <4>2, <4>3
    <3>2. u \in Users
      BY <1>1, <3>1 DEF Process
    <3>. QED
      BY <3>1, <3>2, CommitFacts
  <2>3. ASSUME proc'[p].pc = "send"
        PROVE  proc'[p].link \in Links
    <3>. HIDE DEF r
    <3>1. Idle.pc # "send" /\ [Idle EXCEPT !.pc = "issue", !.kind = r.kind,
                                 !.who = r.who, !.new = r.new].pc # "send"
      BY DEF Idle
    <3>2. proc'[p] = [Idle EXCEPT !.pc = "send", !.link = r.link]
      BY <1>9, <2>3, <3>1
    <3>3. proc'[p].link = r.link
      BY <3>2 DEF Idle
    <3>4. r.kind \in MintKinds
      BY <1>1, <2>3 DEF r, Commit, After, TypeOK, MintKinds, Idle
    <3>. QED
      BY <1>1, <3>3, <3>4 DEF r, CommitFits
  <2>. QED
    BY <2>1, <2>2, <2>3 DEF IssueFits
<1>13. ASSUME NEW q \in Requests, q # p
       PROVE  CommitFits(q)' /\ IssueFits(q)'
  BY <1>1, <1>3, <1>10, <1>13, OthersFit DEF TypeOK
<1>. QED
  BY <1>4, <1>6, <1>11, <1>12, <1>13 DEF IInv

LEMMA EndInv ==
  ASSUME IInv, NEW p \in Requests, proc' = [proc EXCEPT ![p] = Idle],
         UNCHANGED <<users, minted, spent, streak>>,
         inbox' \subseteq Links, fresh' \in BOOLEAN,
         tokens' \in [Users -> SUBSET Nat], TokensKnown'
  PROVE  IInv'
<1>1. TypeOK'
  BY IdleFits DEF IInv, TypeOK
<1>2. proc'[p] = Idle
  BY DEF IInv, TypeOK
<1>3. ASSUME NEW q \in Requests
      PROVE  CommitFits(q)' /\ IssueFits(q)'
  <2>1. CASE q = p
    BY <1>2, <2>1 DEF CommitFits, IssueFits, Idle
  <2>2. CASE q # p
    <3>1. proc'[q] = proc[q]
      BY <2>2 DEF IInv, TypeOK
    <3>. QED
      BY <3>1, OthersFit DEF Grows
  <2>. QED
    BY <2>1, <2>2
<1>. QED
  BY <1>1, <1>3 DEF IInv, Blank

LEMMA IssueInv ==
  ASSUME IInv, NEW p \in Requests, Issue(p)
  PROVE  IInv'
<1>1. \A u \in Users : users[u].version \in Nat
  BY DEF IInv, TypeOK, UserRow
<1>2. tokens' \in [Users -> SUBSET Nat]
  BY <1>1 DEF Issue, IInv, TypeOK
<1>3. TokensKnown'
  BY DEF Issue, IInv, IssueFits, TokensKnown
<1>. QED
  BY <1>2, <1>3, EndInv DEF Issue, IInv, TypeOK

LEMMA LockEndsInv ==
  ASSUME IInv, NEW u \in Users, LockEnds(u)
  PROVE  IInv'
<1>1. users' = [users EXCEPT ![u] = [users[u] EXCEPT !.lock = "over"]]
  BY DEF LockEnds
<1>2. users[u] \in UserRow /\ [users[u] EXCEPT !.lock = "over"] \in UserRow
  BY DEF IInv, TypeOK, UserRow
<1>3. users' \in [Users -> UserRow]
  BY <1>1, <1>2 DEF IInv, TypeOK
<1>4. \A v \in Users : /\ users'[v].fails = users[v].fails
                       /\ users'[v].known = users[v].known
                       /\ users[v].lock # "on" => users'[v] = users[v]
  BY <1>1, <1>2 DEF IInv, TypeOK, UserRow, LockEnds
<1>5. streak' \in [Users -> 0 .. Threshold]
  <2>1. 0 \in 0 .. Threshold
    BY AccountsAssumption
  <2>. QED
    BY <2>1 DEF LockEnds, IInv, TypeOK
<1>6. TypeOK'
  BY <1>3, <1>4, <1>5 DEF LockEnds, IInv, TypeOK
<1>7. Blank'
  BY <1>4 DEF IInv, Blank, Nobody
<1>8. \A q \in Requests : CommitFits(q)' /\ IssueFits(q)'
  BY <1>4, OthersFit DEF LockEnds, Grows
<1>9. TokensKnown'
  BY <1>4 DEF LockEnds, IInv, TokensKnown
<1>. QED
  BY <1>6, <1>7, <1>8, <1>9 DEF IInv

\* A step, by what it does to the sessions.
Steps(p) == Loads(p) \/ Commit(p) \/ Issue(p) \/ Send(p) \/ Abandon(p)

LEMMA NextSteps ==
  ASSUME IInv, [Next]_accountVars
  PROVE  \/ \E p \in Requests : Steps(p)
         \/ \E u \in Users : LockEnds(u)
         \/ UNCHANGED accountVars
BY ArriveLoads, LoginFailsLoads DEF Next, Steps

LEMMA NextInv == IInv /\ [Next]_accountVars => IInv'
<1>. SUFFICES ASSUME IInv, [Next]_accountVars PROVE IInv'
  OBVIOUS
<1>1. ASSUME NEW p \in Requests, Send(p)
      PROVE  IInv'
  <2>. DEFINE l == proc[p].link
  <2>1. inbox' = inbox \cup {l} /\ proc' = [proc EXCEPT ![p] = Idle]
    BY <1>1 DEF Send
  <2>. QED
    BY <1>1, <2>1, EndInv DEF Send, IInv, TypeOK, TokensKnown,
       IssueFits
<1>2. ASSUME NEW p \in Requests, Abandon(p)
      PROVE  IInv'
  BY <1>2, EndInv DEF Abandon, IInv, TypeOK, TokensKnown
<1>3. CASE UNCHANGED accountVars
  BY <1>3, OthersFit DEF accountVars, IInv, TypeOK, Blank, TokensKnown,
     Grows
<1>. QED
  BY <1>1, <1>2, <1>3, NextSteps, LoadsInv, CommitInv, IssueInv, LockEndsInv
     DEF Steps

THEOREM Invariant == Spec => []IInv
BY InitInv, NextInv, PTL DEF Spec

\* Every row and every session keeps its type, and no counter of failures
\* stays at the threshold, however requests overlap.
THEOREM TypeCorrect == Spec => []TypeOK
BY Invariant, PTL DEF IInv

-----------------------------------------------------------------------------
(* A forced change of the password.                                        *)

LEMMA CommitEnds ==
  ASSUME TypeOK, NEW p \in Requests, Commit(p)
  PROVE  /\ proc[p].pc = "commit" /\ proc'[p].pc # "commit"
         /\ \A q \in Requests : q # p => proc'[q] = proc[q]
         /\ proc'[p].pc = "issue" =>
              /\ proc'[p].who = proc[p].who /\ proc'[p].new = proc[p].new
              /\ proc[p].kind \in {"change", "verify"}
<1>. DEFINE r == proc[p]
            send == [Idle EXCEPT !.pc = "send", !.link = r.link]
            issue == [Idle EXCEPT !.pc = "issue", !.kind = r.kind,
                                  !.who = r.who, !.new = r.new]
<1>1. \/ proc'[p] = Idle
      \/ proc'[p] = send
      \/ proc'[p] = issue /\ r.kind \in {"change", "verify"}
  BY DEF Commit, After, TypeOK
<1>2. Idle.pc = "idle" /\ send.pc = "send"
  BY DEF Idle
<1>3. issue.pc = "issue" /\ issue.who = r.who /\ issue.new = r.new
  BY DEF Idle
<1>4. \A q \in Requests : q # p => proc'[q] = proc[q]
  BY DEF Commit, TypeOK
<1>5. r.pc = "commit"
  BY DEF Commit
<1>. HIDE DEF send, issue
<1>. QED
  BY <1>1, <1>2, <1>3, <1>4, <1>5

\* Only a chosen password settles a row that must change its own.
LEMMA ComputedForces ==
  ASSUME NEW old \in UserRow, NEW kind, NEW new, NEW l,
         Computed(kind, old, new, l), ~old.known => old = Nobody,
         old.must, kind # "change"
  PROVE  new.must
<1>1. old.known
  BY DEF Nobody
<1>2. CASE kind \in {"again", "forgot", "fail", "login"} \cup Inserts
  BY <1>1, <1>2 DEF Computed, UserRow, Counted, Cleared, Inserts
<1>3. CASE kind \in {"verify", "reset", "recode"}
  BY <1>3 DEF Computed, UserRow, Reset, Recoded, Cleared
<1>4. CASE kind \in {"profile", "suspend", "restore", "promote", "revoke"}
  BY <1>4 DEF Computed, UserRow, ChangedInProfile, Suspended, Restored,
     Promoted, Revoked
<1>. QED
  BY <1>2, <1>3, <1>4 DEF Computed, Inserts

LEMMA ForcedStep ==
  ASSUME IInv, [Next]_accountVars, NEW u \in Users, users[u].must,
         ~users'[u].must
  PROVE  \E p \in Requests : Committed(p) /\ proc[p].kind = "change"
                                          /\ u \in proc[p].who
<1>1. ASSUME NEW p \in Requests, Commit(p)
      PROVE  Committed(p) /\ proc[p].kind = "change" /\ u \in proc[p].who
  <2>1. u \in proc[p].who
    BY <1>1, CommitFacts
  <2>2. /\ proc[p].rows[u] \in UserRow /\ proc[p].new[u] \in UserRow
        /\ users[u] \in UserRow
    BY DEF IInv, TypeOK, Process
  <2>3. /\ Computed(proc[p].kind, proc[p].rows[u], proc[p].new[u], proc[p].link)
        /\ ~proc[p].rows[u].known => proc[p].rows[u] = Nobody
    BY <1>1, <2>1 DEF IInv, CommitFits, Commit
  <2>4. users'[u].must = IF proc[p].new[u].must # proc[p].rows[u].must
                         THEN proc[p].new[u].must ELSE users[u].must
    <3>1. users'[u] = Written(proc[p].kind, proc[p].rows[u], proc[p].new[u],
                              users[u])
      BY <1>1, <2>1, CommitFacts
    <3>. DEFINE old == proc[p].rows[u]
                new == proc[p].new[u]
                row == users[u]
    <3>2. old \in UserRow /\ new \in UserRow /\ row \in UserRow
      BY <2>2
    <3>3. users'[u] = Written(proc[p].kind, old, new, row)
      BY <3>1
    <3>. HIDE DEF old, new, row
    <3>4. Written(proc[p].kind, old, new, row).must =
             IF new.must # old.must THEN new.must ELSE row.must
      BY <3>2, WrittenFacts
    <3>5. users'[u].must = IF new.must # old.must THEN new.must ELSE row.must
      BY <3>3, <3>4
    <3>. QED
      BY <3>5 DEF old, new, row
  <2>5. proc[p].rows[u].must /\ ~proc[p].new[u].must
    <3>1. /\ proc[p].rows[u].must \in BOOLEAN /\ proc[p].new[u].must \in BOOLEAN
          /\ users[u].must \in BOOLEAN
      BY <2>2 DEF UserRow
    <3>. QED
      BY <2>4, <3>1
  <2>6. proc[p].kind = "change"
    BY <2>2, <2>3, <2>5, ComputedForces
  <2>7. Committed(p)
    BY <1>1, CommitEnds DEF IInv, Committed
  <2>. QED
    BY <2>1, <2>6, <2>7
<1>2. ASSUME NEW v \in Users, LockEnds(v)
      PROVE  FALSE
  <2>1. users' = [users EXCEPT ![v] = [users[v] EXCEPT !.lock = "over"]]
    BY <1>2 DEF LockEnds
  <2>. QED
    BY <2>1 DEF IInv, TypeOK, UserRow
<1>. QED
  BY <1>1, <1>2, NextSteps DEF Steps, Loads, Begin, Issue, Send, Abandon,
     accountVars

\* A forced change ends only with the account's own change of its password.
THEOREM ForcedChangeHolds == Spec => ForcedUntilChosen
<1>1. IInv /\ [Next]_accountVars =>
        [\A u \in Users : users[u].must /\ ~users'[u].must =>
           \E p \in Requests : Committed(p) /\ proc[p].kind = "change"
                                            /\ u \in proc[p].who]_accountVars
  BY ForcedStep
<1>. QED
  BY <1>1, Invariant, PTL DEF Spec, ForcedUntilChosen

-----------------------------------------------------------------------------
(* While every commit is fresh: codes, locks and tokens.                   *)

\* What holds of a row, its counter and a version that a token has or is to
\* have: it is the row's only if the account may sign in.
Sane(row) ==
  /\ row.code => row.must
  /\ ~row.active => row.staff
  /\ row.staff => row.mail = 0 /\ row.confirmed
Paced(row, n) == row.lock = "on" \/ n <= row.fails
Sound(row, v) ==
  /\ v <= row.version
  /\ ~row.active => v < row.version
  /\ v = row.version => Allowed(row)

FreshFits ==
  fresh => /\ \A u \in Users : /\ Sane(users[u])
                               /\ Paced(users[u], streak[u])
                               /\ \A v \in tokens[u] : Sound(users[u], v)
           /\ \A p \in Requests : proc[p].pc = "issue" =>
                \A u \in proc[p].who : Sound(users[u], proc[p].new[u].version)
           /\ \A p \in Requests :
                proc[p].pc = "commit" /\ proc[p].kind = "change" =>
                  \A u \in proc[p].who : Allowed(proc[p].rows[u])

FInv == IInv /\ FreshFits

\* A fresh commit writes what was computed from the row that is there.
LEMMA FreshCommit ==
  ASSUME IInv, NEW p \in Requests, Commit(p), fresh', NEW u \in proc[p].who
  PROVE  /\ fresh /\ u \in Users
         /\ users'[u] = Settled(proc[p].new[u])
         /\ proc[p].new[u] \in UserRow
         /\ Computed(proc[p].kind, users[u], proc[p].new[u], proc[p].link)
         /\ ~users[u].known => users[u] = Nobody
<1>. DEFINE old == proc[p].rows[u]
            new == proc[p].new[u]
<1>1. proc[p] \in Process /\ proc[p].pc = "commit" /\ CommitFits(p)
  BY DEF IInv, TypeOK, Commit
<1>2. u \in Users /\ old \in UserRow /\ new \in UserRow
  BY <1>1 DEF Process
<1>3. fresh /\ old = users[u]
  BY DEF Commit
<1>4. users'[u] = Written(proc[p].kind, old, new, users[u])
  BY <1>2, CommitFacts
<1>5. Computed(proc[p].kind, old, new, proc[p].link)
  BY <1>1 DEF CommitFits
<1>6. ~users[u].known => users[u] = Nobody
  BY <1>2 DEF IInv, Blank
<1>. HIDE DEF old, new
<1>7. Written(proc[p].kind, old, new, old) = Settled(new)
  BY <1>2, WrittenFresh
<1>. QED
  BY <1>2, <1>3, <1>4, <1>5, <1>6, <1>7 DEF old, new

LEMMA SettledFacts ==
  ASSUME NEW row \in UserRow
  PROVE  LET s == Settled(row) IN
         /\ s.code = row.code /\ s.must = row.must /\ s.active = row.active
         /\ s.staff = row.staff /\ s.mail = row.mail /\ s.reset = row.reset
         /\ s.confirmed = row.confirmed /\ s.version = row.version
         /\ s.admin = row.admin
         /\ s.fails = row.fails
         /\ s.lock = IF row.lock = "set" THEN "on" ELSE row.lock
BY DEF Settled, UserRow

\* Which kinds move the version, and which the other columns.
LEMMA ComputedSane ==
  ASSUME NEW old \in UserRow, NEW kind, NEW new, NEW l \in Nat,
         Computed(kind, old, new, l), ~old.known => old = Nobody, Sane(old)
  PROVE  /\ Sane(new)
         /\ new.version = IF kind \in EndKinds THEN old.version + 1
                          ELSE old.version
         /\ kind \notin EndKinds /\ new.active =>
              old.active \/ kind = "restore"
         /\ kind # "suspend" => (old.active => new.active)
         /\ kind # "revoke" => (Allowed(old) => Allowed(new))
         /\ kind = "verify" => Allowed(new)
         /\ kind \notin {"fail", "login", "reset", "recode"} =>
              new.fails = old.fails /\ new.lock = old.lock
<1>1. CASE kind \in Inserts
  <2>1. old = Nobody /\ (new = Registered(l) \/ new = Invited \/ new = Appointed)
    BY <1>1 DEF Computed, Inserts
  <2>2. Sane(new) /\ new.version = 0 /\ new.active
        /\ new.fails = 0 /\ new.lock = "none"
    BY <2>1 DEF Sane, Registered, Invited, Appointed, Nobody
  <2>. QED
    BY <1>1, <2>1, <2>2 DEF EndKinds, Nobody, Inserts, Allowed
<1>2. CASE kind \in {"again", "forgot"}
  BY <1>2 DEF Computed, Sane, UserRow, EndKinds, Allowed
<1>3. CASE kind \in {"fail", "login"}
  <2>1. new = Counted(old) \/ new = Cleared(old)
    BY <1>3 DEF Computed
  <2>2. /\ new.code = old.code /\ new.must = old.must
        /\ new.active = old.active /\ new.staff = old.staff
        /\ new.mail = old.mail /\ new.confirmed = old.confirmed
        /\ new.version = old.version /\ new.admin = old.admin
    BY <2>1 DEF Counted, Cleared, UserRow
  <2>. QED
    BY <1>3, <2>2 DEF EndKinds, Sane, Allowed
<1>4. CASE kind = "verify"
  BY <1>4 DEF Computed, Sane, UserRow, EndKinds, Allowed
<1>5. CASE kind \in {"reset", "recode"}
  <2>1. new = Reset(old) \/ new = Recoded(old)
    BY <1>5 DEF Computed
  <2>2. /\ new.code => new.must
        /\ new.active = old.active /\ new.staff = old.staff
        /\ new.mail = old.mail /\ (old.confirmed => new.confirmed)
        /\ new.version = old.version + 1 /\ new.admin = old.admin
    BY <2>1 DEF Reset, Recoded, Cleared, UserRow
  <2>. QED
    BY <1>5, <2>2 DEF EndKinds, Sane, Allowed
<1>6. CASE kind \in {"change", "profile"}
  BY <1>6 DEF Computed, Sane, UserRow, EndKinds, Allowed, Changed,
     ChangedInProfile
<1>7. CASE kind \in {"suspend", "restore"}
  BY <1>7 DEF Computed, Sane, UserRow, EndKinds, Allowed, Suspended, Restored
<1>8. CASE kind \in {"promote", "revoke"}
  BY <1>8 DEF Computed, Sane, UserRow, EndKinds, Allowed, Promoted, Revoked
<1>. QED
  BY <1>1, <1>2, <1>3, <1>4, <1>5, <1>6, <1>7, <1>8 DEF Computed, Inserts

\* Counting a failure keeps pace with the streak.
LEMMA ComputedPaced ==
  ASSUME NEW old \in UserRow, NEW kind, NEW new \in UserRow, NEW l \in Nat,
         Computed(kind, old, new, l), ~old.known => old = Nobody, Sane(old),
         old.fails < Threshold, NEW n \in 0 .. Threshold, Paced(old, n)
  PROVE  /\ kind = "fail" =>
              Paced(Settled(new), IF n = Threshold THEN Threshold ELSE n + 1)
         /\ kind \in {"login", "reset", "recode"} => Paced(Settled(new), 0)
         /\ kind \notin {"fail", "login", "reset", "recode"} =>
              Paced(Settled(new), n)
<1>1. /\ Threshold \in Nat /\ n \in Nat /\ n <= Threshold
      /\ old.fails \in Nat /\ new.fails \in Nat
  <2>1. Threshold \in Nat
    BY AccountsAssumption
  <2>. QED
    BY <2>1 DEF UserRow
<1>2. /\ Settled(new).fails = new.fails
      /\ new.lock \in {"set", "on"} => Settled(new).lock = "on"
  BY SettledFacts
<1>3. CASE kind = "fail"
  <2>1. new = Counted(old)
    BY <1>3 DEF Computed
  <2>2. \/ new.lock = "set"
        \/ new.lock = old.lock /\ new.fails = old.fails + 1
    BY <2>1 DEF Counted, UserRow
  <2>. QED
    BY <1>1, <1>2, <1>3, <2>2 DEF Paced
<1>4. kind \in {"login", "reset", "recode"} => Paced(Settled(new), 0)
  BY <1>1, <1>2 DEF Paced
<1>5. CASE kind \notin {"fail", "login", "reset", "recode"}
  <2>1. new.fails = old.fails /\ new.lock = old.lock
    BY <1>5, ComputedSane
  <2>. QED
    BY <1>1, <1>2, <1>5, <2>1 DEF Paced
<1>. QED
  BY <1>3, <1>4, <1>5

\* A fresh commit revives nothing.
LEMMA ComputedSound ==
  ASSUME NEW old \in UserRow, NEW kind, NEW new \in UserRow, NEW l \in Nat,
         Computed(kind, old, new, l), ~old.known => old = Nobody, Sane(old),
         NEW v \in Nat, Sound(old, v)
  PROVE  Sound(Settled(new), v)
<1>1. /\ Settled(new).version = new.version /\ Settled(new).active = new.active
      /\ Allowed(new) => Allowed(Settled(new))
      /\ old.version \in Nat /\ old.active \in BOOLEAN /\ new.active \in BOOLEAN
  BY SettledFacts DEF UserRow, Allowed
<1>2. new.version = IF kind \in EndKinds THEN old.version + 1 ELSE old.version
  BY ComputedSane
<1>3. /\ kind # "suspend" => (old.active => new.active)
      /\ kind # "revoke" => (Allowed(old) => Allowed(new))
  BY ComputedSane
<1>4. CASE kind \in EndKinds
  BY <1>1, <1>2, <1>4 DEF Sound
<1>5. CASE kind \notin EndKinds
  <2>1. (old.active => new.active) /\ (Allowed(old) => Allowed(new))
    BY <1>3, <1>5 DEF EndKinds
  <2>. QED
    BY <1>1, <1>2, <1>5, <2>1 DEF Sound
<1>. QED
  BY <1>4, <1>5

LEMMA CommitFresh ==
  ASSUME FInv, NEW p \in Requests, Commit(p), fresh'
  PROVE  FreshFits'
<1>. USE DEF FInv
<1>. DEFINE r == proc[p]
<1>1. /\ TypeOK /\ r \in Process /\ CommitFits(p) /\ r.pc = "commit" /\ fresh
      /\ r.link \in Nat
  BY DEF IInv, TypeOK, Commit, Process
<1>2. ASSUME NEW u \in Users
      PROVE  /\ users[u] \in UserRow /\ users[u].fails < Threshold
             /\ streak[u] \in 0 .. Threshold
             /\ Sane(users[u]) /\ Paced(users[u], streak[u])
             /\ \A v \in tokens[u] : v \in Nat /\ Sound(users[u], v)
  BY <1>1 DEF TypeOK, FreshFits
<1>3. ASSUME NEW u \in r.who
      PROVE  /\ users'[u] = Settled(r.new[u]) /\ u \in Users
             /\ r.new[u] \in UserRow
             /\ Computed(r.kind, users[u], r.new[u], r.link)
             /\ ~users[u].known => users[u] = Nobody
  BY FreshCommit DEF IInv
<1>4. ASSUME NEW u \in Users, u \notin r.who
      PROVE  users'[u] = users[u] /\ streak'[u] = streak[u]
             /\ tokens'[u] = tokens[u]
  BY <1>4 DEF Commit
<1>. HIDE DEF r
<1>5. ASSUME NEW u \in r.who, NEW v \in Nat, Sound(users[u], v)
      PROVE  Sound(users'[u], v)
  BY <1>1, <1>2, <1>3, <1>5, ComputedSound
<1>6. ASSUME NEW u \in r.who
      PROVE  Sane(users'[u])
  <2>1. Sane(r.new[u])
    BY <1>1, <1>2, <1>3, ComputedSane
  <2>2. Sane(Settled(r.new[u]))
    BY <1>3, <2>1, SettledFacts DEF Sane
  <2>. QED
    BY <1>3, <2>2
<1>7. ASSUME NEW u \in r.who
      PROVE  Paced(users'[u], streak'[u])
  <2>1. u \in Users /\ users'[u] = Settled(r.new[u])
    BY <1>3
  <2>2. streak'[u] = CASE r.kind = "fail" ->
                            IF streak[u] = Threshold THEN Threshold
                            ELSE streak[u] + 1
                       [] r.kind \in {"login", "reset", "recode"} -> 0
                       [] OTHER -> streak[u]
    BY <2>1 DEF Commit, r
  <2>3. /\ r.kind = "fail" =>
             Paced(Settled(r.new[u]),
                   IF streak[u] = Threshold THEN Threshold ELSE streak[u] + 1)
        /\ r.kind \in {"login", "reset", "recode"} =>
             Paced(Settled(r.new[u]), 0)
        /\ r.kind \notin {"fail", "login", "reset", "recode"} =>
             Paced(Settled(r.new[u]), streak[u])
    BY <1>1, <1>2, <1>3, ComputedPaced
  <2>. QED
    BY <2>1, <2>2, <2>3
<1>8. ASSUME NEW u \in r.who, r.kind \in {"login", "change", "verify"}
      PROVE  Sound(users'[u], r.new[u].version) /\ r.new[u].version \in Nat
  <2>1. users[u].active
    <3>1. CASE r.kind \in {"login", "change"}
      BY <1>3, <3>1 DEF Computed
    <3>2. CASE r.kind = "verify"
      <4>1. users[u].mail = r.link
        BY <1>3, <3>2 DEF Computed
      <4>2. r.link \in Links
        BY <1>1, <1>8, <3>2 DEF r, CommitFits, LinkKinds
      <4>. QED
        BY <1>2, <1>3, <4>1, <4>2 DEF Sane, Links
    <3>. QED
      BY <1>8, <3>1, <3>2
  <2>2. r.new[u].active
    BY <1>1, <1>2, <1>3, <1>8, <2>1, ComputedSane
  <2>6. Allowed(r.new[u])
    <3>1. CASE r.kind = "verify"
      BY <1>1, <1>2, <1>3, <3>1, ComputedSane
    <3>2. CASE r.kind \in {"login", "change"}
      <4>1. Allowed(users[u])
        <5>1. CASE r.kind = "login"
          BY <1>3, <5>1 DEF Computed
        <5>2. CASE r.kind = "change"
          BY <1>1, <1>8, <5>2 DEF FreshFits, Commit, r
        <5>. QED
          BY <3>2, <5>1, <5>2
      <4>. QED
        BY <1>1, <1>2, <1>3, <3>2, <4>1, ComputedSane
    <3>. QED
      BY <1>8, <3>1, <3>2
  <2>3. /\ Settled(r.new[u]).version = r.new[u].version
        /\ Settled(r.new[u]).active = r.new[u].active
        /\ Allowed(r.new[u]) => Allowed(Settled(r.new[u]))
        /\ r.new[u].version \in Nat
    BY <1>3, SettledFacts DEF UserRow, Allowed
  <2>4. /\ users'[u].version = r.new[u].version /\ users'[u].active
        /\ Allowed(users'[u])
    BY <1>3, <2>2, <2>3, <2>6
  <2>5. users'[u].version <= r.new[u].version /\ r.new[u].version <= users'[u].version
    BY <2>3, <2>4
  <2>. QED
    BY <2>3, <2>4, <2>5 DEF Sound
<1>9. ASSUME NEW u \in Users, NEW v \in tokens'[u]
      PROVE  Sound(users'[u], v)
  <2>1. CASE v \in tokens[u]
    BY <1>2, <1>4, <1>5, <2>1
  <2>2. CASE v \notin tokens[u]
    <3>1. r.kind = "login" /\ u \in r.who /\ v = r.new[u].version
      BY <1>9, <2>2 DEF Commit, r
    <3>. QED
      BY <1>8, <3>1
  <2>. QED
    BY <2>1, <2>2
<1>10. ASSUME NEW q \in Requests, proc'[q].pc = "issue", NEW u \in proc'[q].who
       PROVE  Sound(users'[u], proc'[q].new[u].version)
  <2>1. CASE q = p
    BY <1>1, <1>8, <1>10, <2>1, CommitEnds DEF r
  <2>2. CASE q # p
    <3>1. proc'[q] = proc[q] /\ proc[q] \in Process
      BY <1>1, <2>2, CommitEnds DEF TypeOK
    <3>2. u \in Users /\ proc[q].new[u].version \in Nat
      BY <1>10, <3>1 DEF Process, UserRow
    <3>3. Sound(users[u], proc[q].new[u].version)
      BY <1>1, <1>10, <3>1 DEF FreshFits
    <3>. QED
      BY <1>4, <1>5, <3>1, <3>2, <3>3
  <2>. QED
    BY <2>1, <2>2
<1>11. ASSUME NEW u \in Users
       PROVE  Sane(users'[u]) /\ Paced(users'[u], streak'[u])
  BY <1>2, <1>4, <1>6, <1>7
<1>12. ASSUME NEW q \in Requests, proc'[q].pc = "commit"
       PROVE  q # p /\ proc'[q] = proc[q]
  BY <1>1, <1>12, CommitEnds
<1>. QED
  BY <1>1, <1>9, <1>10, <1>11, <1>12
  DEF FreshFits, Sane, Paced, Sound, Allowed

LEMMA FreshInit == Init => FInv
<1>. SUFFICES ASSUME Init PROVE FInv
  OBVIOUS
<1>1. \A u \in Users : /\ Sane(users[u]) /\ Paced(users[u], streak[u])
                       /\ \A v \in tokens[u] : Sound(users[u], v)
  BY DEF Init, Nobody, Sane, Paced
<1>2. \A p \in Requests : proc[p].pc = "idle"
  BY DEF Init, Idle
<1>. QED
  BY <1>1, <1>2, InitInv DEF FInv, FreshFits

LEMMA FreshNext == FInv /\ [Next]_accountVars => FInv'
<1>. SUFFICES ASSUME FInv, [Next]_accountVars PROVE FInv'
  OBVIOUS
<1>. USE DEF FInv
<1>1. IInv'
  BY NextInv
<1>2. /\ TypeOK
      /\ fresh => /\ \A u \in Users : /\ Sane(users[u])
                                      /\ Paced(users[u], streak[u])
                                      /\ \A v \in tokens[u] : Sound(users[u], v)
                  /\ \A q \in Requests : proc[q].pc = "issue" =>
                       \A u \in proc[q].who :
                         Sound(users[u], proc[q].new[u].version)
                  /\ \A q \in Requests :
                       proc[q].pc = "commit" /\ proc[q].kind = "change" =>
                         \A u \in proc[q].who : Allowed(proc[q].rows[u])
  BY DEF IInv, FreshFits
<1>3. ASSUME NEW p \in Requests, Commit(p)
      PROVE  FreshFits'
  <2>1. CASE fresh'
    BY <1>3, <2>1, CommitFresh
  <2>2. CASE ~fresh'
    BY <2>2 DEF FreshFits
  <2>. QED
    BY <2>1, <2>2
<1>4. ASSUME NEW p \in Requests, UNCHANGED <<users, streak>>, fresh' => fresh,
             \A q \in Requests : proc'[q].pc = "issue" => proc'[q] = proc[q],
             \A q \in Requests : proc'[q].pc = "commit" =>
               \/ proc'[q] = proc[q]
               \/ fresh' /\ proc'[q].kind = "change" =>
                    \A u \in proc'[q].who : Allowed(proc'[q].rows[u]),
             fresh' => \A u \in Users : \A v \in tokens'[u] :
                         v \in tokens[u] \/ Sound(users[u], v)
      PROVE  FreshFits'
  BY <1>2, <1>4 DEF FreshFits, Sane, Paced, Sound, Allowed
<1>5. ASSUME NEW p \in Requests, Issue(p)
      PROVE  FreshFits'
  <2>1. \A q \in Requests : proc'[q].pc \in {"issue", "commit"} =>
                                proc'[q] = proc[q]
    BY <1>2, <1>5 DEF Issue, TypeOK, Idle
  <2>2. ASSUME fresh', NEW u \in Users, NEW v \in tokens'[u]
        PROVE  v \in tokens[u] \/ Sound(users[u], v)
    BY <1>2, <1>5, <2>2 DEF Issue, TypeOK
  <2>. QED
    BY <1>4, <1>5, <2>1, <2>2 DEF Issue
<1>6. ASSUME NEW p \in Requests, Loads(p)
      PROVE  FreshFits'
  <2>1. \A q \in Requests : proc'[q].pc = "issue" => proc'[q] = proc[q]
    BY <1>2, <1>6 DEF Loads, Begin, TypeOK
  <2>2. \A q \in Requests : q # p => proc'[q] = proc[q]
    BY <1>2, <1>6 DEF Loads, Begin, TypeOK
  <2>3. /\ proc'[p].who \subseteq Users
        /\ \A u \in proc'[p].who : proc'[p].rows[u] = users[u]
        /\ proc'[p].kind = "change" => \A u \in proc'[p].who : SignedIn(u)
    <3>1. PICK kind \in AllKinds, who \in SUBSET Users,
               new \in [Users -> UserRow], l \in Nat :
            /\ Begin(p, kind, who, new, l)
            /\ kind = "change" => \A u \in who : SignedIn(u)
      BY <1>6 DEF Loads
    <3>. QED
      BY <1>2, <3>1 DEF Begin, TypeOK
  <2>4. ASSUME fresh, NEW u \in Users, SignedIn(u)
        PROVE  Allowed(users[u])
    BY <1>2, <2>4 DEF SignedIn, Valid, Sound
  <2>5. UNCHANGED <<users, streak, fresh, tokens>>
    BY <1>6 DEF Loads, Begin
  <2>. QED
    BY <1>4, <2>1, <2>2, <2>3, <2>4, <2>5
<1>7. ASSUME NEW p \in Requests, Send(p) \/ Abandon(p)
      PROVE  FreshFits'
  <2>1. \A q \in Requests : proc'[q].pc \in {"issue", "commit"} =>
                                proc'[q] = proc[q]
    BY <1>2, <1>7 DEF Send, Abandon, TypeOK, Idle
  <2>. QED
    BY <1>4, <1>7, <2>1 DEF Send, Abandon
<1>8. ASSUME NEW u \in Users, LockEnds(u)
      PROVE  FreshFits'
  <2>1. users' = [users EXCEPT ![u] = [users[u] EXCEPT !.lock = "over"]]
    BY <1>8 DEF LockEnds
  <2>2. ASSUME NEW v \in Users
        PROVE  /\ users'[v].code = users[v].code
               /\ users'[v].must = users[v].must
               /\ users'[v].active = users[v].active
               /\ users'[v].staff = users[v].staff
               /\ users'[v].mail = users[v].mail
               /\ users'[v].confirmed = users[v].confirmed
               /\ users'[v].version = users[v].version
               /\ users'[v].admin = users[v].admin
               /\ users'[v].fails = users[v].fails /\ users[v].fails \in Nat
               /\ v # u => users'[v].lock = users[v].lock
    BY <1>2, <2>1 DEF TypeOK, UserRow
  <2>3. \A v \in Users : streak'[v] = IF v = u THEN 0 ELSE streak[v]
    BY <1>2, <1>8 DEF LockEnds, TypeOK
  <2>4. fresh' = fresh /\ tokens' = tokens /\ proc' = proc
    BY <1>8 DEF LockEnds
  <2>5. \A q \in Requests : proc[q].who \subseteq Users
    BY <1>2 DEF TypeOK, Process
  <2>6. ASSUME fresh, NEW v \in Users
        PROVE  Sane(users'[v])
    BY <1>2, <2>2, <2>6 DEF Sane
  <2>7. ASSUME fresh, NEW v \in Users
        PROVE  Paced(users'[v], streak'[v])
    BY <1>2, <2>2, <2>3, <2>7 DEF Paced
  <2>8. ASSUME NEW v \in Users, NEW n
        PROVE  Sound(users'[v], n) <=> Sound(users[v], n)
    BY <2>2 DEF Sound, Allowed
  <2>9. fresh => /\ \A v \in Users : \A n \in tokens'[v] : Sound(users'[v], n)
                 /\ \A q \in Requests : proc'[q].pc = "issue" =>
                      \A v \in proc'[q].who :
                        Sound(users'[v], proc'[q].new[v].version)
                 /\ \A q \in Requests :
                      proc'[q].pc = "commit" /\ proc'[q].kind = "change" =>
                        \A v \in proc'[q].who : Allowed(proc'[q].rows[v])
    BY <1>2, <2>4, <2>5, <2>8
  <2>. QED
    BY <2>4, <2>6, <2>7, <2>9 DEF FreshFits, Sane, Paced, Sound, Allowed
<1>9. ASSUME UNCHANGED accountVars
      PROVE  FreshFits'
  BY <1>2, <1>9 DEF accountVars, FreshFits, Sane, Paced, Sound, Allowed
<1>. QED
  BY <1>1, <1>3, <1>5, <1>6, <1>7, <1>8, <1>9, NextSteps DEF Steps

THEOREM FreshInvariant == Spec => []FInv
BY FreshInit, FreshNext, PTL DEF Spec

\* Whoever is signed in has confirmed an address or is an administrator.
THEOREM SessionsAreConfirmed == Spec => []NoSessionUnconfirmed
<1>1. FInv => NoSessionUnconfirmed
  <2>. SUFFICES ASSUME FInv, fresh, NEW u \in Users, SignedIn(u)
                PROVE  Allowed(users[u])
    BY DEF NoSessionUnconfirmed, Allowed
  <2>. QED
    BY DEF FInv, FreshFits, SignedIn, Valid, Sound
<1>. QED
  BY <1>1, FreshInvariant, PTL

\* A password that a manager issued, and so knows, stands under a forced change.
THEOREM CodesAreForced == Spec => []CodeIsForced
<1>1. FInv => CodeIsForced
  <2>. SUFFICES ASSUME FInv, fresh, NEW u \in Users, users[u].code
                PROVE  users[u].must
    BY DEF CodeIsForced
  <2>1. Sane(users[u])
    BY DEF FInv, FreshFits
  <2>. QED
    BY <2>1 DEF Sane
<1>. QED
  BY <1>1, FreshInvariant, PTL

\* Threshold failures in a row keep the account locked until the lock runs out.
THEOREM FailuresDoLock == Spec => []FailuresLock
<1>1. FInv => FailuresLock
  <2>. SUFFICES ASSUME FInv, fresh, NEW u \in Users, streak[u] = Threshold
                PROVE  users[u].lock = "on"
    BY DEF FailuresLock
  <2>1. /\ Paced(users[u], streak[u]) /\ users[u].fails < Threshold
        /\ users[u].fails \in Nat
    BY DEF FInv, IInv, TypeOK, FreshFits, UserRow
  <2>2. Threshold \in Nat
    BY AccountsAssumption
  <2>. QED
    BY <2>1, <2>2 DEF Paced
<1>. QED
  BY <1>1, FreshInvariant, PTL

-----------------------------------------------------------------------------
(* While every commit is fresh: no token comes back.                       *)

LEMMA DeadStep ==
  ASSUME FInv, [Next]_accountVars, fresh', NEW u \in Users, NEW v \in tokens[u],
         users'[u].active, users'[u].version = v
  PROVE  /\ Valid(u, v)
         /\ \A p \in Requests : Committed(p) /\ u \in proc[p].who =>
                                  proc[p].kind \notin EndKinds
<1>. USE DEF FInv
<1>1. TypeOK /\ users[u] \in UserRow /\ v \in Nat
  BY DEF IInv, TypeOK
<1>2. ASSUME users'[u].active = users[u].active,
             users'[u].version = users[u].version
      PROVE  Valid(u, v)
  BY <1>2 DEF Valid
<1>3. ASSUME NEW p \in Requests, Commit(p)
      PROVE  /\ Valid(u, v)
             /\ u \in proc[p].who => proc[p].kind \notin EndKinds
  <2>. DEFINE r == proc[p]
  <2>1. CASE u \notin r.who
    BY <1>2, <1>3, <2>1 DEF Commit
  <2>2. CASE u \in r.who
    <3>1. /\ fresh
          /\ users'[u] = Settled(r.new[u])
          /\ r.new[u] \in UserRow
          /\ Computed(r.kind, users[u], r.new[u], r.link)
          /\ ~users[u].known => users[u] = Nobody
      BY <1>3, <2>2, FreshCommit
    <3>2. r.link \in Nat
      BY <1>1 DEF TypeOK, Process
    <3>3. Sane(users[u]) /\ Sound(users[u], v)
      BY <3>1 DEF FreshFits
    <3>. HIDE DEF r
    <3>4. users'[u].version = r.new[u].version /\ users'[u].active = r.new[u].active
      BY <3>1, SettledFacts
    <3>5. /\ r.new[u].version = IF r.kind \in EndKinds THEN users[u].version + 1
                                ELSE users[u].version
          /\ r.kind \notin EndKinds /\ r.new[u].active =>
               users[u].active \/ r.kind = "restore"
      BY <1>1, <3>1, <3>2, <3>3, ComputedSane
    <3>6. users[u].version \in Nat
      BY <1>1 DEF UserRow
    <3>7. r.kind \notin EndKinds
      BY <1>1, <3>3, <3>4, <3>5, <3>6 DEF Sound
    <3>8. users[u].version = v /\ users[u].active
      BY <1>1, <3>3, <3>4, <3>5, <3>6, <3>7 DEF Sound
    <3>. QED
      BY <3>7, <3>8 DEF Valid, r
  <2>. QED
    BY <2>1, <2>2
<1>4. ASSUME NEW w \in Users, LockEnds(w)
      PROVE  Valid(u, v)
  <2>1. users' = [users EXCEPT ![w] = [users[w] EXCEPT !.lock = "over"]]
    BY <1>4 DEF LockEnds
  <2>2. users'[u].active = users[u].active /\ users'[u].version = users[u].version
    BY <1>1, <2>1 DEF TypeOK, UserRow
  <2>. QED
    BY <1>2, <2>2
<1>5. CASE UNCHANGED users
  BY <1>2, <1>5 DEF Committed
<1>6. CASE \E p \in Requests : Commit(p)
  <2>1. PICK p \in Requests : Commit(p)
    BY <1>6
  <2>2. \A q \in Requests : Committed(q) => q = p
    BY <1>1, <2>1, CommitEnds DEF Committed
  <2>. QED
    BY <1>3, <2>1, <2>2
<1>7. CASE \E w \in Users : LockEnds(w)
  BY <1>4, <1>7 DEF LockEnds, Committed
<1>. QED
  BY <1>5, <1>6, <1>7, NextSteps, ZenonT(60)
  DEF Steps, Loads, Begin, Issue, Send, Abandon,
     accountVars

\* The commit of a new password, of a deactivation or of a revocation leaves no
\* token that was issued before it good, and nothing brings a token that has
\* died back.
THEOREM DeadTokensStayDead == Spec => DeadStaysDead
<1>1. FInv /\ [Next]_accountVars =>
        [fresh' => \A u \in Users : \A v \in tokens[u] :
           users'[u].active /\ users'[u].version = v =>
             /\ Valid(u, v)
             /\ \A p \in Requests : Committed(p) /\ u \in proc[p].who =>
                                      proc[p].kind \notin EndKinds
        ]_accountVars
  BY DeadStep
<1>. QED
  BY <1>1, FreshInvariant, PTL DEF Spec, DeadStaysDead

-----------------------------------------------------------------------------
(* While every commit is fresh: no link is used twice.                     *)

Held(l) == \E u \in Users : users[u].mail = l \/ users[u].reset = l
Spare(l) == spent[l] = 0 /\ ~Held(l)
Minting(p) == proc[p].pc = "commit" /\ proc[p].kind \in MintKinds

\* A link is in one place: not made yet, in the session that makes it, in one
\* column of one row, or, once it was used, nowhere.
LinkFits ==
  fresh =>
    /\ \A l \in Links : l > minted => Spare(l)
    /\ \A p \in Requests : Minting(p) =>
         /\ proc[p].link <= minted /\ Spare(proc[p].link)
         /\ \A q \in Requests \ {p} : Minting(q) => proc[q].link # proc[p].link
    /\ \A u, v \in Users, l \in Links :
         /\ users[u].mail = l /\ users[v].mail = l => u = v
         /\ users[u].reset = l /\ users[v].reset = l => u = v
         /\ users[u].mail = l => users[v].reset # l
    /\ \A l \in Links : spent[l] <= 1 /\ (spent[l] = 1 => ~Held(l))

LInv == IInv /\ LinkFits

\* Where a computed row has its links from.
LEMMA ComputedLinks ==
  ASSUME NEW old \in UserRow, NEW kind, NEW new, NEW l \in Nat,
         Computed(kind, old, new, l), ~old.known => old = Nobody
  PROVE  LET m == Settled(new).mail
             r == Settled(new).reset
         IN  /\ kind \in {"register", "again"} => m = l /\ r = old.reset
             /\ kind = "forgot" => m = old.mail /\ r = l
             /\ kind = "verify" => old.mail = l /\ m = 0 /\ r = old.reset
             /\ kind = "reset" => old.reset = l /\ m = old.mail /\ r = 0
             /\ kind \notin MintKinds \cup LinkKinds =>
                  m = old.mail /\ r = old.reset
<1>1. CASE kind \in Inserts
  <2>1. old = Nobody
    BY <1>1 DEF Computed, Inserts
  <2>2. CASE kind = "register"
    <3>1. new = Registered(l)
      BY <2>2 DEF Computed
    <3>2. Settled(new).mail = l /\ Settled(new).reset = 0
      BY <3>1 DEF Settled, Registered, Nobody
    <3>. QED
      BY <2>1, <2>2, <3>2 DEF Nobody, MintKinds, LinkKinds
  <2>3. CASE kind \in {"invite", "appoint"}
    <3>1. new = Invited \/ new = Appointed
      BY <2>3 DEF Computed
    <3>2. Settled(new).mail = 0 /\ Settled(new).reset = 0
      BY <3>1 DEF Settled, Invited, Appointed, Nobody
    <3>. QED
      BY <2>1, <2>3, <3>2 DEF Nobody, MintKinds, LinkKinds
  <2>. QED
    BY <1>1, <2>2, <2>3 DEF Inserts
<1>2. CASE kind \in {"again", "forgot", "verify"}
  BY <1>2 DEF Computed, Settled, UserRow, MintKinds, LinkKinds
<1>3. CASE kind \in {"reset", "recode"}
  BY <1>3 DEF Computed, Settled, UserRow, Reset, Recoded, Cleared, MintKinds,
     LinkKinds
<1>4. CASE kind \in {"fail", "login"}
  BY <1>4 DEF Computed, Settled, UserRow, Counted, Cleared, MintKinds, LinkKinds
<1>5. CASE kind \in {"change", "profile", "suspend", "restore"}
  BY <1>5 DEF Computed, Settled, UserRow, Changed, ChangedInProfile, Suspended,
     Restored, MintKinds, LinkKinds
<1>6. CASE kind \in {"promote", "revoke"}
  BY <1>6 DEF Computed, Settled, UserRow, Promoted, Revoked, MintKinds, LinkKinds
<1>. QED
  BY <1>1, <1>2, <1>3, <1>4, <1>5, <1>6 DEF Computed, Inserts

LEMMA CommitLinks ==
  ASSUME LInv, NEW p \in Requests, Commit(p), fresh'
  PROVE  LinkFits'
<1>. USE DEF LInv
<1>. DEFINE r == proc[p]
<1>0. PICK k : k = r.link
  OBVIOUS
<1>1. /\ TypeOK /\ r \in Process /\ CommitFits(p) /\ r.pc = "commit" /\ fresh
      /\ k \in Nat /\ minted' = minted
      /\ \A l \in Links : l \in Nat /\ l # 0
  BY <1>0 DEF IInv, TypeOK, Commit, Process, Links
<1>2. /\ \A l \in Links : l > minted => Spare(l)
      /\ \A q \in Requests : Minting(q) =>
           /\ proc[q].link <= minted /\ Spare(proc[q].link)
           /\ \A s \in Requests \ {q} : Minting(s) => proc[s].link # proc[q].link
      /\ \A u, v \in Users, l \in Links :
           /\ users[u].mail = l /\ users[v].mail = l => u = v
           /\ users[u].reset = l /\ users[v].reset = l => u = v
           /\ users[u].mail = l => users[v].reset # l
      /\ \A l \in Links : spent[l] \in Nat /\ spent[l] <= 1
                          /\ (spent[l] = 1 => ~Held(l))
  BY <1>1 DEF LinkFits, TypeOK
<1>3. \A l \in Links : spent'[l] = IF r.kind \in LinkKinds /\ l = k
                                   THEN spent[l] + 1 ELSE spent[l]
  BY <1>0, <1>2 DEF Commit
<1>4. ASSUME NEW u \in Users, u \notin r.who
      PROVE  users'[u].mail = users[u].mail /\ users'[u].reset = users[u].reset
  BY <1>4 DEF Commit
<1>5. ASSUME NEW u \in r.who
      PROVE  LET m == users'[u].mail
                 n == users'[u].reset
             IN  /\ r.kind \in {"register", "again"} => m = k /\ n = users[u].reset
                 /\ r.kind = "forgot" => m = users[u].mail /\ n = k
                 /\ r.kind = "verify" =>
                      users[u].mail = k /\ m = 0 /\ n = users[u].reset
                 /\ r.kind = "reset" =>
                      users[u].reset = k /\ m = users[u].mail /\ n = 0
                 /\ r.kind \notin MintKinds \cup LinkKinds =>
                      m = users[u].mail /\ n = users[u].reset
  <2>1. /\ users'[u] = Settled(r.new[u])
        /\ Computed(r.kind, users[u], r.new[u], r.link)
        /\ ~users[u].known => users[u] = Nobody
        /\ users[u] \in UserRow
    BY <1>1, FreshCommit DEF IInv, TypeOK
  <2>. HIDE DEF r
  <2>. QED
    BY <1>0, <1>1, <2>1, ComputedLinks
<1>6. ASSUME NEW q \in Requests, Minting(q)'
      PROVE  /\ q # p /\ Minting(q) /\ proc'[q] = proc[q]
             /\ proc[q].link \in Links
  <2>1. q # p /\ proc'[q] = proc[q]
    BY <1>1, <1>6, CommitEnds DEF Minting
  <2>. QED
    BY <1>6, <2>1 DEF Minting, IInv, CommitFits
<1>. HIDE DEF r
<1>7. CASE r.kind \notin MintKinds \cup LinkKinds
  <2>1. \A u \in Users : users'[u].mail = users[u].mail
                         /\ users'[u].reset = users[u].reset
    BY <1>4, <1>5, <1>7
  <2>2. \A l \in Links : spent'[l] = spent[l] /\ (Held(l)' <=> Held(l))
    BY <1>3, <1>7, <2>1 DEF Held
  <2>. QED
    BY <1>1, <1>2, <1>6, <2>1, <2>2 DEF LinkFits, Spare
<1>8. CASE r.kind \in MintKinds
  <2>1. PICK u \in Users : r.who = {u}
    BY <1>1, <1>8 DEF CommitFits, r
  <2>2. k \in Links /\ k <= minted /\ Spare(k)
        /\ \A q \in Requests : q # p /\ Minting(q) => proc[q].link # k
    BY <1>0, <1>1, <1>2, <1>8 DEF Minting, CommitFits, r
  <2>3. \A l \in Links : spent'[l] = spent[l]
    BY <1>3, <1>8 DEF MintKinds, LinkKinds
  <2>4. \A w \in Users \ {u} : /\ users'[w].mail = users[w].mail
                               /\ users'[w].reset = users[w].reset
    BY <1>4, <2>1
  <2>5. \/ users'[u].mail = k /\ users'[u].reset = users[u].reset
        \/ users'[u].mail = users[u].mail /\ users'[u].reset = k
    BY <1>5, <1>8, <2>1 DEF MintKinds
  <2>6. \A l \in Links \ {k} : Held(l)' => Held(l)
    BY <2>4, <2>5 DEF Held
  <2>7. \A w \in Users : users[w].mail # k /\ users[w].reset # k
    BY <2>2 DEF Spare, Held
  <2>8. \A l \in Links : l > minted => Spare(l)'
    BY <1>1, <1>2, <2>2, <2>3, <2>6 DEF Spare, TypeOK
  <2>9. ASSUME NEW q \in Requests, Minting(q)'
        PROVE  /\ proc'[q].link <= minted' /\ Spare(proc[q].link)'
               /\ \A s \in Requests \ {q} :
                    Minting(s)' => proc'[s].link # proc'[q].link
    <3>1. /\ q # p /\ Minting(q) /\ proc'[q] = proc[q]
          /\ proc[q].link \in Links
      BY <1>6, <2>9
    <3>2. proc[q].link <= minted /\ Spare(proc[q].link)
      BY <1>2, <3>1
    <3>3. Spare(proc[q].link)'
      BY <3>1, <3>2, <2>2, <2>3, <2>6 DEF Spare
    <3>4. \A s \in Requests \ {q} :
            Minting(s)' => proc'[s].link # proc'[q].link
      BY <1>2, <1>6, <3>1
    <3>. QED
      BY <1>1, <3>1, <3>2, <3>3, <3>4
  <2>10. \A v, w \in Users, l \in Links :
           /\ users'[v].mail = l /\ users'[w].mail = l => v = w
           /\ users'[v].reset = l /\ users'[w].reset = l => v = w
           /\ users'[v].mail = l => users'[w].reset # l
    BY <1>2, <2>4, <2>5, <2>7
  <2>11. \A l \in Links : spent'[l] <= 1 /\ (spent'[l] = 1 => ~Held(l)')
    BY <1>2, <2>2, <2>3, <2>6 DEF Spare
  <2>. QED
    BY <2>8, <2>9, <2>10, <2>11, <1>1 DEF LinkFits
<1>9. CASE r.kind \in LinkKinds
  <2>1. PICK u \in Users : r.who = {u}
    BY <1>1, <1>9 DEF CommitFits, r
  <2>2. k \in Links
    BY <1>0, <1>1, <1>9 DEF CommitFits, r
  <2>3. \A w \in Users \ {u} : /\ users'[w].mail = users[w].mail
                               /\ users'[w].reset = users[w].reset
    BY <1>4, <2>1
  <2>4. \/ /\ users[u].mail = k /\ users'[u].mail = 0
           /\ users'[u].reset = users[u].reset
        \/ /\ users[u].reset = k /\ users'[u].reset = 0
           /\ users'[u].mail = users[u].mail
    BY <1>5, <1>9, <2>1 DEF LinkKinds
  <2>5. \A l \in Links : Held(l)' => Held(l)
    BY <1>1, <2>3, <2>4 DEF Held
  <2>6. Held(k) /\ ~Held(k)'
    <3>1. Held(k)
      BY <2>4 DEF Held
    <3>2. \A w \in Users : users'[w].mail # k /\ users'[w].reset # k
      BY <1>1, <1>2, <2>2, <2>3, <2>4
    <3>. QED
      BY <3>1, <3>2 DEF Held
  <2>7. spent[k] = 0 /\ spent'[k] = 1
    BY <1>2, <1>3, <1>9, <2>2, <2>6
  <2>8. \A l \in Links \ {k} : spent'[l] = spent[l]
    BY <1>3
  <2>9. \A l \in Links : l > minted => Spare(l)'
    BY <1>2, <2>5, <2>6, <2>8 DEF Spare
  <2>10. ASSUME NEW q \in Requests, Minting(q)'
        PROVE  /\ proc'[q].link <= minted' /\ Spare(proc[q].link)'
               /\ \A s \in Requests \ {q} :
                    Minting(s)' => proc'[s].link # proc'[q].link
    <3>1. /\ q # p /\ Minting(q) /\ proc'[q] = proc[q]
          /\ proc[q].link \in Links
      BY <1>6, <2>10
    <3>2. proc[q].link <= minted /\ Spare(proc[q].link)
      BY <1>2, <3>1
    <3>3. Spare(proc[q].link)'
      BY <3>1, <3>2, <2>5, <2>6, <2>8 DEF Spare
    <3>4. \A s \in Requests \ {q} :
            Minting(s)' => proc'[s].link # proc'[q].link
      BY <1>2, <1>6, <3>1
    <3>. QED
      BY <1>1, <3>1, <3>2, <3>3, <3>4
  <2>11. \A v, w \in Users, l \in Links :
           /\ users'[v].mail = l /\ users'[w].mail = l => v = w
           /\ users'[v].reset = l /\ users'[w].reset = l => v = w
           /\ users'[v].mail = l => users'[w].reset # l
    BY <1>1, <1>2, <2>3, <2>4
  <2>12. \A l \in Links : spent'[l] <= 1 /\ (spent'[l] = 1 => ~Held(l)')
    <3>. SUFFICES ASSUME NEW l \in Links
                  PROVE  spent'[l] <= 1 /\ (spent'[l] = 1 => ~Held(l)')
      OBVIOUS
    <3>1. CASE l = k
      BY <2>6, <2>7, <3>1
    <3>2. CASE l # k
      BY <1>2, <2>5, <2>8, <3>2
    <3>. QED
      BY <3>1, <3>2
  <2>. QED
    BY <2>9, <2>10, <2>11, <2>12, <1>1 DEF LinkFits
<1>. QED
  BY <1>7, <1>8, <1>9

\* A step that moves no link, and makes one in at most one session.
LEMMA QuietLinks ==
  ASSUME LInv, fresh' => fresh, UNCHANGED spent, minted <= minted',
         minted' \in Nat,
         \A u \in Users : users'[u].mail = users[u].mail
                          /\ users'[u].reset = users[u].reset,
         NEW p \in Requests,
         \A q \in Requests \ {p} : Minting(q)' =>
            Minting(q) /\ proc'[q].link = proc[q].link,
         Minting(p)' =>
           \/ Minting(p) /\ proc'[p].link = proc[p].link
           \/ /\ proc'[p].link \in Links
              /\ proc'[p].link = minted + 1 /\ minted' = minted + 1
  PROVE  LinkFits'
<1>. SUFFICES ASSUME fresh'
              PROVE  LinkFits'
  BY DEF LinkFits
<1>. USE DEF LInv
<1>1. /\ fresh /\ minted \in Nat
      /\ \A l \in Links : l > minted => Spare(l)
      /\ \A q \in Requests : Minting(q) =>
           /\ proc[q].link <= minted /\ Spare(proc[q].link)
           /\ proc[q].link \in Nat
           /\ \A s \in Requests \ {q} : Minting(s) => proc[s].link # proc[q].link
      /\ \A u, v \in Users, l \in Links :
           /\ users[u].mail = l /\ users[v].mail = l => u = v
           /\ users[u].reset = l /\ users[v].reset = l => u = v
           /\ users[u].mail = l => users[v].reset # l
      /\ \A l \in Links : l \in Nat /\ spent[l] <= 1
                          /\ (spent[l] = 1 => ~Held(l))
  BY DEF LinkFits, IInv, TypeOK, Process, Links
<1>2. \A l : Held(l)' <=> Held(l)
  BY DEF Held
<1>3. \A l : Spare(l)' <=> Spare(l)
  BY <1>2 DEF Spare
<1>4. \A l \in Links : l > minted' => Spare(l)'
  BY <1>1, <1>3
<1>5. ASSUME NEW q \in Requests, Minting(q)'
      PROVE  /\ proc'[q].link <= minted' /\ Spare(proc[q].link)'
             /\ \A s \in Requests \ {q} :
                  Minting(s)' => proc'[s].link # proc'[q].link
  <2>1. PICK k : k = proc'[q].link
    OBVIOUS
  <2>2. k <= minted' /\ Spare(k)
    BY <1>1, <1>5, <2>1
  <2>3. Spare(proc[q].link)'
    BY <1>3, <2>1, <2>2
  <2>4. \A s \in Requests \ {q} : Minting(s)' => proc'[s].link # k
    BY <1>1, <1>5, <2>1
  <2>. QED
    BY <2>1, <2>2, <2>3, <2>4
<1>6. \A u, v \in Users, l \in Links :
        /\ users'[u].mail = l /\ users'[v].mail = l => u = v
        /\ users'[u].reset = l /\ users'[v].reset = l => u = v
        /\ users'[u].mail = l => users'[v].reset # l
  BY <1>1
<1>7. \A l \in Links : spent'[l] <= 1 /\ (spent'[l] = 1 => ~Held(l)')
  BY <1>1, <1>2
<1>. QED
  BY <1>4, <1>5, <1>6, <1>7 DEF LinkFits

LEMMA LinkNext == LInv /\ [Next]_accountVars => LInv'
<1>. SUFFICES ASSUME LInv, [Next]_accountVars PROVE LInv'
  OBVIOUS
<1>. USE DEF LInv
<1>1. TypeOK /\ minted \in Nat
  BY DEF IInv, TypeOK
<1>2. IInv'
  BY NextInv
<1>3. ASSUME NEW p \in Requests, Commit(p)
      PROVE  LinkFits'
  <2>1. CASE fresh'
    BY <1>3, <2>1, CommitLinks
  <2>2. CASE ~fresh'
    BY <2>2 DEF LinkFits
  <2>. QED
    BY <2>1, <2>2
<1>4. ASSUME NEW p \in Requests, Loads(p)
      PROVE  LinkFits'
  <2>1. PICK kind \in AllKinds, who \in SUBSET Users,
             new \in [Users -> UserRow], l \in Nat :
          /\ Begin(p, kind, who, new, l)
          /\ IF kind \in MintKinds
             THEN minted < MaxLinks /\ l = minted + 1 /\ minted' = minted + 1
             ELSE minted' = minted
    BY <1>4 DEF Loads
  <2>2. UNCHANGED <<users, spent, fresh>>
    BY <2>1 DEF Begin
  <2>3. minted' \in Nat /\ minted <= minted'
    BY <1>1, <2>1
  <2>4. \A q \in Requests \ {p} : proc'[q] = proc[q]
    BY <1>1, <2>1 DEF Begin, TypeOK
  <2>5. proc'[p].kind = kind /\ proc'[p].link = l
    BY <1>1, <2>1 DEF Begin, TypeOK
  <2>6. Minting(p)' => /\ proc'[p].link \in Links
                       /\ proc'[p].link = minted + 1 /\ minted' = minted + 1
    <3>1. kind \in MintKinds => l \in Links
      BY <1>1, <2>1, AccountsAssumption DEF Links
    <3>. QED
      BY <2>1, <2>5, <3>1 DEF Minting
  <2>7. \A q \in Requests \ {p} : Minting(q)' =>
            Minting(q) /\ proc'[q].link = proc[q].link
    BY <2>4 DEF Minting
  <2>. QED
    BY <2>2, <2>3, <2>6, <2>7, QuietLinks
<1>5. ASSUME NEW p \in Requests, Issue(p) \/ Send(p) \/ Abandon(p)
      PROVE  LinkFits'
  <2>1. UNCHANGED <<users, spent, minted>>
    BY <1>5 DEF Issue, Send, Abandon
  <2>2. fresh' => fresh
    <3>1. fresh \in BOOLEAN
      BY <1>1 DEF TypeOK
    <3>. QED
      BY <1>5, <3>1 DEF Issue, Send, Abandon
  <2>3. \A q \in Requests : Minting(q)' =>
            Minting(q) /\ proc'[q].link = proc[q].link
    BY <1>1, <1>5 DEF Minting, Issue, Send, Abandon, TypeOK, Idle
  <2>4. minted <= minted' /\ minted' \in Nat
    BY <1>1, <2>1
  <2>. QED
    BY <2>1, <2>3, <2>4, <2>2, QuietLinks
<1>6. ASSUME UNCHANGED <<proc, spent, minted, fresh>>,
             \A v \in Users : /\ users'[v].mail = users[v].mail
                              /\ users'[v].reset = users[v].reset
      PROVE  LinkFits'
  <2>1. \A l : (Held(l)' <=> Held(l)) /\ (Spare(l)' <=> Spare(l))
    BY <1>6 DEF Held, Spare
  <2>2. \A q \in Requests : /\ Minting(q)' <=> Minting(q)
                            /\ Spare(proc[q].link)' <=> Spare(proc[q].link)
    BY <1>6, <2>1 DEF Minting
  <2>. QED
    BY <1>6, <2>1, <2>2 DEF LinkFits
<1>7. ASSUME NEW u \in Users, LockEnds(u)
      PROVE  LinkFits'
  <2>1. users' = [users EXCEPT ![u] = [users[u] EXCEPT !.lock = "over"]]
    BY <1>7 DEF LockEnds
  <2>2. \A v \in Users : /\ users'[v].mail = users[v].mail
                         /\ users'[v].reset = users[v].reset
    BY <1>1, <2>1 DEF TypeOK, UserRow
  <2>. QED
    BY <1>6, <1>7, <2>2 DEF LockEnds
<1>8. ASSUME UNCHANGED accountVars
      PROVE  LinkFits'
  BY <1>6, <1>8 DEF accountVars
<1>. QED
  BY <1>2, <1>3, <1>4, <1>5, <1>7, <1>8, NextSteps DEF Steps

LEMMA LinkInit == Init => LInv
<1>. SUFFICES ASSUME Init PROVE LInv
  OBVIOUS
<1>1. \A l \in Links : l # 0
  BY DEF Links
<1>2. \A l \in Links : Spare(l)
  BY <1>1 DEF Init, Spare, Held, Nobody
<1>3. \A p \in Requests : ~Minting(p)
  BY DEF Init, Minting, Idle
<1>4. \A u \in Users, l \in Links : users[u].mail # l /\ users[u].reset # l
  BY <1>1 DEF Init, Nobody
<1>. QED
  BY <1>2, <1>3, <1>4, InitInv DEF LInv, LinkFits, Spare

\* No link sets anything twice.
THEOREM LinksAreSpentOnce == Spec => []LinkUsedOnce
<1>1. LInv => LinkUsedOnce
  BY DEF LInv, LinkFits, LinkUsedOnce
<1>2. Spec => []LInv
  BY LinkInit, LinkNext, PTL DEF Spec
<1>. QED
  BY <1>1, <1>2, PTL

=============================================================================
