---------------------------- MODULE AdminAccess ----------------------------
(* Administrators: sign-in with a second factor, and their accounts. *)
EXTENDS AccessDb

\* A super-administrator who may act
Operational(a) ==
    /\ db.admin[a].status = "ACTIVE"
    /\ db.admin[a].super
    /\ ~db.admin[a].enrol
    /\ db.admin[a].secret # None
    /\ db.admin[a].secret.verified

-----------------------------------------------------------------------------
(* Sign-in *)

\* The password is right and the account ACTIVE, as the request reads it.
BeginLogin(r, a) ==
    /\ db.admin[a].status = "ACTIVE"
    /\ Start(r, "admin login", [step |-> "challenge", row |-> db.admin[a], user |-> a])
    /\ UNCHANGED <<db, redis, past, ops>>

enrollmentRequired(row) == row.enrol \/ row.secret = None \/ ~row.secret.verified

pendingSecret(row) == row.secret # None /\ ~row.secret.verified /\ row.secret.last = 0

\* An enrolment stores a secret unless one is pending, then the challenge is made.
IssueChallenge(r, ch) ==
    LET row == tx[r].row
        fresh == enrollmentRequired(row) /\ ~pendingSecret(row)
    IN  /\ At(r, "challenge")
        /\ redis.challenge[ch] = None
        /\ redis' = [redis EXCEPT !.challenge[ch] = [admin |-> tx[r].user, attempts |-> 0]]
        /\ db' = [db EXCEPT !.admin[tx[r].user].secret =
                    IF fresh THEN [verified |-> FALSE, last |-> 0] ELSE @]
        /\ past' = [past EXCEPT !.steps[tx[r].user] = IF fresh THEN <<>> ELSE @]
        /\ End(r)
        /\ UNCHANGED ops

\* completeTotp up to the verification.  A code is for one time step, and is
\* wrong unless that step comes after the last one used (afterTimeStep).
VerifyCode(r, ch, code) ==
    LET a == redis.challenge[ch].admin
        secret == db.admin[a].secret
        attempts == redis.challenge[ch].attempts + 1
    IN  /\ "admin login" \in ops
        /\ Idle(r)
        /\ redis.challengeLock[ch] = None
        /\ redis.challenge[ch] # None
        /\ \/ /\ db.admin[a].status # "ACTIVE" \/ secret = None
              /\ redis' = [redis EXCEPT !.challenge[ch] = None]
              /\ UNCHANGED tx
           \/ /\ db.admin[a].status = "ACTIVE" /\ secret # None
              /\ code <= secret.last
              /\ redis' = [redis EXCEPT !.challenge[ch] =
                            IF attempts >= MaxAttempts THEN None ELSE [@ EXCEPT !.attempts = attempts]]
              /\ UNCHANGED tx
           \/ /\ db.admin[a].status = "ACTIVE" /\ secret # None
              /\ code > secret.last
              /\ redis' = [redis EXCEPT !.challengeLock[ch] = r]
              /\ Goto(r, [step |-> "advance", ch |-> ch, code |-> code, user |-> a])
        /\ UNCHANGED <<db, past, ops>>

\* Mutant: the step is advanced whatever it is now.
AdvanceStepAnyway(r) ==
    LET a == tx[r].user
    IN  /\ At(r, "advance")
        /\ db.admin[a].secret # None
        /\ db' = [db EXCEPT !.admin[a].secret = [verified |-> TRUE, last |-> tx[r].code],
                            !.admin[a].enrol = FALSE]
        /\ past' = [past EXCEPT !.steps[a] = Append(@, tx[r].code)]
        /\ redis' = [redis EXCEPT !.challenge[tx[r].ch] = None]
        /\ Goto(r, [step |-> "issue", user |-> a])
        /\ UNCHANGED ops

\* lastUsedStep moves forward only (updateMany ... lt), the challenge goes, and
\* the session is issued next.
AdvanceStep(r) ==
    LET a == tx[r].user
        secret == db.admin[a].secret
    IN  /\ At(r, "advance")
        /\ \/ /\ secret # None
              /\ secret.last < tx[r].code
              /\ db' = [db EXCEPT !.admin[a].secret = [verified |-> TRUE, last |-> tx[r].code],
                                  !.admin[a].enrol = FALSE]
              /\ past' = [past EXCEPT !.steps[a] = Append(@, tx[r].code)]
              /\ redis' = [redis EXCEPT !.challenge[tx[r].ch] = None]
              /\ Goto(r, [step |-> "issue", user |-> a])
           \/ /\ secret # None => secret.last >= tx[r].code
              /\ redis' = [redis EXCEPT !.challengeLock = Unlocked(@, r)]
              /\ End(r)
              /\ UNCHANGED <<db, past>>
        /\ UNCHANGED ops

\* The time to live of a challenge or of the 15 second lock on it runs out.
ChallengeExpires(ch) ==
    /\ \/ /\ redis.challenge[ch] # None
          /\ redis' = [redis EXCEPT !.challenge[ch] = None]
       \/ /\ redis.challengeLock[ch] # None
          /\ redis' = [redis EXCEPT !.challengeLock[ch] = None]
    /\ UNCHANGED <<db, tx, past, ops>>

-----------------------------------------------------------------------------
(* Accounts *)

NewAdmin(super) ==
    [status |-> "ACTIVE", super |-> super, enrol |-> TRUE, secret |-> None, version |-> 0]

\* The first administrator is made on the command line, under the Role lock.
Bootstrap(a) ==
    /\ "bootstrap" \in ops
    /\ ~RoleLocked
    /\ \A b \in Admins : db.admin[b].status = "NONE"
    /\ db' = [db EXCEPT !.admin[a] = NewAdmin(TRUE)]
    /\ UNCHANGED <<redis, tx, past, ops>>

\* create never gives the super-administrator role.
CreateAdmin(actor, a) ==
    /\ "create" \in ops
    /\ ~RoleLocked
    /\ Operational(actor)
    /\ db.admin[a].status = "NONE"
    /\ db' = [db EXCEPT !.admin[a] = NewAdmin(FALSE)]
    /\ UNCHANGED <<redis, tx, past, ops>>

\* The separate approval workflow that gives the super-administrator role
AssignSuper(a) ==
    /\ "create" \in ops
    /\ ~RoleLocked
    /\ db.admin[a].status = "ACTIVE" /\ ~db.admin[a].super
    /\ db' = [db EXCEPT !.admin[a].super = TRUE]
    /\ UNCHANGED <<redis, tx, past, ops>>

\* What each action asks of the account it changes
AdminStatusFor(action) == IF action = "suspend" THEN "ACTIVE" ELSE "SUSPENDED"

assertAnotherOperationalSuper(a) ==
    db.admin[a].super => \E b \in Admins \ {a} : Operational(b)

AdminChecks(actor, a, action) ==
    /\ Operational(actor)
    /\ a # actor
    /\ db.admin[a].status = AdminStatusFor(action)
    /\ db.admin[a].version < MaxVersion
    /\ action # "reactivate" => assertAnotherOperationalSuper(a)

\* Mutant: the checks without the lock that orders them.
AdminLifecycleBeginUnlocked(r, actor, a, action) ==
    /\ AdminChecks(actor, a, action)
    /\ Start(r, "admin accounts", [step |-> "lifecycle", action |-> action, user |-> a,
                                   version |-> db.admin[a].version])
    /\ UNCHANGED <<db, redis, past, ops>>

\* lockAndRequireActor locks before the first read, so the view is current.
AdminLifecycleBegin(r, actor, a, action) ==
    /\ ~RoleLocked
    /\ AdminChecks(actor, a, action)
    /\ Start(r, "admin accounts", [step |-> "lifecycle", action |-> action, user |-> a,
                                   version |-> db.admin[a].version])
    /\ UNCHANGED <<db, redis, past, ops>>

LifecycleStatus(action) ==
    CASE action = "suspend" -> "SUSPENDED"
      [] action = "reactivate" -> "ACTIVE"
      [] action = "disable" -> "DISABLED"
      [] action = "anonymize" -> "ANONYMIZED"

\* Access is revoked except by a reactivation, an anonymised account loses its
\* role and secret, and the updates are conditional on both versions.
AdminLifecycleCommit(r) ==
    LET a == tx[r].user
        row == db.admin[a]
    IN  /\ At(r, "lifecycle") /\ a \in Admins
        /\ IF row.version = tx[r].version
           THEN db' = [db EXCEPT
                        !.admin[a] = [row EXCEPT
                            !.status = LifecycleStatus(tx[r].action),
                            !.super = @ /\ tx[r].action # "anonymize",
                            !.enrol = @ \/ tx[r].action = "anonymize",
                            !.secret = IF tx[r].action = "anonymize" THEN None ELSE @,
                            !.version = @ + 1],
                        !.session = IF tx[r].action = "reactivate" THEN @
                                    ELSE Ended(SessionsOf(a), "REVOKED")]
           ELSE UNCHANGED db
        /\ End(r)
        /\ UNCHANGED <<redis, past, ops>>
=============================================================================
