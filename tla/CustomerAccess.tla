--------------------------- MODULE CustomerAccess ---------------------------
(* Customers: registration, sign-in, Google, password reset, and lifecycle. *)
EXTENDS AdminAccess

\* The accounts an address belongs to
WithEmail(e) == {c \in Customers : db.customer[c].email = e}

SubjectsOf(c) == {i[1] : i \in {i \in db.identity : i[2] = c}}

CustomersOf(g) == {i[2] : i \in {i \in db.identity : i[1] = g}}

\* phoneE164 is unique like emailNormalized; one stands for both.
NewCustomer(e, password) ==
    [status |-> "ACTIVE", email |-> e, verified |-> password = 0, password |-> password,
     version |-> 0]

-----------------------------------------------------------------------------
(* Registration and sign-in *)

\* The address is looked up before the password is hashed and the row created.
RegisterBegin(r, e) ==
    /\ WithEmail(e) = {}
    /\ Start(r, "register", [step |-> "register", email |-> e])
    /\ UNCHANGED <<db, redis, past, ops>>

\* P2002 on the unique address is ACCOUNT_ALREADY_EXISTS.
Register(r, c) ==
    /\ At(r, "register")
    /\ \/ /\ WithEmail(tx[r].email) = {}
          /\ db.customer[c].status = "NONE"
          /\ db' = [db EXCEPT !.customer[c] = NewCustomer(tx[r].email, 1)]
          /\ Goto(r, [step |-> "issue", user |-> c])
       \/ /\ WithEmail(tx[r].email) # {}
          /\ End(r)
          /\ UNCHANGED db
    /\ UNCHANGED <<redis, past, ops>>

\* The password is right and the account ACTIVE, as the request reads it.
Login(r, c) ==
    /\ db.customer[c].status = "ACTIVE" /\ db.customer[c].password # 0
    /\ Start(r, "login", [step |-> "issue", user |-> c])
    /\ UNCHANGED <<db, redis, past, ops>>

-----------------------------------------------------------------------------
(* Google: start, callback, and the completion of a sign-up *)

StartGoogle(st) ==
    /\ "google" \in ops
    /\ st \notin redis.state
    /\ redis' = [redis EXCEPT !.state = @ \cup {st}]
    /\ UNCHANGED <<db, tx, past, ops>>

\* consumeAuthorization takes the state with GETDEL, so a callback runs once.
Callback(r, st, g) ==
    /\ st \in redis.state
    /\ redis' = [redis EXCEPT !.state = @ \ {st}]
    /\ Start(r, "google", [step |-> "identity", subject |-> g])
    /\ UNCHANGED <<db, past, ops>>

\* A known subject signs in if its account is ACTIVE.
ResolveIdentity(r) ==
    LET known == CustomersOf(tx[r].subject)
    IN  /\ At(r, "identity")
        /\ \/ /\ known = {}
              /\ Goto(r, [tx[r] EXCEPT !.step = "match"])
           \/ \E c \in known :
                IF db.customer[c].status = "ACTIVE"
                THEN Goto(r, [step |-> "issue", user |-> c])
                ELSE End(r)
        /\ UNCHANGED <<db, redis, past, ops>>

\* An unknown one is matched by its address: a verified account is linked, an
\* unverified one asks for its password, none starts a sign-up.
MatchEmail(r, o) ==
    LET g == tx[r].subject
        match == WithEmail(EmailOf[g])
    IN  /\ At(r, "match")
        /\ \/ /\ match = {}
              /\ redis.onboarding[o] = None
              /\ redis' = [redis EXCEPT !.onboarding[o] =
                            [mode |-> "CREATE", subject |-> g, customer |-> None, attempts |-> 0]]
              /\ End(r)
           \/ \E c \in match :
                /\ db.customer[c].status # "ACTIVE" \/ SubjectsOf(c) # {}
                /\ End(r)
                /\ UNCHANGED redis
           \/ \E c \in match :
                /\ db.customer[c].status = "ACTIVE" /\ SubjectsOf(c) = {}
                /\ db.customer[c].verified
                /\ Goto(r, [step |-> "link", subject |-> g, user |-> c, o |-> None])
                /\ UNCHANGED redis
           \/ \E c \in match :
                /\ db.customer[c].status = "ACTIVE" /\ SubjectsOf(c) = {}
                /\ ~db.customer[c].verified
                /\ redis.onboarding[o] = None
                /\ redis' = [redis EXCEPT !.onboarding[o] =
                                [mode |-> "LINK", subject |-> g, customer |-> c, attempts |-> 0]]
                /\ End(r)
        /\ UNCHANGED <<db, past, ops>>

\* claimOnboarding: SET lock NX EX 30, then the record.
Claim(r, o) ==
    /\ redis.onboardingLock[o] = None
    /\ redis.onboarding[o] # None
    /\ redis' = [redis EXCEPT !.onboardingLock[o] = r]
    /\ Start(r, "google", [step |-> redis.onboarding[o].mode, o |-> o,
                           record |-> redis.onboarding[o]])
    /\ UNCHANGED <<db, past, ops>>

\* A failed completion gives the lock back, if it is still its own.
Release(r) ==
    /\ redis' = [redis EXCEPT !.onboardingLock = Unlocked(@, r)]
    /\ End(r)

\* completeCreation: the address must still be free ...
CompleteCreation(r) ==
    LET e == EmailOf[tx[r].record.subject]
    IN  /\ At(r, "CREATE")
        /\ \/ /\ WithEmail(e) = {}
              /\ Goto(r, [tx[r] EXCEPT !.step = "create"])
              /\ UNCHANGED redis
           \/ WithEmail(e) # {} /\ Release(r)
        /\ UNCHANGED <<db, past, ops>>

\* Mutant: the lock on the sign-up alone keeps the account unique.
CreateGoogleCustomerUnderLock(r, c) ==
    LET g == tx[r].record.subject
    IN  /\ At(r, "create")
        /\ db.customer[c].status = "NONE"
        /\ db' = [db EXCEPT !.customer[c] = NewCustomer(EmailOf[g], 0),
                            !.identity = @ \cup {<<g, c>>}]
        /\ Goto(r, [step |-> "finish", o |-> tx[r].o, user |-> c])
        /\ UNCHANGED <<redis, past, ops>>

\* ... and account and identity are created together, under the unique keys.
CreateGoogleCustomer(r, c) ==
    LET g == tx[r].record.subject
        unique == WithEmail(EmailOf[g]) = {} /\ CustomersOf(g) = {}
    IN  /\ At(r, "create")
        /\ \/ /\ unique
              /\ db.customer[c].status = "NONE"
              /\ db' = [db EXCEPT !.customer[c] = NewCustomer(EmailOf[g], 0),
                                  !.identity = @ \cup {<<g, c>>}]
              /\ Goto(r, [step |-> "finish", o |-> tx[r].o, user |-> c])
              /\ UNCHANGED redis
           \/ ~unique /\ Release(r) /\ UNCHANGED db
        /\ UNCHANGED <<past, ops>>

\* completeLink: the account must still be linkable.  A wrong password counts
\* against the record, by a script that only acts while the lock is ours.
CompleteLink(r, correct) ==
    LET o == tx[r].o
        record == tx[r].record
        c == record.customer
        linkable == /\ db.customer[c].status = "ACTIVE" /\ db.customer[c].password # 0
                    /\ SubjectsOf(c) = {}
        attempts == record.attempts + 1
    IN  /\ At(r, "LINK")
        /\ \/ ~linkable /\ Release(r)
           \/ /\ linkable /\ correct
              /\ Goto(r, [step |-> "link", subject |-> record.subject, user |-> c, o |-> o])
              /\ UNCHANGED redis
           \/ /\ linkable /\ ~correct
              /\ redis' = [redis EXCEPT
                    !.onboarding[o] =
                        IF redis.onboardingLock[o] # r \/ @ = None THEN @
                        ELSE IF attempts >= MaxAttempts THEN None
                        ELSE [record EXCEPT !.attempts = attempts],
                    !.onboardingLock = Unlocked(@, r)]
              /\ End(r)
        /\ UNCHANGED <<db, past, ops>>

\* linkVerifiedCustomer.  A unique key that is taken is success if the subject
\* was linked to this very account.
Link(r) ==
    LET g == tx[r].subject
        c == tx[r].user
        next == [step |-> IF tx[r].o = None THEN "issue" ELSE "finish", o |-> tx[r].o, user |-> c]
        taken == CustomersOf(g) # {} \/ SubjectsOf(c) # {}
    IN  /\ At(r, "link")
        /\ \/ /\ db.customer[c].status = "ACTIVE" /\ ~taken
              /\ db' = [db EXCEPT !.identity = @ \cup {<<g, c>>}, !.customer[c].verified = TRUE]
              /\ Goto(r, next)
              /\ UNCHANGED redis
           \/ /\ db.customer[c].status = "ACTIVE" /\ <<g, c>> \in db.identity
              /\ Goto(r, next)
              /\ UNCHANGED <<db, redis>>
           \/ /\ db.customer[c].status # "ACTIVE" \/ (taken /\ <<g, c>> \notin db.identity)
              /\ Release(r)
              /\ UNCHANGED db
        /\ UNCHANGED <<past, ops>>

\* finishOnboarding: the script deletes record and lock if the lock is ours and
\* the record there; otherwise the request fails, its account already made.
FinishOnboarding(r) ==
    LET o == tx[r].o
    IN  /\ At(r, "finish")
        /\ \/ /\ redis.onboardingLock[o] = r /\ redis.onboarding[o] # None
              /\ redis' = [redis EXCEPT !.onboarding[o] = None, !.onboardingLock[o] = None]
              /\ Goto(r, [step |-> "issue", user |-> tx[r].user])
           \/ /\ redis.onboardingLock[o] # r \/ redis.onboarding[o] = None
              /\ Release(r)
        /\ UNCHANGED <<db, past, ops>>

\* The time to live of a sign-up or of the 30 second lock on it runs out.
OnboardingExpires(o) ==
    /\ \/ /\ redis.onboarding[o] # None
          /\ redis' = [redis EXCEPT !.onboarding[o] = None]
       \/ /\ redis.onboardingLock[o] # None
          /\ redis' = [redis EXCEPT !.onboardingLock[o] = None]
    /\ UNCHANGED <<db, tx, past, ops>>

-----------------------------------------------------------------------------
(* Password reset *)

OpenTokens(c) == {t \in Tokens : db.token[t] # None /\ db.token[t].user = c
                                    /\ db.token[t].state = "OPEN"}

\* The unconsumed tokens of c are consumed.
Consumed(c) ==
    [t \in Tokens |-> IF t \in OpenTokens(c) THEN [db.token[t] EXCEPT !.state = "CONSUMED"]
                      ELSE db.token[t]]

NewToken(c) ==
    [user |-> c, state |-> "OPEN", late |-> FALSE, password |-> db.customer[c].password]

RequestResetBegin(r, c) ==
    /\ db.customer[c].status = "ACTIVE" /\ db.customer[c].password # 0
    /\ Start(r, "reset", [step |-> "token", user |-> c])
    /\ UNCHANGED <<db, redis, past, ops>>

RequestResetCommit(r, t) ==
    /\ At(r, "token")
    /\ db.token[t] = None
    /\ db' = [db EXCEPT !.token[t] = NewToken(tx[r].user)]
    /\ End(r)
    /\ UNCHANGED <<redis, past, ops>>

\* An administrator's request replaces the tokens that are open.
TriggerReset(c, t) ==
    /\ "reset" \in ops
    /\ db.customer[c].status = "ACTIVE" /\ db.customer[c].password # 0
    /\ db.token[t] = None
    /\ db' = [db EXCEPT !.token = [Consumed(c) EXCEPT ![t] = NewToken(c)]]
    /\ UNCHANGED <<redis, tx, past, ops>>

\* Token and account are checked, then the new password is hashed.
ResetBegin(r, t) ==
    /\ db.token[t] # None /\ db.token[t].state = "OPEN" /\ ~db.token[t].late
    /\ db.customer[db.token[t].user].status = "ACTIVE"
    /\ db.customer[db.token[t].user].password # 0
    /\ Start(r, "reset", [step |-> "reset", token |-> t, user |-> db.token[t].user])
    /\ UNCHANGED <<db, redis, past, ops>>

\* The password changes, and every other token and every session goes with the
\* old one.
ResetPassword(r) ==
    LET c == tx[r].user
    IN  /\ db' = [db EXCEPT !.token = Consumed(c), !.customer[c].password = @ + 1,
                            !.session = Ended(SessionsOf(c), "REVOKED")]
        /\ past' = [past EXCEPT !.resets[tx[r].token] = @ + 1]

\* Mutant: the token is not looked at again after the hashing.
ResetCommitUnconditionally(r) ==
    /\ At(r, "reset")
    /\ ResetPassword(r)
    /\ End(r)
    /\ UNCHANGED <<redis, ops>>

\* The token is consumed on condition that it still is open.
ResetCommit(r) ==
    /\ At(r, "reset")
    /\ \/ /\ tx[r].token \in OpenTokens(tx[r].user)
          /\ ResetPassword(r)
       \/ /\ tx[r].token \notin OpenTokens(tx[r].user)
          /\ UNCHANGED <<db, past>>
    /\ End(r)
    /\ UNCHANGED <<redis, ops>>

TokenExpires(t) ==
    /\ db.token[t] # None /\ ~db.token[t].late
    /\ db' = [db EXCEPT !.token[t].late = TRUE]
    /\ UNCHANGED <<redis, tx, past, ops>>

-----------------------------------------------------------------------------
(* Lifecycle, by super-administrators *)

CustomerStatusFor(action) ==
    CASE action = "suspend" -> {"ACTIVE"}
      [] action \in {"reactivate", "disable"} -> {"SUSPENDED"}
      [] action = "anonymize" -> {"SUSPENDED", "DISABLED"}

\* Active orders only refuse an anonymisation.
CustomerLifecycleBegin(r, actor, c, action) ==
    /\ ~RoleLocked
    /\ Operational(actor)
    /\ db.customer[c].status \in CustomerStatusFor(action)
    /\ db.customer[c].version < MaxVersion
    /\ Start(r, "customer accounts", [step |-> "lifecycle", action |-> action, user |-> c,
                                      version |-> db.customer[c].version])
    /\ UNCHANGED <<db, redis, past, ops>>

\* revokeCustomerAccess: the tokens are deleted and the sessions revoked.
TokensDeleted(c) ==
    [t \in Tokens |-> IF db.token[t] # None /\ db.token[t].user = c
                      THEN [db.token[t] EXCEPT !.state = "DELETED"] ELSE db.token[t]]

\* Access is revoked except by a reactivation; the update is conditional on both
\* versions.
CustomerLifecycleCommit(r) ==
    LET c == tx[r].user
        row == db.customer[c]
        revoked == tx[r].action # "reactivate"
    IN  /\ At(r, "lifecycle") /\ c \in Customers /\ tx[r].action # "anonymize"
        /\ IF row.version = tx[r].version
           THEN db' = [db EXCEPT
                    !.customer[c] = [row EXCEPT !.status = LifecycleStatus(tx[r].action),
                                                !.version = @ + 1],
                    !.token = IF revoked THEN TokensDeleted(c) ELSE @,
                    !.session = IF revoked THEN Ended(SessionsOf(c), "REVOKED") ELSE @]
           ELSE UNCHANGED db
        /\ End(r)
        /\ UNCHANGED <<redis, past, ops>>

\* An anonymised account also loses its address, its identities and its saved
\* addresses, and gets a random password.
Anonymize(r) ==
    LET c == tx[r].user
        row == db.customer[c]
    IN  /\ At(r, "lifecycle") /\ c \in Customers /\ tx[r].action = "anonymize"
        /\ IF row.version = tx[r].version
           THEN db' = [db EXCEPT
                    !.customer[c] = [row EXCEPT !.status = "ANONYMIZED", !.email = None,
                                                !.password = @ + 1, !.version = @ + 1],
                    !.identity = {i \in @ : i[2] # c},
                    !.token = TokensDeleted(c),
                    !.session = Ended(SessionsOf(c), "REVOKED"),
                    !.address = [x \in Addresses |->
                        IF db.address[x] # None /\ db.address[x].customer = c
                        THEN [db.address[x] EXCEPT !.default = FALSE, !.deleted = TRUE, !.version = @ + 1]
                        ELSE db.address[x]]]
           ELSE UNCHANGED db
        /\ End(r)
        /\ UNCHANGED <<redis, past, ops>>
=============================================================================
