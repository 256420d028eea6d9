------------------------------ MODULE AccessDb ------------------------------
(***************************************************************************)
(* The rows behind sign-in and customer accounts, the short-lived keys in  *)
(* Redis, and the requests that work on both.                              *)
(*                                                                         *)
(* A handler here is a sequence of separate reads, transactions and Redis  *)
(* commands, so a request has one step per transaction and another request *)
(* may run between any two.  tx[r] is what request r carries from one step *)
(* to the next.  Nothing else survives a crash: a request that stops       *)
(* half-way just takes no more steps.                                      *)
(***************************************************************************)
EXTENDS Integers, FiniteSets, Sequences

CONSTANTS
    None,
    Requests,       \* requests under way
    Admins, Customers, Emails,
    Subjects,       \* Google subjects
    EmailOf,        \* the address Google vouches for
    Tokens, Sessions, Challenges, States, Onboardings,
    Variants, ProductOf, Carts, Addresses,
    Asked,          \* what customers ask of cart, addresses and wishlist
    MaxAttempts,    \* wrong codes or passwords per challenge
    MaxItems, MaxQuantity, MaxAddresses, MaxWishes,
    MaxStep,        \* bound on TOTP time steps
    MaxVersion,     \* bound on lifecycle operations of one account
    Scenarios       \* [ops, start]: the handlers an instance exercises and its rows

ASSUME AccessAssumption ==
    /\ EmailOf \in [Subjects -> Emails]
    /\ \A n \in {MaxAttempts, MaxItems, MaxQuantity, MaxAddresses, MaxWishes} : n \in Nat \ {0}
    /\ MaxStep \in Nat /\ MaxVersion \in Nat

VARIABLES
    db,         \* the committed rows
    redis,      \* challenges, OAuth states, sign-ups, and their locks
    tx,         \* what each request carries, or None
    past,       \* history: TOTP steps and reset tokens that were accepted
    ops         \* the handlers this instance exercises, never changed

vars == <<db, redis, tx, past, ops>>

\* "NONE" is no row.  suspendedAt is set exactly when the status is neither
\* NONE nor ACTIVE.
UserStatus == {"NONE", "ACTIVE", "SUSPENDED", "DISABLED", "ANONYMIZED"}

\* enrol is mustEnrollTwoFactor.  last is lastUsedStep, 0 for NULL.
\* failedLoginCount and lockedUntil only refuse a sign-in, so they are left out.
AdminRow ==
    [status: UserStatus, super: BOOLEAN, enrol: BOOLEAN,
     secret: [verified: BOOLEAN, last: 0 .. MaxStep] \cup {None}, version: 0 .. MaxVersion]

\* password numbers the passwords an account has had, 0 when it has none.
CustomerRow ==
    [status: UserStatus, email: Emails \cup {None}, verified: BOOLEAN,
     password: Nat, version: 0 .. MaxVersion]

\* password: the one the account had when the token or session was made
TokenRow ==
    [user: Customers, state: {"OPEN", "CONSUMED", "DELETED"}, late: BOOLEAN, password: Nat]

SessionRow ==
    [user: Admins \cup Customers, status: {"ACTIVE", "REVOKED", "EXPIRED"}, password: Nat]

\* items maps the variants in the cart to their quantity, 0 for no row.
CartRow ==
    [customer: Customers, status: {"ACTIVE", "EXPIRED"}, late: BOOLEAN,
     items: [Variants -> 0 .. MaxQuantity]]

AddressRow == [customer: Customers, default: BOOLEAN, deleted: BOOLEAN, version: Nat]

\* public: the variants that pass publicVariantWhere, with enough stock
Rows ==
    [admin: [Admins -> AdminRow], customer: [Customers -> CustomerRow],
     identity: SUBSET (Subjects \X Customers),
     token: [Tokens -> TokenRow \cup {None}], session: [Sessions -> SessionRow \cup {None}],
     cart: [Carts -> CartRow \cup {None}], address: [Addresses -> AddressRow \cup {None}],
     wish: [Customers -> SUBSET Variants], public: SUBSET Variants]

Keys ==
    [challenge: [Challenges -> [admin: Admins, attempts: 0 .. MaxAttempts] \cup {None}],
     challengeLock: [Challenges -> Requests \cup {None}],
     state: SUBSET States,
     onboarding: [Onboardings -> [mode: {"CREATE", "LINK"}, subject: Subjects,
                                  customer: Customers \cup {None},
                                  attempts: 0 .. MaxAttempts] \cup {None}],
     onboardingLock: [Onboardings -> Requests \cup {None}]]

-----------------------------------------------------------------------------
(* Requests *)

Idle(r) == tx[r] = None

At(r, step) == tx[r] # None /\ tx[r].step = step

Goto(r, record) == tx' = [tx EXCEPT ![r] = record]

End(r) == tx' = [tx EXCEPT ![r] = None]

Start(r, op, record) == op \in ops /\ Idle(r) /\ Goto(r, record)

\* The Role row of super-administrators is locked FOR UPDATE by lifecycle
\* transactions, from lockAndRequireActor until they commit.
RoleLocked == \E r \in Requests : At(r, "lifecycle")

\* redis.call('get', lock) == token ... del: the lock goes only if it is still ours.
Unlocked(lock, r) == [k \in DOMAIN lock |-> IF lock[k] = r THEN None ELSE lock[k]]

-----------------------------------------------------------------------------
(* Sessions *)

StatusOf(u) == IF u \in Admins THEN db.admin[u].status ELSE db.customer[u].status

PasswordOf(u) == IF u \in Admins THEN 0 ELSE db.customer[u].password

SameAudience(u, v) == (u \in Admins) = (v \in Admins)

Active(s) == db.session[s] # None /\ db.session[s].status = "ACTIVE"

\* The ACTIVE sessions in S become status.
Ended(S, status) ==
    [s \in Sessions |->
        IF s \in S /\ Active(s) THEN [db.session[s] EXCEPT !.status = status]
        ELSE db.session[s]]

SessionsOf(u) == {s \in Sessions : db.session[s] # None /\ db.session[s].user = u}

\* SessionService.issue: the session the browser still presents, if it is one
\* of the same audience, is revoked.  Nothing looks at the account again.
Issue(r, s, previous) ==
    /\ At(r, "issue")
    /\ db.session[s] = None
    /\ previous # None => Active(previous) /\ SameAudience(db.session[previous].user, tx[r].user)
    /\ db' = [db EXCEPT !.session =
                [Ended({previous}, "REVOKED") EXCEPT ![s] =
                    [user |-> tx[r].user, status |-> "ACTIVE",
                     password |-> PasswordOf(tx[r].user)]]]
    /\ redis' = [redis EXCEPT !.challengeLock = Unlocked(@, r)]
    /\ End(r)
    /\ UNCHANGED <<past, ops>>

\* resolve: a session past its deadlines, or of an account that is not ACTIVE,
\* is expired when it is next presented.
Resolve(s) ==
    /\ "sessions" \in ops
    /\ Active(s)
    /\ db' = [db EXCEPT !.session = Ended({s}, "EXPIRED")]
    /\ UNCHANGED <<redis, tx, past, ops>>

\* revoke, revokeById and revokeAll, and an administrator's revokeSessions
Revoke(u) ==
    /\ "sessions" \in ops
    /\ \E S \in SUBSET SessionsOf(u) :
        /\ \E s \in S : Active(s)
        /\ db' = [db EXCEPT !.session = Ended(S, "REVOKED")]
    /\ UNCHANGED <<redis, tx, past, ops>>
=============================================================================
