------------------------------- MODULE Access -------------------------------
(***************************************************************************)
(* Administrators and customers sign in, are managed, and keep their data  *)
(* while requests of any of them overlap.                                  *)
(***************************************************************************)
EXTENDS CustomerData

AccessTypeOK == db \in Rows /\ redis \in Keys

AccessInit ==
    \E sc \in Scenarios :
        /\ db = sc.start
        /\ ops = sc.ops
        /\ redis = [challenge |-> [ch \in Challenges |-> None],
                    challengeLock |-> [ch \in Challenges |-> None],
                    state |-> {},
                    onboarding |-> [o \in Onboardings |-> None],
                    onboardingLock |-> [o \in Onboardings |-> None]]
        /\ tx = [r \in Requests |-> None]
        /\ past = [steps |-> [a \in Admins |-> <<>>], resets |-> [t \in Tokens |-> 0]]

AdminStep ==
    \/ \E r \in Requests, a \in Admins : BeginLogin(r, a)
    \/ \E r \in Requests, ch \in Challenges : IssueChallenge(r, ch)
    \/ \E r \in Requests, ch \in Challenges, code \in 1 .. MaxStep : VerifyCode(r, ch, code)
    \/ \E r \in Requests : AdvanceStep(r)
    \/ \E ch \in Challenges : ChallengeExpires(ch)
    \/ \E a \in Admins : Bootstrap(a)
    \/ \E a, b \in Admins : CreateAdmin(a, b)
    \/ \E a \in Admins : AssignSuper(a)
    \/ \E r \in Requests, a, b \in Admins, action \in {"suspend", "reactivate", "anonymize"} :
        AdminLifecycleBegin(r, a, b, action)
    \/ \E r \in Requests : AdminLifecycleCommit(r)

GoogleStep ==
    \/ \E st \in States : StartGoogle(st)
    \/ \E r \in Requests, st \in States, g \in Subjects : Callback(r, st, g)
    \/ \E r \in Requests : ResolveIdentity(r)
    \/ \E r \in Requests, o \in Onboardings : MatchEmail(r, o)
    \/ \E r \in Requests, o \in Onboardings : Claim(r, o)
    \/ \E r \in Requests : CompleteCreation(r)
    \/ \E r \in Requests, c \in Customers : CreateGoogleCustomer(r, c)
    \/ \E r \in Requests, correct \in BOOLEAN : CompleteLink(r, correct)
    \/ \E r \in Requests : Link(r)
    \/ \E r \in Requests : FinishOnboarding(r)
    \/ \E o \in Onboardings : OnboardingExpires(o)

CustomerStep ==
    \/ \E r \in Requests, e \in Emails : RegisterBegin(r, e)
    \/ \E r \in Requests, c \in Customers : Register(r, c)
    \/ \E r \in Requests, c \in Customers : Login(r, c)
    \/ \E r \in Requests, c \in Customers : RequestResetBegin(r, c)
    \/ \E r \in Requests, t \in Tokens : RequestResetCommit(r, t)
    \/ \E c \in Customers, t \in Tokens : TriggerReset(c, t)
    \/ \E r \in Requests, t \in Tokens : ResetBegin(r, t)
    \/ \E r \in Requests : ResetCommit(r)
    \/ \E t \in Tokens : TokenExpires(t)
    \/ \E r \in Requests, a \in Admins, c \in Customers,
          action \in {"suspend", "reactivate", "disable", "anonymize"} :
        CustomerLifecycleBegin(r, a, c, action)
    \/ \E r \in Requests : CustomerLifecycleCommit(r) \/ Anonymize(r)

SessionStep ==
    \/ \E r \in Requests, s \in Sessions, previous \in Sessions \cup {None} : Issue(r, s, previous)
    \/ \E s \in Sessions : Resolve(s)
    \/ \E u \in Admins \cup Customers : Revoke(u)

DataStep ==
    \/ \E r \in Requests, c \in Customers, q \in CartRequests : DataBegin(r, "cart", c, q)
    \/ \E r \in Requests, c \in Customers, q \in AddressRequests : DataBegin(r, "address", c, q)
    \/ \E r \in Requests, c \in Customers, q \in WishRequests : DataBegin(r, "wishlist", c, q)
    \/ \E r \in Requests, k \in Carts : CartCommit(r, k)
    \/ \E k \in Carts : CartAges(k)
    \/ \E v \in Variants : CatalogueChanges(v)
    \/ \E r \in Requests, x \in Addresses : CreateAddress(r, x)
    \/ \E r \in Requests : UpdateAddress(r)
    \/ \E r \in Requests : RemoveAddress(r)
    \/ \E r \in Requests : WishCommit(r)

AccessNext == AdminStep \/ GoogleStep \/ CustomerStep \/ SessionStep \/ DataStep

AccessSpec == AccessInit /\ [][AccessNext]_vars

-----------------------------------------------------------------------------
(* Safety *)

\* However super-administrators suspend and remove each other, one of them keeps
\* an ACTIVE account: lifecycle counts the others under the Role lock.
SuperRemains ==
    (\E a \in Admins : db.admin[a].super) =>
        \E a \in Admins : db.admin[a].super /\ db.admin[a].status = "ACTIVE"

\* Since a secret was stored, every sign-in used a later time step than the one
\* before, also when two challenges are completed at once: completeTotp advances
\* lastUsedStep conditionally.
StepsAdvance ==
    \A a \in Admins :
        \A i \in 2 .. Len(past.steps[a]) : past.steps[a][i - 1] < past.steps[a][i]

\* An address and a Google subject belong to one account and an account to one
\* subject, and an ACTIVE account without a password still has its subject,
\* whatever callbacks, sign-ups and expired locks overlap.
AccountsDistinct ==
    /\ \A e \in Emails : Cardinality(WithEmail(e)) <= 1
    /\ \A g \in Subjects : Cardinality(CustomersOf(g)) <= 1
    /\ \A c \in Customers :
        /\ Cardinality(SubjectsOf(c)) <= 1
        /\ db.customer[c].status = "ACTIVE" /\ db.customer[c].password = 0 => SubjectsOf(c) # {}

\* A reset token changes a password at most once, and nothing handed out under
\* an earlier password works after it changed: completePasswordReset consumes the
\* other tokens and revokes the sessions in the same transaction.  (A session
\* counts as handed out when issue creates it: a sign-in whose password was
\* checked before a reset may still issue one after it.)
ResetsHold ==
    /\ \A t \in Tokens : past.resets[t] <= 1
    /\ \A t \in Tokens :
        db.token[t] # None /\ db.token[t].state = "OPEN" =>
            db.token[t].password = db.customer[db.token[t].user].password
    /\ \A s \in Sessions :
        Active(s) => db.session[s].password = PasswordOf(db.session[s].user)

\* A customer has at most one default address, and one variant of a product on
\* the wishlist, although the handlers decide by a view older than their lock.
ListsConsistent ==
    \A c \in Customers :
        /\ Cardinality(Defaults(c)) <= 1
        /\ \A v, w \in db.wish[c] : ProductOf[v] = ProductOf[w] => v = w

\* lockCustomerAndCart says that its lock serialises active-cart creation for one
\* customer: a customer has at most one ACTIVE cart.
OneActiveCart == \A c \in Customers : Cardinality(ActiveCarts(db.cart, c)) <= 1

-----------------------------------------------------------------------------
(* The inductive invariant behind the theorems about Access, and what they *)
(* assume of the rows an instance starts from.                             *)

ASSUME IdsAssumption ==
    /\ Admins \cap Customers = {}
    /\ None \notin Emails \cup Onboardings \cup BOOLEAN
    /\ None \notin TokenRow \cup CartRow \cup AddressRow

-----------------------------------------------------------------------------
(* Rows *)

\* Two accounts share no address and no subject, and an account that may become
\* ACTIVE again has a password or a subject.
AccountsApart(rows) ==
    /\ \A c, d \in Customers :
        rows.customer[c].email = rows.customer[d].email => c = d \/ rows.customer[c].email = None
    /\ \A i, j \in rows.identity : i[1] = j[1] \/ i[2] = j[2] => i = j
    /\ \A i \in rows.identity : rows.customer[i[2]].status # "NONE"
    /\ \A c \in Customers :
        rows.customer[c].status \notin {"NONE", "ANONYMIZED"} /\ rows.customer[c].password = 0 =>
            \E g \in Subjects : <<g, c>> \in rows.identity

\* What is still good was handed out under the password the account has now.
HandedOut(rows) ==
    /\ \A t \in Tokens :
        rows.token[t] # None /\ rows.token[t].state = "OPEN" =>
            /\ rows.token[t].password = rows.customer[rows.token[t].user].password
            /\ rows.customer[rows.token[t].user].status # "NONE"
    /\ \A s \in Sessions :
        rows.session[s] # None /\ rows.session[s].status = "ACTIVE" =>
            IF rows.session[s].user \in Admins THEN rows.session[s].password = 0
            ELSE /\ rows.session[s].password = rows.customer[rows.session[s].user].password
                 /\ rows.customer[rows.session[s].user].status # "NONE"

\* Of a customer's addresses one at most is the default, and of a product one
\* variant at most is on the wishlist.
ListsApart(rows) ==
    /\ \A x, y \in Addresses :
        /\ rows.address[x] # None /\ rows.address[y] # None
        /\ rows.address[x].customer = rows.address[y].customer
        /\ rows.address[x].default /\ rows.address[y].default
        /\ ~rows.address[x].deleted /\ ~rows.address[y].deleted
        => x = y
    /\ \A c \in Customers : \A v, w \in rows.wish[c] : ProductOf[v] = ProductOf[w] => v = w

SuperLeft(rows) ==
    (\E a \in Admins : rows.admin[a].super) =>
        \E a \in Admins : rows.admin[a].super /\ rows.admin[a].status = "ACTIVE"

\* An instance starts from rows that the handlers may have left.
LegalStart(rows) ==
    rows \in Rows /\ AccountsApart(rows) /\ HandedOut(rows) /\ ListsApart(rows) /\ SuperLeft(rows)

ASSUME ScenarioAssumption == \A sc \in Scenarios : LegalStart(sc.start)

-----------------------------------------------------------------------------
(* Requests *)

Actions == {"suspend", "reactivate", "disable", "anonymize"}

OnboardingRecord ==
    [mode: {"CREATE", "LINK"}, subject: Subjects, customer: Customers \cup {None},
     attempts: 0 .. MaxAttempts]

ReadView ==
    [cart: [Carts -> CartRow \cup {None}], address: [Addresses -> AddressRow \cup {None}],
     wish: [Customers -> SUBSET Variants], public: SUBSET Variants]

\* What a request carries at each step
Shaped(q) ==
    /\ q.step = "challenge" => q \in [step: {"challenge"}, row: AdminRow, user: Admins]
    /\ q.step = "advance" =>
        q \in [step: {"advance"}, ch: Challenges, code: 1 .. MaxStep, user: Admins]
    /\ q.step = "issue" => q.user \in Admins \cup Customers
    /\ q.step = "token" => q.user \in Customers
    /\ q.step = "lifecycle" =>
        q \in [step: {"lifecycle"}, action: Actions, user: Admins \cup Customers,
               version: 0 .. MaxVersion - 1]
    /\ q.step = "register" => q.email \in Emails
    /\ q.step \in {"identity", "match"} => q \in [step: {"identity", "match"}, subject: Subjects]
    /\ q.step \in {"CREATE", "LINK", "create"} =>
        /\ q \in [step: {"CREATE", "LINK", "create"}, o: Onboardings, record: OnboardingRecord]
        /\ q.step = "LINK" => q.record.customer \in Customers
    /\ q.step = "link" =>
        q \in [step: {"link"}, subject: Subjects, user: Customers, o: Onboardings \cup {None}]
    /\ q.step = "finish" => q.o \in Onboardings /\ q.user \in Customers
    /\ q.step = "reset" => q.token \in Tokens /\ q.user \in Customers
    /\ q.step = "cart" => q.request \in CartRequests
    /\ q.step = "address" => q.request \in AddressRequests
    /\ q.step = "wishlist" => q.request \in WishRequests
    /\ q.step \in {"cart", "address", "wishlist"} => q.customer \in Customers /\ q.view \in ReadView

\* A sign-up that links names the account it links.
KeysTyped ==
    /\ redis \in Keys
    /\ \A o \in Onboardings :
        redis.onboarding[o] # None /\ redis.onboarding[o].mode = "LINK" =>
            redis.onboarding[o].customer \in Customers

AccessTyped ==
    /\ db \in Rows
    /\ KeysTyped
    /\ past \in [steps: [Admins -> Seq(1 .. MaxStep)], resets: [Tokens -> Nat]]
    /\ tx = [r \in Requests |-> tx[r]]
    /\ \A r \in Requests : tx[r] # None => Shaped(tx[r])

-----------------------------------------------------------------------------
(* What requests rely on *)

\* Rows a request knows of are still there, and an address row whose version is
\* the one it read is the row it read.
Informed(q) ==
    /\ q.step \in {"issue", "token", "link", "finish", "reset"} /\ q.user \in Customers =>
        db.customer[q.user].status # "NONE"
    /\ q.step = "cart" => \A k \in Carts : q.view.cart[k] # None => db.cart[k] # None
    /\ q.step = "address" => \A x \in Addresses :
        q.view.address[x] # None =>
            /\ db.address[x] # None
            /\ db.address[x].customer = q.view.address[x].customer
            /\ q.view.address[x].version <= db.address[x].version
            /\ q.view.address[x].version = db.address[x].version =>
                    db.address[x].default = q.view.address[x].default

RequestsInformed == \A r \in Requests : tx[r] # None => Informed(tx[r])

\* The Role lock serialises account changes, so what was checked before one
\* still holds when it is made.
RoleHeld ==
    /\ \A r, s \in Requests : At(r, "lifecycle") /\ At(s, "lifecycle") => r = s
    /\ \A r \in Requests : At(r, "lifecycle") =>
        /\ tx[r].user \in Admins /\ tx[r].action # "reactivate" /\ db.admin[tx[r].user].super =>
            \E b \in Admins \ {tx[r].user} : db.admin[b].super /\ db.admin[b].status = "ACTIVE"
        /\ tx[r].user \in Customers => db.customer[tx[r].user].status \in CustomerStatusFor(tx[r].action)

\* The steps used with the secret stored now are not after the last one.
StepsBelow ==
    \A a \in Admins : db.admin[a].secret # None =>
        \A i \in 1 .. Len(past.steps[a]) : past.steps[a][i] <= db.admin[a].secret.last

\* A token that changed a password is not open any more.
ResetsSpent ==
    \A t \in Tokens :
        /\ past.resets[t] <= 1
        /\ past.resets[t] # 0 => db.token[t] # None /\ db.token[t].state # "OPEN"

AccessInv ==
    /\ AccessTyped
    /\ RequestsInformed
    /\ RoleHeld
    /\ SuperLeft(db)
    /\ StepsBelow /\ StepsAdvance
    /\ AccountsApart(db)
    /\ HandedOut(db) /\ ResetsSpent
    /\ ListsApart(db)

=============================================================================
