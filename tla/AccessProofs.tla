---------------------------- MODULE AccessProofs ----------------------------
(***************************************************************************)
(* The safety of sign-in, accounts and customer data, for any number of    *)
(* requests that overlap.                                                  *)
(***************************************************************************)
EXTENDS Access, FiniteSetTheorems, SequenceTheorems, TLAPS

-----------------------------------------------------------------------------
(* Requests go on one at a time *)

\* A request that goes on leaves the others where they are, and the records
\* requests carry stay well formed.
LEMMA GotoTyped ==
    ASSUME AccessTyped, NEW r \in Requests, NEW q, Goto(r, q), q # None => Shaped(q)
    PROVE  /\ tx' = [p \in Requests |-> tx'[p]]
           /\ \A p \in Requests : tx'[p] # None => Shaped(tx'[p])
           /\ tx'[r] = q
           /\ \A p \in Requests : p # r => tx'[p] = tx[p]
<1>1. /\ tx' = [p \in Requests |-> tx'[p]]
      /\ tx'[r] = q
      /\ \A p \in Requests : p # r => tx'[p] = tx[p]
    BY DEF AccessTyped, Goto
<1> QED
    BY <1>1 DEF AccessTyped

LEMMA EndTyped ==
    ASSUME AccessTyped, NEW r \in Requests, End(r)
    PROVE  /\ tx' = [p \in Requests |-> tx'[p]]
           /\ \A p \in Requests : tx'[p] # None => Shaped(tx'[p])
           /\ tx'[r] = None
           /\ \A p \in Requests : p # r => tx'[p] = tx[p]
BY GotoTyped DEF End, Goto

\* Rows that a request may know of stay: customers and carts are not deleted,
\* and an address row changes together with its version.
Evolves ==
    /\ \A c \in Customers : db.customer[c].status # "NONE" => db'.customer[c].status # "NONE"
    /\ \A k \in Carts : db.cart[k] # None => db'.cart[k] # None
    /\ \A x \in Addresses : db.address[x] # None =>
        /\ db'.address[x] # None
        /\ db'.address[x].customer = db.address[x].customer
        /\ db.address[x].version <= db'.address[x].version
        /\ db.address[x].version = db'.address[x].version => db'.address[x].default = db.address[x].default

\* Requests stay informed when rows evolve and those that go on are informed.
LEMMA InformedKept ==
    ASSUME AccessInv, Evolves, db' \in Rows,
           \A r \in Requests : tx'[r] # None => tx'[r] = tx[r] \/ Informed(tx[r])'
    PROVE  RequestsInformed'
<1> SUFFICES ASSUME NEW r \in Requests, tx'[r] # None, tx'[r] = tx[r]
             PROVE  Informed(tx[r])'
    BY DEF RequestsInformed
<1>1. Informed(tx[r]) /\ Shaped(tx[r])
    BY DEF AccessInv, AccessTyped, RequestsInformed
<1>2. tx[r].step = "address" => tx[r].view.address \in [Addresses -> AddressRow \cup {None}]
    BY <1>1 DEF Shaped, ReadView
<1>3. ASSUME NEW x \in Addresses, tx[r].step = "address", tx[r].view.address[x] # None
      PROVE  /\ db'.address[x] # None
             /\ db'.address[x].customer = tx[r].view.address[x].customer
             /\ tx[r].view.address[x].version <= db'.address[x].version
             /\ tx[r].view.address[x].version = db'.address[x].version =>
                    db'.address[x].default = tx[r].view.address[x].default
    <2>1. /\ tx[r].view.address[x].version \in Nat
          /\ db.address[x] # None /\ db.address[x].version \in Nat
          /\ db'.address[x] # None /\ db'.address[x].version \in Nat
        BY <1>1, <1>2, <1>3 DEF AccessInv, AccessTyped, Informed, Evolves, Rows, AddressRow
    <2> QED
        BY <1>1, <1>3, <2>1 DEF Informed, Evolves
<1>4. tx[r].step = "cart" =>
          \A k \in Carts : tx[r].view.cart[k] # None => db'.cart[k] # None
    BY <1>1 DEF Informed, Evolves
<1>5. tx[r].step \in {"issue", "token", "link", "finish", "reset"} /\ tx[r].user \in Customers =>
          db'.customer[tx[r].user].status # "NONE"
    BY <1>1 DEF Informed, Evolves
<1> QED
    BY <1>3, <1>4, <1>5 DEF Informed

\* The Role lock is not taken, and what its holder relies on does not change.
LEMMA RoleKept ==
    ASSUME AccessInv,
           \A r \in Requests : At(r, "lifecycle")' => tx'[r] = tx[r],
           \A a \in Admins : db'.admin[a].super = db.admin[a].super
                                /\ db'.admin[a].status = db.admin[a].status,
           \A c \in Customers : db.customer[c].status # "NONE" =>
                                    db'.customer[c].status = db.customer[c].status
    PROVE  RoleHeld'
<1>1. \A r \in Requests : At(r, "lifecycle")' => At(r, "lifecycle") /\ tx'[r] = tx[r]
    BY DEF At
<1>2. \A r \in Requests : At(r, "lifecycle") =>
          tx[r].user \in Admins \cup Customers /\ tx[r].action \in Actions
    BY DEF AccessInv, AccessTyped, Shaped, At
<1>3. \A r \in Requests : At(r, "lifecycle") /\ tx[r].user \in Customers =>
          db.customer[tx[r].user].status # "NONE"
    BY <1>2 DEF AccessInv, RoleHeld, CustomerStatusFor, Actions
<1> QED
    BY <1>1, <1>2, <1>3 DEF AccessInv, RoleHeld

\* A step that writes no row.
LEMMA NoWrite ==
    ASSUME AccessInv, AccessTyped', UNCHANGED <<db, past>>,
           \A r \in Requests : tx'[r] # None => tx'[r] = tx[r] \/ Informed(tx[r])',
           \A r \in Requests : At(r, "lifecycle")' => tx'[r] = tx[r]
    PROVE  AccessInv'
<1>1. RequestsInformed'
    <2>1. \A x \in Addresses : db.address[x] # None => db.address[x].version \in Nat
        BY DEF AccessInv, AccessTyped, Rows, AddressRow
    <2>2. Evolves
        BY <2>1 DEF Evolves
    <2> QED
        BY <2>2, InformedKept DEF AccessInv, AccessTyped
<1>2. RoleHeld'
    BY RoleKept
<1> QED
    BY <1>1, <1>2 DEF AccessInv, SuperLeft, StepsBelow, StepsAdvance, AccountsApart, HandedOut,
                      ResetsSpent, ListsApart

\* A request goes on without a write.
LEMMA RequestGoes ==
    ASSUME AccessInv, NEW r \in Requests, NEW q, Goto(r, q), UNCHANGED <<db, past>>, KeysTyped',
           q # None => Shaped(q) /\ Informed(q) /\ q.step # "lifecycle"
    PROVE  AccessInv'
<1>1. /\ tx' = [p \in Requests |-> tx'[p]]
      /\ \A p \in Requests : tx'[p] # None => Shaped(tx'[p])
      /\ tx'[r] = q
      /\ \A p \in Requests : p # r => tx'[p] = tx[p]
    BY GotoTyped DEF AccessInv
<1>2. AccessTyped'
    BY <1>1 DEF AccessInv, AccessTyped
<1>3. \A p \in Requests : At(p, "lifecycle")' => tx'[p] = tx[p]
    BY <1>1 DEF At
<1>4. q # None => Informed(tx[r])'
    BY <1>1 DEF Informed
<1> QED
    BY <1>1, <1>2, <1>3, <1>4, NoWrite

LEMMA RequestEnds ==
    ASSUME AccessInv, NEW r \in Requests, End(r), UNCHANGED <<db, past>>, KeysTyped'
    PROVE  AccessInv'
BY RequestGoes DEF End, Goto

LEMMA KeysChange ==
    ASSUME AccessInv, UNCHANGED <<db, past, tx>>, KeysTyped'
    PROVE  AccessInv'
<1>1. AccessTyped'
    BY DEF AccessInv, AccessTyped
<1>2. \A p \in Requests : tx'[p] = tx[p]
    OBVIOUS
<1> QED
    BY <1>1, <1>2, NoWrite

-----------------------------------------------------------------------------
(* Steps that write no row *)

LEMMA KeysKept ==
    ASSUME AccessInv, UNCHANGED redis
    PROVE  KeysTyped'
BY DEF AccessInv, AccessTyped, KeysTyped

LEMMA BeginLoginKeeps ==
    ASSUME AccessInv, NEW r \in Requests, NEW a \in Admins, BeginLogin(r, a)
    PROVE  AccessInv'
<1> DEFINE q == [step |-> "challenge", row |-> db.admin[a], user |-> a]
<1>1. Goto(r, q) /\ UNCHANGED <<db, redis, past>>
    BY DEF BeginLogin, Start
<1>2. Shaped(q) /\ Informed(q) /\ q.step # "lifecycle"
    BY DEF Shaped, Informed, AccessInv, AccessTyped, Rows
<1> QED
    BY <1>1, <1>2, RequestGoes, KeysKept

\* Redis keys are written one at a time.
LEMMA ChallengeWritten ==
    ASSUME KeysTyped, NEW ch \in Challenges
    PROVE  /\ \A k \in [admin: Admins, attempts: 0 .. MaxAttempts] \cup {None} :
                redis' = [redis EXCEPT !.challenge[ch] = k] => KeysTyped'
           /\ \A p \in Requests \cup {None} :
                redis' = [redis EXCEPT !.challengeLock[ch] = p] => KeysTyped'
<1>1. redis.challenge \in [Challenges -> [admin: Admins, attempts: 0 .. MaxAttempts] \cup {None}]
    BY DEF KeysTyped, Keys
<1>2. ASSUME NEW k \in [admin: Admins, attempts: 0 .. MaxAttempts] \cup {None},
             redis' = [redis EXCEPT !.challenge[ch] = k]
      PROVE  KeysTyped'
    <2>1. [redis.challenge EXCEPT ![ch] = k]
              \in [Challenges -> [admin: Admins, attempts: 0 .. MaxAttempts] \cup {None}]
        BY <1>1
    <2>2. redis' \in Keys /\ redis'.onboarding = redis.onboarding
        BY <1>2, <2>1 DEF KeysTyped, Keys
    <2> QED
        BY <2>2 DEF KeysTyped
<1>3. ASSUME NEW p \in Requests \cup {None}, redis' = [redis EXCEPT !.challengeLock[ch] = p]
      PROVE  KeysTyped'
    BY <1>3 DEF KeysTyped, Keys
<1> QED
    BY <1>2, <1>3

LEMMA OnboardingWritten ==
    ASSUME KeysTyped, NEW o \in Onboardings
    PROVE  /\ \A k \in OnboardingRecord \cup {None} :
                (k # None /\ k.mode = "LINK" => k.customer \in Customers)
                /\ redis' = [redis EXCEPT !.onboarding[o] = k]
                    => KeysTyped'
           /\ \A p \in Requests \cup {None} :
                redis' = [redis EXCEPT !.onboardingLock[o] = p] => KeysTyped'
<1>1. redis.onboarding \in [Onboardings -> OnboardingRecord \cup {None}]
    BY DEF KeysTyped, Keys, OnboardingRecord
<1>2. ASSUME NEW k \in OnboardingRecord \cup {None}, k # None /\ k.mode = "LINK" => k.customer \in Customers,
             redis' = [redis EXCEPT !.onboarding[o] = k]
      PROVE  KeysTyped'
    <2>1. [redis.onboarding EXCEPT ![o] = k] \in [Onboardings -> OnboardingRecord \cup {None}]
        BY <1>1
    <2>2. redis' \in Keys /\ redis'.onboarding = [redis.onboarding EXCEPT ![o] = k]
        BY <1>2, <2>1 DEF KeysTyped, Keys, OnboardingRecord
    <2>3. \A p \in Onboardings : redis'.onboarding[p] = IF p = o THEN k ELSE redis.onboarding[p]
        BY <1>1, <2>2
    <2> QED
        BY <1>2, <2>2, <2>3 DEF KeysTyped
<1>3. ASSUME NEW p \in Requests \cup {None}, redis' = [redis EXCEPT !.onboardingLock[o] = p]
      PROVE  KeysTyped'
    BY <1>3 DEF KeysTyped, Keys
<1> QED
    BY <1>2, <1>3

\* Locks are given back by their owner alone.
LEMMA LocksReleased ==
    ASSUME KeysTyped, NEW r
    PROVE  /\ redis' = [redis EXCEPT !.challengeLock = Unlocked(@, r)] => KeysTyped'
           /\ redis' = [redis EXCEPT !.onboardingLock = Unlocked(@, r)] => KeysTyped'
<1>1. /\ Unlocked(redis.challengeLock, r) \in [Challenges -> Requests \cup {None}]
      /\ Unlocked(redis.onboardingLock, r) \in [Onboardings -> Requests \cup {None}]
    BY DEF KeysTyped, Keys, Unlocked
<1> QED
    BY <1>1 DEF KeysTyped, Keys

LEMMA VerifyCodeKeeps ==
    ASSUME AccessInv, NEW r \in Requests, NEW ch \in Challenges, NEW code \in 1 .. MaxStep,
           VerifyCode(r, ch, code)
    PROVE  AccessInv'
<1> DEFINE a == redis.challenge[ch].admin
           n == redis.challenge[ch].attempts + 1
           q == [step |-> "advance", ch |-> ch, code |-> code, user |-> a]
<1>1. /\ KeysTyped /\ UNCHANGED <<db, past>>
      /\ redis.challenge[ch] \in [admin: Admins, attempts: 0 .. MaxAttempts]
    BY DEF VerifyCode, AccessInv, AccessTyped, KeysTyped, Keys
<1>2. CASE redis' = [redis EXCEPT !.challenge[ch] = None] /\ UNCHANGED tx
    BY <1>1, <1>2, ChallengeWritten, KeysChange
<1>3. CASE /\ redis' = [redis EXCEPT !.challenge[ch] =
                            IF n >= MaxAttempts THEN None ELSE [@ EXCEPT !.attempts = n]]
           /\ UNCHANGED tx
    <2>1. (IF n >= MaxAttempts THEN None ELSE [redis.challenge[ch] EXCEPT !.attempts = n])
              \in [admin: Admins, attempts: 0 .. MaxAttempts] \cup {None}
        BY <1>1, AccessAssumption
    <2> QED
        BY <1>1, <1>3, <2>1, ChallengeWritten, KeysChange
<1>4. CASE redis' = [redis EXCEPT !.challengeLock[ch] = r] /\ Goto(r, q)
    <2>1. Shaped(q) /\ Informed(q) /\ q.step # "lifecycle"
        BY <1>1 DEF Shaped, Informed
    <2>2. KeysTyped'
        BY <1>1, <1>4, ChallengeWritten
    <2> QED
        BY <1>1, <1>4, <2>1, <2>2, RequestGoes
<1> QED
    BY <1>2, <1>3, <1>4 DEF VerifyCode

LEMMA ChallengeExpiresKeeps ==
    ASSUME AccessInv, NEW ch \in Challenges, ChallengeExpires(ch)
    PROVE  AccessInv'
<1>1. KeysTyped'
    BY ChallengeWritten DEF ChallengeExpires, AccessInv, AccessTyped
<1> QED
    BY <1>1, KeysChange DEF ChallengeExpires

LEMMA RegisterBeginKeeps ==
    ASSUME AccessInv, NEW r \in Requests, NEW e \in Emails, RegisterBegin(r, e)
    PROVE  AccessInv'
<1> DEFINE q == [step |-> "register", email |-> e]
<1>1. Goto(r, q) /\ UNCHANGED <<db, redis, past>>
    BY DEF RegisterBegin, Start
<1>2. Shaped(q) /\ Informed(q) /\ q.step # "lifecycle"
    BY DEF Shaped, Informed
<1> QED
    BY <1>1, <1>2, RequestGoes, KeysKept

LEMMA LoginKeeps ==
    ASSUME AccessInv, NEW r \in Requests, NEW c \in Customers, Login(r, c)
    PROVE  AccessInv'
<1> DEFINE q == [step |-> "issue", user |-> c]
<1>1. Goto(r, q) /\ UNCHANGED <<db, redis, past>> /\ db.customer[c].status = "ACTIVE"
    BY DEF Login, Start
<1>2. Shaped(q) /\ Informed(q) /\ q.step # "lifecycle"
    BY <1>1 DEF Shaped, Informed
<1> QED
    BY <1>1, <1>2, RequestGoes, KeysKept

LEMMA StartGoogleKeeps ==
    ASSUME AccessInv, NEW st \in States, StartGoogle(st)
    PROVE  AccessInv'
<1>1. KeysTyped'
    BY DEF StartGoogle, AccessInv, AccessTyped, KeysTyped, Keys
<1> QED
    BY <1>1, KeysChange DEF StartGoogle

LEMMA CallbackKeeps ==
    ASSUME AccessInv, NEW r \in Requests, NEW st \in States, NEW g \in Subjects, Callback(r, st, g)
    PROVE  AccessInv'
<1> DEFINE q == [step |-> "identity", subject |-> g]
<1>1. Goto(r, q) /\ UNCHANGED <<db, past>>
    BY DEF Callback, Start
<1>2. Shaped(q) /\ Informed(q) /\ q.step # "lifecycle"
    BY DEF Shaped, Informed
<1>3. KeysTyped'
    BY DEF Callback, AccessInv, AccessTyped, KeysTyped, Keys
<1> QED
    BY <1>1, <1>2, <1>3, RequestGoes

\* Identities name customers, and subjects, of the tables.
LEMMA IdentityTypes ==
    ASSUME db \in Rows
    PROVE  /\ \A g, c : c \in CustomersOf(g) <=> <<g, c>> \in db.identity
           /\ \A g, c : g \in SubjectsOf(c) <=> <<g, c>> \in db.identity
           /\ \A g, c : <<g, c>> \in db.identity => g \in Subjects /\ c \in Customers
<1>1. \A i \in db.identity : i \in Subjects \X Customers /\ i = <<i[1], i[2]>>
    BY DEF Rows
<1> QED
    BY <1>1 DEF CustomersOf, SubjectsOf

LEMMA ResolveIdentityKeeps ==
    ASSUME AccessInv, NEW r \in Requests, ResolveIdentity(r)
    PROVE  AccessInv'
<1>1. /\ UNCHANGED <<db, redis, past>> /\ tx[r].step = "identity"
      /\ tx[r] \in [step: {"identity", "match"}, subject: Subjects]
    BY DEF ResolveIdentity, At, AccessInv, AccessTyped, Shaped
<1>2. CASE Goto(r, [tx[r] EXCEPT !.step = "match"])
    <2> DEFINE q == [tx[r] EXCEPT !.step = "match"]
    <2>1. q \in [step: {"identity", "match"}, subject: Subjects] /\ q.step = "match"
        BY <1>1
    <2>2. Shaped(q) /\ Informed(q) /\ q.step # "lifecycle"
        BY <2>1 DEF Shaped, Informed
    <2> HIDE DEF q
    <2> QED
        BY <1>1, <1>2, <2>2, RequestGoes, KeysKept DEF q
<1>3. ASSUME NEW c \in CustomersOf(tx[r].subject), db.customer[c].status = "ACTIVE",
             Goto(r, [step |-> "issue", user |-> c])
      PROVE  AccessInv'
    <2> DEFINE q == [step |-> "issue", user |-> c]
    <2>1. c \in Customers
        BY IdentityTypes DEF AccessInv, AccessTyped
    <2>2. Shaped(q) /\ Informed(q) /\ q.step # "lifecycle"
        BY <1>3, <2>1 DEF Shaped, Informed
    <2> QED
        BY <1>1, <1>3, <2>2, RequestGoes, KeysKept
<1>4. CASE End(r)
    BY <1>1, <1>4, RequestEnds, KeysKept
<1> QED
    BY <1>2, <1>3, <1>4 DEF ResolveIdentity

LEMMA MatchEmailKeeps ==
    ASSUME AccessInv, NEW r \in Requests, NEW o \in Onboardings, MatchEmail(r, o)
    PROVE  AccessInv'
<1> DEFINE g == tx[r].subject
<1>1. /\ UNCHANGED <<db, past>> /\ g \in Subjects /\ KeysTyped
      /\ WithEmail(EmailOf[g]) \subseteq Customers
    BY DEF MatchEmail, At, AccessInv, AccessTyped, Shaped, WithEmail
<1>2. ASSUME NEW k \in OnboardingRecord, k.mode = "LINK" => k.customer \in Customers,
             redis' = [redis EXCEPT !.onboarding[o] = k], End(r)
      PROVE  AccessInv'
    BY <1>1, <1>2, OnboardingWritten, RequestEnds
<1>3. CASE /\ redis' = [redis EXCEPT !.onboarding[o] =
                            [mode |-> "CREATE", subject |-> g, customer |-> None, attempts |-> 0]]
           /\ End(r)
    <2> DEFINE k == [mode |-> "CREATE", subject |-> g, customer |-> None, attempts |-> 0]
    <2>1. k \in OnboardingRecord /\ k.mode # "LINK"
        BY <1>1, AccessAssumption DEF OnboardingRecord
    <2> HIDE DEF k
    <2> QED
        BY <1>2, <1>3, <2>1 DEF k
<1>4. ASSUME NEW c \in WithEmail(EmailOf[g]),
             redis' = [redis EXCEPT !.onboarding[o] =
                            [mode |-> "LINK", subject |-> g, customer |-> c, attempts |-> 0]],
             End(r)
      PROVE  AccessInv'
    <2> DEFINE k == [mode |-> "LINK", subject |-> g, customer |-> c, attempts |-> 0]
    <2>1. k \in OnboardingRecord /\ k.customer \in Customers
        BY <1>1, <1>4, AccessAssumption DEF OnboardingRecord
    <2> HIDE DEF k
    <2> QED
        BY <1>2, <1>4, <2>1 DEF k
<1>5. CASE End(r) /\ UNCHANGED redis
    BY <1>1, <1>5, RequestEnds, KeysKept
<1>6. ASSUME NEW c \in WithEmail(EmailOf[g]), db.customer[c].status = "ACTIVE",
             Goto(r, [step |-> "link", subject |-> g, user |-> c, o |-> None]), UNCHANGED redis
      PROVE  AccessInv'
    <2> DEFINE q == [step |-> "link", subject |-> g, user |-> c, o |-> None]
    <2>1. Shaped(q) /\ Informed(q) /\ q.step # "lifecycle"
        BY <1>1, <1>6 DEF Shaped, Informed
    <2> QED
        BY <1>1, <1>6, <2>1, RequestGoes, KeysKept
<1> QED
    BY <1>3, <1>4, <1>5, <1>6 DEF MatchEmail

LEMMA ClaimKeeps ==
    ASSUME AccessInv, NEW r \in Requests, NEW o \in Onboardings, Claim(r, o)
    PROVE  AccessInv'
<1> DEFINE q == [step |-> redis.onboarding[o].mode, o |-> o, record |-> redis.onboarding[o]]
<1>1. Goto(r, q) /\ UNCHANGED <<db, past>> /\ KeysTyped
    BY DEF Claim, Start, AccessInv, AccessTyped
<1>2. /\ redis.onboarding[o] \in OnboardingRecord
      /\ redis.onboarding[o].mode = "LINK" => redis.onboarding[o].customer \in Customers
    BY <1>1 DEF Claim, KeysTyped, Keys, OnboardingRecord
<1>3. q.step \in {"CREATE", "LINK"}
    BY <1>2 DEF OnboardingRecord
<1>4. Shaped(q) /\ Informed(q) /\ q.step # "lifecycle"
    BY <1>2, <1>3 DEF Shaped, Informed
<1>5. KeysTyped'
    BY <1>1, OnboardingWritten DEF Claim
<1> QED
    BY <1>1, <1>4, <1>5, RequestGoes

\* A completion that fails gives the lock back.
LEMMA ReleaseKeeps ==
    ASSUME AccessInv, NEW r \in Requests, Release(r), UNCHANGED <<db, past>>
    PROVE  AccessInv'
<1>1. KeysTyped'
    BY LocksReleased DEF Release, AccessInv, AccessTyped
<1> QED
    BY <1>1, RequestEnds DEF Release

LEMMA CompleteCreationKeeps ==
    ASSUME AccessInv, NEW r \in Requests, CompleteCreation(r)
    PROVE  AccessInv'
<1>1. /\ UNCHANGED <<db, past>>
      /\ tx[r] \in [step: {"CREATE", "LINK", "create"}, o: Onboardings, record: OnboardingRecord]
    BY DEF CompleteCreation, At, AccessInv, AccessTyped, Shaped
<1>2. CASE Goto(r, [tx[r] EXCEPT !.step = "create"]) /\ UNCHANGED redis
    <2> DEFINE q == [tx[r] EXCEPT !.step = "create"]
    <2>1. /\ q \in [step: {"CREATE", "LINK", "create"}, o: Onboardings, record: OnboardingRecord]
          /\ q.step = "create"
        BY <1>1
    <2>2. Shaped(q) /\ Informed(q) /\ q.step # "lifecycle"
        BY <2>1 DEF Shaped, Informed
    <2> HIDE DEF q
    <2> QED
        BY <1>1, <1>2, <2>2, RequestGoes, KeysKept DEF q
<1>3. CASE Release(r)
    BY <1>1, <1>3, ReleaseKeeps
<1> QED
    BY <1>2, <1>3 DEF CompleteCreation

LEMMA CompleteLinkKeeps ==
    ASSUME AccessInv, NEW r \in Requests, NEW correct \in BOOLEAN, CompleteLink(r, correct)
    PROVE  AccessInv'
<1> DEFINE o == tx[r].o
           record == tx[r].record
           c == record.customer
           n == record.attempts + 1
<1>1. /\ UNCHANGED <<db, past>> /\ KeysTyped
      /\ o \in Onboardings /\ record \in OnboardingRecord /\ c \in Customers
    BY DEF CompleteLink, At, AccessInv, AccessTyped, Shaped
<1>2. CASE Release(r)
    BY <1>1, <1>2, ReleaseKeeps
<1>3. CASE /\ db.customer[c].status = "ACTIVE"
           /\ Goto(r, [step |-> "link", subject |-> record.subject, user |-> c, o |-> o])
           /\ UNCHANGED redis
    <2> DEFINE q == [step |-> "link", subject |-> record.subject, user |-> c, o |-> o]
    <2>1. Shaped(q) /\ Informed(q) /\ q.step # "lifecycle"
        BY <1>1, <1>3 DEF Shaped, Informed, OnboardingRecord
    <2> QED
        BY <1>1, <1>3, <2>1, RequestGoes, KeysKept
<1>4. CASE /\ redis' = [redis EXCEPT
                    !.onboarding[o] =
                        IF redis.onboardingLock[o] # r \/ @ = None THEN @
                        ELSE IF n >= MaxAttempts THEN None
                        ELSE [record EXCEPT !.attempts = n],
                    !.onboardingLock = Unlocked(@, r)]
           /\ End(r)
    <2> DEFINE k == IF redis.onboardingLock[o] # r \/ redis.onboarding[o] = None THEN redis.onboarding[o]
                    ELSE IF n >= MaxAttempts THEN None
                    ELSE [record EXCEPT !.attempts = n]
    <2>1. [record EXCEPT !.attempts = n] \in OnboardingRecord \/ n >= MaxAttempts
        BY <1>1, AccessAssumption DEF OnboardingRecord
    <2>2. [record EXCEPT !.attempts = n].customer \in Customers
        BY <1>1 DEF OnboardingRecord
    <2>3. redis.onboarding \in [Onboardings -> OnboardingRecord \cup {None}]
        BY <1>1 DEF KeysTyped, Keys, OnboardingRecord
    <2>4. /\ k \in OnboardingRecord \cup {None}
          /\ k # None /\ k.mode = "LINK" => k.customer \in Customers
        BY <1>1, <2>1, <2>2, <2>3 DEF KeysTyped
    <2> HIDE DEF k
    <2>5. redis' = [redis EXCEPT !.onboarding = [redis.onboarding EXCEPT ![o] = k],
                                 !.onboardingLock = Unlocked(redis.onboardingLock, r)]
        BY <1>4 DEF k
    <2>6. [redis.onboarding EXCEPT ![o] = k] \in [Onboardings -> OnboardingRecord \cup {None}]
        BY <2>3, <2>4
    <2>7. Unlocked(redis.onboardingLock, r) \in [Onboardings -> Requests \cup {None}]
        BY <1>1 DEF KeysTyped, Keys, Unlocked
    <2>8. redis' \in Keys /\ redis'.onboarding = [redis.onboarding EXCEPT ![o] = k]
        BY <1>1, <2>5, <2>6, <2>7 DEF KeysTyped, Keys, OnboardingRecord
    <2>9. \A p \in Onboardings : redis'.onboarding[p] = IF p = o THEN k ELSE redis.onboarding[p]
        BY <2>3, <2>8
    <2>10. KeysTyped'
        BY <1>1, <2>4, <2>8, <2>9 DEF KeysTyped
    <2> QED
        BY <1>1, <1>4, <2>10, RequestEnds
<1> QED
    BY <1>2, <1>3, <1>4 DEF CompleteLink

LEMMA FinishOnboardingKeeps ==
    ASSUME AccessInv, NEW r \in Requests, FinishOnboarding(r)
    PROVE  AccessInv'
<1> DEFINE o == tx[r].o
           q == [step |-> "issue", user |-> tx[r].user]
<1>1. /\ UNCHANGED <<db, past>> /\ KeysTyped
      /\ o \in Onboardings /\ tx[r].user \in Customers /\ db.customer[tx[r].user].status # "NONE"
    BY DEF FinishOnboarding, At, AccessInv, AccessTyped, Shaped, RequestsInformed, Informed
<1>2. CASE /\ redis' = [redis EXCEPT !.onboarding[o] = None, !.onboardingLock[o] = None]
           /\ Goto(r, q)
    <2>1. redis' \in Keys /\ redis'.onboarding = [redis.onboarding EXCEPT ![o] = None]
        BY <1>1, <1>2 DEF KeysTyped, Keys
    <2>2. KeysTyped'
        BY <1>1, <2>1 DEF KeysTyped, Keys
    <2>3. Shaped(q) /\ Informed(q) /\ q.step # "lifecycle"
        BY <1>1 DEF Shaped, Informed
    <2> QED
        BY <1>1, <1>2, <2>2, <2>3, RequestGoes
<1>3. CASE Release(r)
    BY <1>1, <1>3, ReleaseKeeps
<1> QED
    BY <1>2, <1>3 DEF FinishOnboarding

LEMMA OnboardingExpiresKeeps ==
    ASSUME AccessInv, NEW o \in Onboardings, OnboardingExpires(o)
    PROVE  AccessInv'
<1>1. KeysTyped'
    BY OnboardingWritten DEF OnboardingExpires, AccessInv, AccessTyped
<1> QED
    BY <1>1, KeysChange DEF OnboardingExpires

LEMMA RequestResetBeginKeeps ==
    ASSUME AccessInv, NEW r \in Requests, NEW c \in Customers, RequestResetBegin(r, c)
    PROVE  AccessInv'
<1> DEFINE q == [step |-> "token", user |-> c]
<1>1. Goto(r, q) /\ UNCHANGED <<db, redis, past>> /\ db.customer[c].status = "ACTIVE"
    BY DEF RequestResetBegin, Start
<1>2. Shaped(q) /\ Informed(q) /\ q.step # "lifecycle"
    BY <1>1 DEF Shaped, Informed
<1> QED
    BY <1>1, <1>2, RequestGoes, KeysKept

LEMMA ResetBeginKeeps ==
    ASSUME AccessInv, NEW r \in Requests, NEW t \in Tokens, ResetBegin(r, t)
    PROVE  AccessInv'
<1> DEFINE c == db.token[t].user
           q == [step |-> "reset", token |-> t, user |-> c]
<1>1. /\ Goto(r, q) /\ UNCHANGED <<db, redis, past>> /\ db.customer[c].status = "ACTIVE"
      /\ db.token[t] # None
    BY DEF ResetBegin, Start
<1>2. c \in Customers
    BY <1>1 DEF AccessInv, AccessTyped, Rows, TokenRow
<1>3. Shaped(q) /\ Informed(q) /\ q.step # "lifecycle"
    BY <1>1, <1>2 DEF Shaped, Informed
<1> QED
    BY <1>1, <1>3, RequestGoes, KeysKept

\* A handler of customer data reads its view.
LEMMA DataBeginKeeps ==
    ASSUME AccessInv, NEW r \in Requests, NEW c \in Customers,
           NEW op \in {"cart", "address", "wishlist"}, NEW request, DataBegin(r, op, c, request),
           op = "cart" => request \in CartRequests,
           op = "address" => request \in AddressRequests,
           op = "wishlist" => request \in WishRequests
    PROVE  AccessInv'
<1> DEFINE view == [cart |-> db.cart, address |-> db.address, wish |-> db.wish, public |-> db.public]
           q == [step |-> op, customer |-> c, request |-> request, view |-> view]
<1>1. Goto(r, q) /\ UNCHANGED <<db, redis, past>>
    BY DEF DataBegin, Start
<1>2. view \in ReadView
    BY DEF AccessInv, AccessTyped, Rows, ReadView
<1>3. Shaped(q)
    BY <1>2 DEF Shaped
<1>4. \A x \in Addresses : db.address[x] # None => db.address[x].version \in Nat
    BY DEF AccessInv, AccessTyped, Rows, AddressRow
<1>5. Informed(q) /\ q.step # "lifecycle"
    BY <1>4 DEF Informed
<1> QED
    BY <1>1, <1>3, <1>5, RequestGoes, KeysKept

\* The holder of the Role lock is the only one, and its checks have just held.
LEMMA LifecycleBegins ==
    ASSUME AccessInv, ~RoleLocked, NEW r \in Requests, NEW q, Goto(r, q), UNCHANGED <<db, redis, past>>,
           q \in [step: {"lifecycle"}, action: Actions, user: Admins \cup Customers,
                  version: 0 .. MaxVersion - 1],
           q.user \in Admins /\ q.action # "reactivate" /\ db.admin[q.user].super =>
               \E b \in Admins \ {q.user} : db.admin[b].super /\ db.admin[b].status = "ACTIVE",
           q.user \in Customers => db.customer[q.user].status \in CustomerStatusFor(q.action)
    PROVE  AccessInv'
<1>1. q.step = "lifecycle" /\ Shaped(q)
    BY DEF Shaped
<1>2. /\ tx' = [p \in Requests |-> tx'[p]]
      /\ \A p \in Requests : tx'[p] # None => Shaped(tx'[p])
      /\ tx'[r] = q
      /\ \A p \in Requests : p # r => tx'[p] = tx[p]
    BY <1>1, GotoTyped DEF AccessInv
<1>3. AccessTyped'
    BY <1>2, KeysKept DEF AccessInv, AccessTyped
<1>4. RequestsInformed'
    <2>1. ASSUME NEW p \in Requests, tx'[p] # None
          PROVE  Informed(tx[p])'
        <3>1. CASE p = r
            BY <1>1, <1>2, <3>1 DEF Informed
        <3>2. CASE p # r
            BY <1>2, <2>1, <3>2 DEF AccessInv, RequestsInformed, Informed
        <3> QED
            BY <3>1, <3>2
    <2> QED
        BY <2>1 DEF RequestsInformed
<1>5. \A p \in Requests : At(p, "lifecycle")' => p = r
    BY <1>2 DEF At, RoleLocked
<1>6. RoleHeld'
    BY <1>2, <1>5 DEF RoleHeld
<1> QED
    BY <1>3, <1>4, <1>6 DEF AccessInv, SuperLeft, StepsBelow, StepsAdvance, AccountsApart, HandedOut,
                            ResetsSpent, ListsApart

LEMMA AdminLifecycleBeginKeeps ==
    ASSUME AccessInv, NEW r \in Requests, NEW actor \in Admins, NEW a \in Admins,
           NEW action \in {"suspend", "reactivate", "anonymize"}, AdminLifecycleBegin(r, actor, a, action)
    PROVE  AccessInv'
<1> DEFINE q == [step |-> "lifecycle", action |-> action, user |-> a, version |-> db.admin[a].version]
<1>1. /\ ~RoleLocked /\ Goto(r, q) /\ UNCHANGED <<db, redis, past>> /\ db.admin[a].version < MaxVersion
      /\ action # "reactivate" => assertAnotherOperationalSuper(a)
    BY DEF AdminLifecycleBegin, AdminChecks, Start
<1>2. db.admin[a].version \in 0 .. MaxVersion
    BY DEF AccessInv, AccessTyped, Rows, AdminRow
<1>3. q \in [step: {"lifecycle"}, action: Actions, user: Admins \cup Customers,
             version: 0 .. MaxVersion - 1]
    BY <1>1, <1>2, AccessAssumption DEF Actions
<1>4. q.user = a /\ q.action = action /\ a \notin Customers
    BY IdsAssumption
<1>5. action # "reactivate" /\ db.admin[a].super =>
          \E b \in Admins \ {a} : db.admin[b].super /\ db.admin[b].status = "ACTIVE"
    BY <1>1 DEF assertAnotherOperationalSuper, Operational
<1> HIDE DEF q
<1> QED
    BY <1>1, <1>3, <1>4, <1>5, LifecycleBegins

LEMMA CustomerLifecycleBeginKeeps ==
    ASSUME AccessInv, NEW r \in Requests, NEW actor \in Admins, NEW c \in Customers,
           NEW action \in Actions, CustomerLifecycleBegin(r, actor, c, action)
    PROVE  AccessInv'
<1> DEFINE q == [step |-> "lifecycle", action |-> action, user |-> c, version |-> db.customer[c].version]
<1>1. /\ ~RoleLocked /\ Goto(r, q) /\ UNCHANGED <<db, redis, past>> /\ db.customer[c].version < MaxVersion
      /\ db.customer[c].status \in CustomerStatusFor(action)
    BY DEF CustomerLifecycleBegin, Start
<1>2. db.customer[c].version \in 0 .. MaxVersion
    BY DEF AccessInv, AccessTyped, Rows, CustomerRow
<1>3. q \in [step: {"lifecycle"}, action: Actions, user: Admins \cup Customers,
             version: 0 .. MaxVersion - 1]
    BY <1>1, <1>2, AccessAssumption
<1>4. q.user = c /\ q.action = action /\ c \notin Admins
    BY IdsAssumption
<1> HIDE DEF q
<1> QED
    BY <1>1, <1>3, <1>4, LifecycleBegins

-----------------------------------------------------------------------------
(* Writes *)

\* A table is written as a whole.
LEMMA RowsWritten ==
    ASSUME NEW rows \in Rows
    PROVE  /\ \A t \in [Admins -> AdminRow] : [rows EXCEPT !.admin = t] \in Rows
           /\ \A t \in [Customers -> CustomerRow] : [rows EXCEPT !.customer = t] \in Rows
           /\ \A t \in SUBSET (Subjects \X Customers) : [rows EXCEPT !.identity = t] \in Rows
           /\ \A t \in [Tokens -> TokenRow \cup {None}] : [rows EXCEPT !.token = t] \in Rows
           /\ \A t \in [Sessions -> SessionRow \cup {None}] : [rows EXCEPT !.session = t] \in Rows
           /\ \A t \in [Carts -> CartRow \cup {None}] : [rows EXCEPT !.cart = t] \in Rows
           /\ \A t \in [Addresses -> AddressRow \cup {None}] : [rows EXCEPT !.address = t] \in Rows
           /\ \A t \in [Customers -> SUBSET Variants] : [rows EXCEPT !.wish = t] \in Rows
           /\ \A t \in SUBSET Variants : [rows EXCEPT !.public = t] \in Rows
BY DEF Rows

\* The administrators change, and perhaps sessions end.
LEMMA AdminsWritten ==
    ASSUME AccessInv, NEW t \in [Admins -> AdminRow], db' = [db EXCEPT !.admin = t]
    PROVE  /\ db' \in Rows /\ db'.admin = t
           /\ UNCHANGED <<db.customer, db.identity, db.token, db.session, db.cart, db.address, db.wish>>
<1>1. db \in Rows
    BY DEF AccessInv, AccessTyped
<1>2. db' \in Rows
    BY <1>1, RowsWritten
<1> QED
    BY <1>1, <1>2 DEF Rows

LEMMA SessionsWritten ==
    ASSUME AccessInv, NEW t \in [Sessions -> SessionRow \cup {None}], db' = [db EXCEPT !.session = t]
    PROVE  /\ db' \in Rows /\ db'.session = t
           /\ UNCHANGED <<db.admin, db.customer, db.identity, db.token, db.cart, db.address, db.wish>>
<1>1. db \in Rows
    BY DEF AccessInv, AccessTyped
<1>2. db' \in Rows
    BY <1>1, RowsWritten
<1> QED
    BY <1>1, <1>2 DEF Rows

LEMMA AddressesWritten ==
    ASSUME AccessInv, NEW t \in [Addresses -> AddressRow \cup {None}], db' = [db EXCEPT !.address = t]
    PROVE  /\ db' \in Rows /\ db'.address = t
           /\ UNCHANGED <<db.admin, db.customer, db.identity, db.token, db.session, db.cart, db.wish>>
<1>1. db \in Rows
    BY DEF AccessInv, AccessTyped
<1>2. db' \in Rows
    BY <1>1, RowsWritten
<1> QED
    BY <1>1, <1>2 DEF Rows

LEMMA PastWritten ==
    ASSUME NEW S, past \in [steps: [Admins -> S], resets: [Tokens -> Nat]],
           NEW a \in Admins, NEW p \in S, past' = [past EXCEPT !.steps[a] = p]
    PROVE  /\ past' \in [steps: [Admins -> S], resets: [Tokens -> Nat]]
           /\ past'.resets = past.resets
           /\ \A b \in Admins : past'.steps[b] = IF b = a THEN p ELSE past.steps[b]
<1>1. [past.steps EXCEPT ![a] = p] \in [Admins -> S]
    OBVIOUS
<1> QED
    BY <1>1

\* What does not look at administrators.
LEMMA AdminsApart ==
    ASSUME AccessInv, AccessTyped',
           UNCHANGED <<db.customer, db.identity, db.token, db.session, db.cart, db.address, db.wish>>,
           past'.resets = past.resets,
           \A r \in Requests : tx'[r] # None => tx'[r] = tx[r] \/ Informed(tx[r])'
    PROVE  RequestsInformed' /\ AccountsApart(db)' /\ HandedOut(db)' /\ ResetsSpent' /\ ListsApart(db)'
<1>1. \A x \in Addresses : db.address[x] # None => db.address[x].version \in Nat
    BY DEF AccessInv, AccessTyped, Rows, AddressRow
<1>2. Evolves
    BY <1>1 DEF Evolves
<1>3. RequestsInformed'
    BY <1>2, InformedKept DEF AccessTyped
<1> QED
    BY <1>3 DEF AccessInv, AccountsApart, HandedOut, ResetsSpent, ListsApart

\* What looks at administrators alone.
LEMMA AdminsKept ==
    ASSUME AccessInv, db'.admin = db.admin, past'.steps = past.steps
    PROVE  SuperLeft(db)' /\ StepsBelow' /\ StepsAdvance'
BY DEF AccessInv, SuperLeft, StepsBelow, StepsAdvance

LEMMA IssueChallengeKeeps ==
    ASSUME AccessInv, NEW r \in Requests, NEW ch \in Challenges, IssueChallenge(r, ch)
    PROVE  AccessInv'
<1> DEFINE u == tx[r].user
           fresh == enrollmentRequired(tx[r].row) /\ ~pendingSecret(tx[r].row)
           x == IF fresh THEN [verified |-> FALSE, last |-> 0] ELSE db.admin[u].secret
           t == [db.admin EXCEPT ![u].secret = x]
           p == IF fresh THEN <<>> ELSE past.steps[u]
<1>1. /\ End(r) /\ tx[r].step = "challenge" /\ u \in Admins
      /\ redis' = [redis EXCEPT !.challenge[ch] = [admin |-> u, attempts |-> 0]]
      /\ db' = [db EXCEPT !.admin = t]
      /\ past' = [past EXCEPT !.steps[u] = p]
    BY DEF IssueChallenge, At, AccessInv, AccessTyped, Shaped
<1>2. x \in [verified: BOOLEAN, last: 0 .. MaxStep] \cup {None} /\ db.admin \in [Admins -> AdminRow]
    BY <1>1, AccessAssumption DEF AccessInv, AccessTyped, Rows, AdminRow
<1>3. /\ t \in [Admins -> AdminRow]
      /\ \A a \in Admins : a # u => t[a] = db.admin[a]
      /\ t[u].status = db.admin[u].status /\ t[u].super = db.admin[u].super /\ t[u].secret = x
    BY <1>1, <1>2 DEF AdminRow
<1>4. p \in Seq(1 .. MaxStep)
    <2>1. past.steps[u] \in Seq(1 .. MaxStep)
        BY <1>1 DEF AccessInv, AccessTyped
    <2> QED
        BY <2>1, EmptySeq
<1> HIDE DEF t
<1>5. /\ db' \in Rows /\ db'.admin = t
      /\ UNCHANGED <<db.customer, db.identity, db.token, db.session, db.cart, db.address, db.wish>>
    BY <1>1, <1>3, AdminsWritten
<1> HIDE DEF p
<1>6. /\ past' \in [steps: [Admins -> Seq(1 .. MaxStep)], resets: [Tokens -> Nat]]
      /\ past'.resets = past.resets
      /\ \A b \in Admins : past'.steps[b] = IF b = u THEN p ELSE past.steps[b]
    BY <1>1, <1>4, PastWritten DEF AccessInv, AccessTyped
<1>7. /\ tx' = [q \in Requests |-> tx'[q]]
      /\ \A q \in Requests : tx'[q] # None => Shaped(tx'[q])
      /\ \A q \in Requests : tx'[q] # None => tx'[q] = tx[q]
    BY <1>1, EndTyped DEF AccessInv
<1>8. KeysTyped'
    <2>1. [admin |-> u, attempts |-> 0] \in [admin: Admins, attempts: 0 .. MaxAttempts]
        BY <1>1, AccessAssumption
    <2> QED
        BY <1>1, <2>1, ChallengeWritten DEF AccessInv, AccessTyped
<1>9. AccessTyped'
    BY <1>5, <1>6, <1>7, <1>8 DEF AccessTyped
<1>10. RequestsInformed' /\ AccountsApart(db)' /\ HandedOut(db)' /\ ResetsSpent' /\ ListsApart(db)'
    BY <1>5, <1>6, <1>7, <1>9, AdminsApart
<1>11. \A a \in Admins : db'.admin[a].super = db.admin[a].super /\ db'.admin[a].status = db.admin[a].status
    BY <1>3, <1>5
<1>12. RoleHeld'
    BY <1>5, <1>7, <1>11, RoleKept DEF At
<1>13. SuperLeft(db)'
    BY <1>11 DEF AccessInv, SuperLeft
<1>14. StepsBelow' /\ StepsAdvance'
    <2>1. CASE fresh
        <3>1. x.last = 0 /\ p = <<>> /\ Len(p) = 0
            BY <2>1 DEF p
        <3>2. \A a \in Admins : a # u => past'.steps[a] = past.steps[a] /\ db'.admin[a] = db.admin[a]
            BY <1>3, <1>5, <1>6
        <3>3. Len(past'.steps[u]) = 0
            BY <1>1, <1>6, <3>1
        <3> QED
            BY <3>2, <3>3 DEF AccessInv, StepsBelow, StepsAdvance
    <2>2. CASE ~fresh
        BY <1>3, <1>5, <1>6, <2>2 DEF p, AccessInv, StepsBelow, StepsAdvance
    <2> QED
        BY <2>1, <2>2
<1> QED
    BY <1>9, <1>10, <1>12, <1>13, <1>14 DEF AccessInv

\* Appending a code that is after every code used keeps them in order.
LEMMA CodeAppended ==
    ASSUME NEW s \in Seq(1 .. MaxStep), NEW code \in 1 .. MaxStep, NEW last \in 0 .. MaxStep,
           \A i \in 1 .. Len(s) : s[i] <= last,
           \A i \in 2 .. Len(s) : s[i - 1] < s[i],
           last < code
    PROVE  /\ Append(s, code) \in Seq(1 .. MaxStep)
           /\ \A i \in 1 .. Len(Append(s, code)) : Append(s, code)[i] <= code
           /\ \A i \in 2 .. Len(Append(s, code)) : Append(s, code)[i - 1] < Append(s, code)[i]
<1> DEFINE p == Append(s, code)
           n == Len(s)
<1>1. /\ p \in Seq(1 .. MaxStep) /\ Len(p) = n + 1 /\ p[n + 1] = code
      /\ \A i \in 1 .. n : p[i] = s[i]
    BY AppendProperties
<1>2. n \in Nat
    BY LenProperties
<1>3. \A i \in 1 .. n : s[i] \in 1 .. MaxStep
    BY ElementOfSeq
<1> HIDE DEF p, n
<1>4. \A i \in 1 .. n : s[i] < code
    BY <1>3, AccessAssumption DEF n
<1>5. ASSUME NEW i \in 1 .. n + 1
      PROVE  p[i] <= code
    <2>1. CASE i = n + 1
        BY <1>1, <2>1
    <2>2. CASE i # n + 1
        <3>1. i \in 1 .. n
            BY <1>2, <2>2
        <3>2. p[i] = s[i] /\ s[i] < code /\ s[i] \in Int
            BY <1>1, <1>3, <1>4, <3>1
        <3> QED
            BY <3>2
    <2> QED
        BY <2>1, <2>2
<1>6. ASSUME NEW i \in 2 .. n + 1
      PROVE  p[i - 1] < p[i]
    <2>1. CASE i = n + 1
        <3>1. i - 1 = n /\ n \in 1 .. n
            BY <1>2, <2>1
        <3> QED
            BY <1>1, <1>4, <2>1, <3>1
    <2>2. CASE i # n + 1
        <3>1. i \in 2 .. n /\ i \in 1 .. n /\ i - 1 \in 1 .. n
            BY <1>2, <2>2
        <3> QED
            BY <1>1, <3>1 DEF n
    <2> QED
        BY <2>1, <2>2
<1> QED
    BY <1>1, <1>5, <1>6 DEF p

\* The step that is advanced to comes after every step used with this secret.
LEMMA AdvanceStepKeeps ==
    ASSUME AccessInv, NEW r \in Requests, AdvanceStep(r)
    PROVE  AccessInv'
<1> DEFINE u == tx[r].user
           code == tx[r].code
           x == [verified |-> TRUE, last |-> code]
           t == [db.admin EXCEPT ![u] = [db.admin[u] EXCEPT !.secret = x, !.enrol = FALSE]]
           p == Append(past.steps[u], code)
           q == [step |-> "issue", user |-> u]
<1>1. /\ u \in Admins /\ code \in 1 .. MaxStep /\ tx[r].ch \in Challenges /\ KeysTyped
      /\ u \notin Customers /\ past.steps[u] \in Seq(1 .. MaxStep)
    BY IdsAssumption DEF AdvanceStep, At, AccessInv, AccessTyped, Shaped
<1>2. CASE /\ db.admin[u].secret # None /\ db.admin[u].secret.last < code
           /\ db' = [db EXCEPT !.admin[u].secret = x, !.admin[u].enrol = FALSE]
           /\ past' = [past EXCEPT !.steps[u] = p]
           /\ redis' = [redis EXCEPT !.challenge[tx[r].ch] = None]
           /\ Goto(r, q)
    <2>1. /\ db.admin \in [Admins -> AdminRow] /\ db.admin[u] \in AdminRow
          /\ x \in [verified: BOOLEAN, last: 0 .. MaxStep]
        BY <1>1, AccessAssumption DEF AccessInv, AccessTyped, Rows
    <2>2. /\ [db.admin[u] EXCEPT !.secret = x, !.enrol = FALSE] \in AdminRow
          /\ [db.admin[u] EXCEPT !.secret = x, !.enrol = FALSE].status = db.admin[u].status
          /\ [db.admin[u] EXCEPT !.secret = x, !.enrol = FALSE].super = db.admin[u].super
          /\ [db.admin[u] EXCEPT !.secret = x, !.enrol = FALSE].secret = x
        BY <2>1 DEF AdminRow
    <2>3. /\ t \in [Admins -> AdminRow]
          /\ \A a \in Admins : a # u => t[a] = db.admin[a]
          /\ t[u].status = db.admin[u].status /\ t[u].super = db.admin[u].super /\ t[u].secret = x
        BY <1>1, <2>1, <2>2
    <2>4. db' = [db EXCEPT !.admin = t]
        BY <1>1, <1>2, <2>1 DEF AccessInv, AccessTyped, Rows
    <2>5. /\ p \in Seq(1 .. MaxStep)
          /\ \A i \in 1 .. Len(p) : p[i] <= code
          /\ \A i \in 2 .. Len(p) : p[i - 1] < p[i]
        <3>1. db.admin[u].secret.last \in 0 .. MaxStep
            BY <1>1, <1>2, <2>1 DEF AdminRow
        <3>2. /\ \A i \in 1 .. Len(past.steps[u]) : past.steps[u][i] <= db.admin[u].secret.last
              /\ \A i \in 2 .. Len(past.steps[u]) : past.steps[u][i - 1] < past.steps[u][i]
            BY <1>1, <1>2 DEF AccessInv, StepsBelow, StepsAdvance
        <3> QED
            BY <1>1, <1>2, <3>1, <3>2, CodeAppended
    <2> HIDE DEF t, p, x
    <2>6. /\ db' \in Rows /\ db'.admin = t
          /\ UNCHANGED <<db.customer, db.identity, db.token, db.session, db.cart, db.address, db.wish>>
        BY <2>3, <2>4, AdminsWritten
    <2>7. /\ past' \in [steps: [Admins -> Seq(1 .. MaxStep)], resets: [Tokens -> Nat]]
          /\ past'.resets = past.resets
          /\ \A b \in Admins : past'.steps[b] = IF b = u THEN p ELSE past.steps[b]
        BY <1>1, <1>2, <2>5, PastWritten DEF AccessInv, AccessTyped
    <2>8. Shaped(q) /\ q.step # "lifecycle" /\ q.user \notin Customers /\ q.step = "issue"
        BY <1>1 DEF Shaped
    <2>9. /\ tx' = [o \in Requests |-> tx'[o]]
          /\ \A o \in Requests : tx'[o] # None => Shaped(tx'[o])
          /\ tx'[r] = q
          /\ \A o \in Requests : o # r => tx'[o] = tx[o]
        BY <1>2, <2>8, GotoTyped DEF AccessInv
    <2>10. KeysTyped'
        BY <1>1, <1>2, ChallengeWritten
    <2>11. AccessTyped'
        BY <2>6, <2>7, <2>9, <2>10 DEF AccessTyped
    <2>12. Informed(tx[r])'
        BY <2>8, <2>9 DEF Informed
    <2>13. RequestsInformed' /\ AccountsApart(db)' /\ HandedOut(db)' /\ ResetsSpent' /\ ListsApart(db)'
        BY <2>6, <2>7, <2>9, <2>11, <2>12, AdminsApart
    <2>14. \A a \in Admins : db'.admin[a].super = db.admin[a].super /\ db'.admin[a].status = db.admin[a].status
        BY <2>3, <2>6
    <2>15. \A o \in Requests : At(o, "lifecycle")' => tx'[o] = tx[o]
        BY <2>8, <2>9 DEF At
    <2>16. RoleHeld'
        BY <2>6, <2>14, <2>15, RoleKept
    <2>17. SuperLeft(db)'
        BY <2>14 DEF AccessInv, SuperLeft
    <2>18. StepsBelow'
        <3>1. t[u].secret.last = code
            BY <2>3 DEF x
        <3> QED
            BY <1>1, <2>3, <2>5, <2>6, <2>7, <3>1 DEF AccessInv, StepsBelow
    <2>19. StepsAdvance'
        BY <2>5, <2>7 DEF AccessInv, StepsAdvance
    <2> QED
        BY <2>11, <2>13, <2>16, <2>17, <2>18, <2>19 DEF AccessInv
<1>3. CASE /\ redis' = [redis EXCEPT !.challengeLock = Unlocked(@, r)]
           /\ End(r) /\ UNCHANGED <<db, past>>
    BY <1>1, <1>3, LocksReleased, RequestEnds
<1> QED
    BY <1>2, <1>3 DEF AdvanceStep

\* An account is made, or given the role, while no account is being changed.
LEMMA RowLocked ==
    ASSUME AccessInv, ~RoleLocked, UNCHANGED <<redis, tx, past>>,
           NEW a \in Admins, NEW row \in AdminRow, db' = [db EXCEPT !.admin[a] = row],
           row.status = "ACTIVE",
           row.super = TRUE \/ db.admin[a].status # "ACTIVE",
           row.secret # None => row.secret = db.admin[a].secret
    PROVE  AccessInv'
<1> DEFINE t == [db.admin EXCEPT ![a] = row]
<1>1. /\ t \in [Admins -> AdminRow] /\ t[a] = row
      /\ \A b \in Admins : b # a => t[b] = db.admin[b]
    BY DEF AccessInv, AccessTyped, Rows
<1> HIDE DEF t
<1>2. /\ db' \in Rows /\ db'.admin = t
      /\ UNCHANGED <<db.customer, db.identity, db.token, db.session, db.cart, db.address, db.wish>>
    BY <1>1, AdminsWritten DEF t
<1>3. AccessTyped'
    BY <1>2, KeysKept DEF AccessInv, AccessTyped
<1>4. RequestsInformed' /\ AccountsApart(db)' /\ HandedOut(db)' /\ ResetsSpent' /\ ListsApart(db)'
    BY <1>2, <1>3, AdminsApart
<1>5. RoleHeld'
    BY DEF RoleHeld, RoleLocked, At
<1>6. SuperLeft(db)'
    <2>1. CASE row.super = TRUE
        BY <1>1, <1>2, <2>1 DEF SuperLeft
    <2>2. CASE row.super # TRUE
        <3>1. row.super = FALSE
            BY <2>2 DEF AdminRow
        <3> QED
            BY <1>1, <1>2, <2>2, <3>1 DEF AccessInv, SuperLeft
    <2> QED
        BY <2>1, <2>2
<1>7. StepsBelow' /\ StepsAdvance'
    BY <1>1, <1>2 DEF AccessInv, StepsBelow, StepsAdvance
<1> QED
    BY <1>3, <1>4, <1>5, <1>6, <1>7 DEF AccessInv

LEMMA NewAdminType == \A super \in BOOLEAN :
    /\ NewAdmin(super) \in AdminRow /\ NewAdmin(super).status = "ACTIVE"
    /\ NewAdmin(super).super = super /\ NewAdmin(super).secret = None
BY AccessAssumption DEF NewAdmin, AdminRow, UserStatus

LEMMA BootstrapKeeps ==
    ASSUME AccessInv, NEW a \in Admins, Bootstrap(a)
    PROVE  AccessInv'
<1>1. /\ NewAdmin(TRUE) \in AdminRow /\ NewAdmin(TRUE).status = "ACTIVE"
      /\ NewAdmin(TRUE).super = TRUE /\ NewAdmin(TRUE).secret = None
    BY NewAdminType
<1>2. ~RoleLocked /\ UNCHANGED <<redis, tx, past>> /\ db' = [db EXCEPT !.admin[a] = NewAdmin(TRUE)]
    BY DEF Bootstrap
<1> QED
    BY <1>1, <1>2, RowLocked

LEMMA CreateAdminKeeps ==
    ASSUME AccessInv, NEW actor \in Admins, NEW a \in Admins, CreateAdmin(actor, a)
    PROVE  AccessInv'
<1>1. /\ NewAdmin(FALSE) \in AdminRow /\ NewAdmin(FALSE).status = "ACTIVE"
      /\ NewAdmin(FALSE).secret = None
    BY NewAdminType
<1>2. /\ ~RoleLocked /\ UNCHANGED <<redis, tx, past>> /\ db.admin[a].status # "ACTIVE"
      /\ db' = [db EXCEPT !.admin[a] = NewAdmin(FALSE)]
    BY DEF CreateAdmin
<1> QED
    BY <1>1, <1>2, RowLocked

LEMMA AssignSuperKeeps ==
    ASSUME AccessInv, NEW a \in Admins, AssignSuper(a)
    PROVE  AccessInv'
<1> DEFINE row == [db.admin[a] EXCEPT !.super = TRUE]
<1>1. db.admin[a] \in AdminRow
    BY DEF AccessInv, AccessTyped, Rows
<1>2. /\ row \in AdminRow /\ row.super = TRUE /\ row.status = db.admin[a].status
      /\ row.secret = db.admin[a].secret
    BY <1>1 DEF AdminRow
<1>3. /\ db' = [db EXCEPT !.admin[a] = row] /\ db.admin[a].status = "ACTIVE"
      /\ ~RoleLocked /\ UNCHANGED <<redis, tx, past>>
    BY DEF AssignSuper
<1> HIDE DEF row
<1> QED
    BY <1>2, <1>3, RowLocked

-----------------------------------------------------------------------------
(* Sessions *)

\* Sessions end, and none becomes good again.
LEMMA EndedSessions ==
    ASSUME AccessInv, NEW S, NEW status \in {"REVOKED", "EXPIRED"}
    PROVE  /\ Ended(S, status) \in [Sessions -> SessionRow \cup {None}]
           /\ \A s \in Sessions :
                Ended(S, status)[s] # None /\ Ended(S, status)[s].status = "ACTIVE" =>
                    Ended(S, status)[s] = db.session[s] /\ (s \in S => ~Active(s))
<1>1. db.session \in [Sessions -> SessionRow \cup {None}]
    BY DEF AccessInv, AccessTyped, Rows
<1>2. ASSUME NEW s \in Sessions, Active(s)
      PROVE  /\ [db.session[s] EXCEPT !.status = status] \in SessionRow
             /\ [db.session[s] EXCEPT !.status = status].status # "ACTIVE"
    BY <1>1, <1>2 DEF Active, SessionRow
<1> QED
    BY <1>1, <1>2 DEF Ended

LEMMA ResolveKeeps ==
    ASSUME AccessInv, NEW S, NEW status \in {"REVOKED", "EXPIRED"},
           db' = [db EXCEPT !.session = Ended(S, status)], UNCHANGED <<redis, tx, past>>
    PROVE  AccessInv'
<1> DEFINE t == Ended(S, status)
<1>1. /\ t \in [Sessions -> SessionRow \cup {None}]
      /\ \A s \in Sessions : t[s] # None /\ t[s].status = "ACTIVE" => t[s] = db.session[s]
    BY EndedSessions
<1> HIDE DEF t
<1>2. /\ db' \in Rows /\ db'.session = t
      /\ UNCHANGED <<db.admin, db.customer, db.identity, db.token, db.cart, db.address, db.wish>>
    BY <1>1, SessionsWritten DEF t
<1>3. AccessTyped'
    BY <1>2, KeysKept DEF AccessInv, AccessTyped
<1>4. \A x \in Addresses : db.address[x] # None => db.address[x].version \in Nat
    BY DEF AccessInv, AccessTyped, Rows, AddressRow
<1>5. Evolves
    BY <1>2, <1>4 DEF Evolves
<1>6. RequestsInformed'
    BY <1>2, <1>5, InformedKept
<1>7. RoleHeld'
    BY <1>2, RoleKept
<1>8. HandedOut(db)' /\ ResetsSpent'
    BY <1>1, <1>2 DEF AccessInv, HandedOut, ResetsSpent
<1>9. AccountsApart(db)' /\ ListsApart(db)'
    BY <1>2 DEF AccessInv, AccountsApart, ListsApart
<1> QED
    BY <1>2, <1>3, <1>6, <1>7, <1>8, <1>9, AdminsKept DEF AccessInv

\* A session is issued to an account that exists, under its password of now.
LEMMA IssueKeeps ==
    ASSUME AccessInv, NEW r \in Requests, NEW s \in Sessions, NEW previous, Issue(r, s, previous)
    PROVE  AccessInv'
<1> DEFINE u == tx[r].user
           row == [user |-> u, status |-> "ACTIVE", password |-> PasswordOf(u)]
           e == Ended({previous}, "REVOKED")
           t == [e EXCEPT ![s] = row]
<1>1. /\ u \in Admins \cup Customers /\ End(r) /\ past' = past
      /\ redis' = [redis EXCEPT !.challengeLock = Unlocked(@, r)]
      /\ db' = [db EXCEPT !.session = t]
      /\ u \in Customers => db.customer[u].status # "NONE"
    BY DEF Issue, At, AccessInv, AccessTyped, Shaped, RequestsInformed, Informed
<1>2. row \in SessionRow
    BY <1>1 DEF SessionRow, PasswordOf, AccessInv, AccessTyped, Rows, CustomerRow
<1>3. /\ e \in [Sessions -> SessionRow \cup {None}]
      /\ \A p \in Sessions : e[p] # None /\ e[p].status = "ACTIVE" => e[p] = db.session[p]
    BY EndedSessions
<1> HIDE DEF e, row
<1>4. /\ t \in [Sessions -> SessionRow \cup {None}] /\ t[s] = row
      /\ \A p \in Sessions : p # s => t[p] = e[p]
    BY <1>2, <1>3
<1> HIDE DEF t
<1>5. /\ db' \in Rows /\ db'.session = t
      /\ UNCHANGED <<db.admin, db.customer, db.identity, db.token, db.cart, db.address, db.wish>>
    BY <1>1, <1>4, SessionsWritten
<1>6. /\ tx' = [q \in Requests |-> tx'[q]]
      /\ \A q \in Requests : tx'[q] # None => Shaped(tx'[q])
      /\ \A q \in Requests : tx'[q] # None => tx'[q] = tx[q]
    BY <1>1, EndTyped DEF AccessInv
<1>7. AccessTyped'
    BY <1>1, <1>5, <1>6, LocksReleased DEF AccessInv, AccessTyped
<1>8. \A x \in Addresses : db.address[x] # None => db.address[x].version \in Nat
    BY DEF AccessInv, AccessTyped, Rows, AddressRow
<1>9. Evolves
    BY <1>5, <1>8 DEF Evolves
<1>10. RequestsInformed'
    BY <1>5, <1>6, <1>9, InformedKept
<1>11. RoleHeld'
    BY <1>5, <1>6, RoleKept DEF At
<1>12. /\ row.user = u
       /\ IF u \in Admins THEN row.password = 0 ELSE row.password = db.customer[u].password
    BY DEF row, PasswordOf
<1>13. HandedOut(db)'
    <2>1. ASSUME NEW p \in Sessions, t[p] # None, t[p].status = "ACTIVE"
          PROVE  IF t[p].user \in Admins THEN t[p].password = 0
                 ELSE /\ t[p].password = db.customer[t[p].user].password
                      /\ db.customer[t[p].user].status # "NONE"
        <3>1. CASE p = s
            BY <1>1, <1>4, <1>12, <3>1
        <3>2. CASE p # s
            BY <1>3, <1>4, <2>1, <3>2 DEF AccessInv, HandedOut
        <3> QED
            BY <3>1, <3>2
    <2> QED
        BY <1>5, <2>1 DEF AccessInv, HandedOut
<1>14. ResetsSpent' /\ AccountsApart(db)' /\ ListsApart(db)'
    <2>1. ResetsSpent'
        BY <1>1, <1>5 DEF AccessInv, ResetsSpent
    <2>2. AccountsApart(db)'
        BY <1>5 DEF AccessInv, AccountsApart
    <2>3. ListsApart(db)'
        BY <1>5 DEF AccessInv, ListsApart
    <2> QED
        BY <2>1, <2>2, <2>3
<1> QED
    BY <1>1, <1>5, <1>7, <1>10, <1>11, <1>13, <1>14, AdminsKept DEF AccessInv

-----------------------------------------------------------------------------
(* The lifecycle of administrators *)

\* No other request holds the Role lock.
LEMMA RoleReleased ==
    ASSUME AccessInv, NEW r \in Requests, At(r, "lifecycle"), End(r)
    PROVE  RoleHeld'
<1>1. tx'[r] = None /\ \A p \in Requests : p # r => tx'[p] = tx[p]
    BY EndTyped DEF AccessInv
<1>2. \A p \in Requests : p # r => ~At(p, "lifecycle")
    BY DEF AccessInv, RoleHeld
<1>3. \A p \in Requests : ~At(p, "lifecycle")'
    BY <1>1, <1>2 DEF At
<1> QED
    BY <1>3 DEF RoleHeld

\* Another super-administrator is ACTIVE when one loses its access.
LEMMA AdminLifecycleCommitKeeps ==
    ASSUME AccessInv, NEW r \in Requests, AdminLifecycleCommit(r)
    PROVE  AccessInv'
<1> DEFINE a == tx[r].user
           action == tx[r].action
           old == db.admin[a]
           row == [old EXCEPT !.status = LifecycleStatus(action),
                              !.super = @ /\ action # "anonymize",
                              !.enrol = @ \/ action = "anonymize",
                              !.secret = IF action = "anonymize" THEN None ELSE @,
                              !.version = @ + 1]
           t == [db.admin EXCEPT ![a] = row]
           e == IF action = "reactivate" THEN db.session ELSE Ended(SessionsOf(a), "REVOKED")
<1>1. /\ At(r, "lifecycle") /\ a \in Admins /\ action \in Actions /\ tx[r].version \in 0 .. MaxVersion - 1
      /\ End(r) /\ UNCHANGED <<redis, past>>
    BY DEF AdminLifecycleCommit, At, AccessInv, AccessTyped, Shaped
<1>2. CASE UNCHANGED db
    BY <1>1, <1>2, RequestEnds, KeysKept
<1>3. CASE /\ old.version = tx[r].version
           /\ db' = [db EXCEPT !.admin = t, !.session = e]
    <2>1. old \in AdminRow /\ db.admin \in [Admins -> AdminRow] /\ db \in Rows
        BY <1>1 DEF AccessInv, AccessTyped, Rows
    <2>2. LifecycleStatus(action) \in UserStatus /\ (action = "reactivate" <=> LifecycleStatus(action) = "ACTIVE")
        BY <1>1 DEF LifecycleStatus, Actions, UserStatus
    <2>3. old.version + 1 \in 0 .. MaxVersion
        BY <1>1, <1>3, AccessAssumption
    <2>4. /\ row \in AdminRow
          /\ row.status = LifecycleStatus(action)
          /\ row.super = (old.super /\ action # "anonymize")
          /\ row.secret = (IF action = "anonymize" THEN None ELSE old.secret)
        BY <2>1, <2>2, <2>3 DEF AdminRow
    <2>5. /\ t \in [Admins -> AdminRow] /\ t[a] = row
          /\ \A b \in Admins : b # a => t[b] = db.admin[b]
        BY <1>1, <2>1, <2>4
    <2>6. /\ e \in [Sessions -> SessionRow \cup {None}]
          /\ \A s \in Sessions : e[s] # None /\ e[s].status = "ACTIVE" => e[s] = db.session[s]
        BY <2>1, EndedSessions DEF Rows
    <2> HIDE DEF t, e, row
    <2>7. /\ db' \in Rows /\ db'.admin = t /\ db'.session = e
          /\ UNCHANGED <<db.customer, db.identity, db.token, db.cart, db.address, db.wish>>
        <3>1. [db EXCEPT !.admin = t] \in Rows
            BY <2>1, <2>5, RowsWritten
        <3>2. [[db EXCEPT !.admin = t] EXCEPT !.session = e] \in Rows
            BY <2>6, <3>1, RowsWritten
        <3> QED
            BY <1>3, <2>1, <3>2 DEF Rows
    <2>8. /\ tx' = [q \in Requests |-> tx'[q]]
          /\ \A q \in Requests : tx'[q] # None => Shaped(tx'[q])
          /\ \A q \in Requests : tx'[q] # None => tx'[q] = tx[q]
        BY <1>1, EndTyped DEF AccessInv
    <2>9. AccessTyped'
        BY <1>1, <2>7, <2>8, KeysKept DEF AccessInv, AccessTyped
    <2>10. \A x \in Addresses : db.address[x] # None => db.address[x].version \in Nat
        BY <2>1 DEF Rows, AddressRow
    <2>11. RequestsInformed'
        <3>1. Evolves
            BY <2>7, <2>10 DEF Evolves
        <3> QED
            BY <2>7, <2>8, <3>1, InformedKept
    <2>12. RoleHeld'
        BY <1>1, RoleReleased
    <2>13. SuperLeft(db)'
        <3> SUFFICES ASSUME NEW b \in Admins, db'.admin[b].super
                     PROVE  \E c \in Admins : db'.admin[c].super /\ db'.admin[c].status = "ACTIVE"
            BY DEF SuperLeft
        <3>1. db.admin[b].super
            BY <2>1, <2>4, <2>5, <2>7
        <3>2. PICK c \in Admins : db.admin[c].super /\ db.admin[c].status = "ACTIVE"
            BY <3>1 DEF AccessInv, SuperLeft
        <3>3. CASE c # a
            BY <2>5, <2>7, <3>2, <3>3
        <3>4. CASE c = a /\ action = "reactivate"
            <4>1. row.status = "ACTIVE" /\ row.super
                BY <2>2, <2>4, <3>2, <3>4
            <4> QED
                BY <1>1, <2>5, <2>7, <4>1
        <3>5. CASE c = a /\ action # "reactivate"
            <4>1. PICK d \in Admins \ {a} : db.admin[d].super /\ db.admin[d].status = "ACTIVE"
                BY <1>1, <3>2, <3>5 DEF AccessInv, RoleHeld
            <4> QED
                BY <2>5, <2>7, <4>1
        <3> QED
            BY <3>3, <3>4, <3>5
    <2>14. StepsBelow' /\ StepsAdvance'
        <3>1. \A b \in Admins : db'.admin[b].secret # None => db'.admin[b].secret = db.admin[b].secret
            BY <2>4, <2>5, <2>7
        <3> QED
            BY <1>1, <3>1 DEF AccessInv, StepsBelow, StepsAdvance
    <2>15. HandedOut(db)' /\ ResetsSpent'
        BY <1>1, <2>6, <2>7 DEF AccessInv, HandedOut, ResetsSpent
    <2>16. AccountsApart(db)' /\ ListsApart(db)'
        BY <2>7 DEF AccessInv, AccountsApart, ListsApart
    <2> QED
        BY <2>9, <2>11, <2>12, <2>13, <2>14, <2>15, <2>16 DEF AccessInv
<1> QED
    BY <1>2, <1>3 DEF AdminLifecycleCommit

-----------------------------------------------------------------------------
(* Customers *)

\* What does not look at tokens, sessions and addresses, when customers that
\* exist keep their status.
LEMMA StatusesKept ==
    ASSUME AccessInv, AccessTyped', db'.admin = db.admin, past'.steps = past.steps,
           UNCHANGED <<db.cart, db.address, db.wish>>,
           \A c \in Customers : db.customer[c].status # "NONE" =>
                                    db'.customer[c].status = db.customer[c].status,
           \A r \in Requests : tx'[r] # None => tx'[r] = tx[r] \/ Informed(tx[r])',
           \A r \in Requests : At(r, "lifecycle")' => tx'[r] = tx[r]
    PROVE  /\ RequestsInformed' /\ RoleHeld' /\ SuperLeft(db)' /\ StepsBelow' /\ StepsAdvance'
           /\ ListsApart(db)'
<1>1. \A x \in Addresses : db.address[x] # None => db.address[x].version \in Nat
    BY DEF AccessInv, AccessTyped, Rows, AddressRow
<1>2. Evolves
    BY <1>1 DEF Evolves
<1>3. RequestsInformed'
    BY <1>2, InformedKept DEF AccessTyped
<1>4. RoleHeld'
    BY RoleKept
<1>5. ListsApart(db)'
    BY DEF AccessInv, ListsApart
<1> QED
    BY <1>3, <1>4, <1>5, AdminsKept

\* An account is made under the unique address and subject.
LEMMA AccountMade ==
    ASSUME AccessInv, KeysTyped', past' = past,
           NEW c \in Customers, db.customer[c].status = "NONE",
           NEW row, row.status = "ACTIVE", row.email \in Emails, WithEmail(row.email) = {},
           db' \in Rows,
           UNCHANGED <<db.admin, db.token, db.session, db.cart, db.address, db.wish>>,
           db'.customer = [db.customer EXCEPT ![c] = row],
           row.password # 0 => db'.identity = db.identity,
           row.password = 0 => \E g \in Subjects : /\ CustomersOf(g) = {}
                                               /\ db'.identity = db.identity \cup {<<g, c>>},
           NEW r \in Requests, NEW q, Goto(r, q), Shaped(q), q.step \in {"issue", "finish"}, q.user = c
    PROVE  AccessInv'
<1>1. /\ db'.customer[c] = row
      /\ \A d \in Customers : d # c => db'.customer[d] = db.customer[d]
    BY DEF AccessInv, AccessTyped, Rows
<1> DEFINE e == row.email
<1>2. row.status = "ACTIVE" /\ row.email = e
    OBVIOUS
<1>3. /\ tx' = [p \in Requests |-> tx'[p]]
      /\ \A p \in Requests : tx'[p] # None => Shaped(tx'[p])
      /\ tx'[r] = q
      /\ \A p \in Requests : p # r => tx'[p] = tx[p]
    BY GotoTyped DEF AccessInv
<1>4. AccessTyped'
    BY <1>3 DEF AccessInv, AccessTyped
<1>5. Informed(tx[r])'
    BY <1>1, <1>2, <1>3 DEF Informed
<1>6. /\ RequestsInformed' /\ RoleHeld' /\ SuperLeft(db)' /\ StepsBelow' /\ StepsAdvance'
      /\ ListsApart(db)'
    <2>1. \A d \in Customers : db.customer[d].status # "NONE" =>
              db'.customer[d].status = db.customer[d].status
        BY <1>1
    <2>2. \A p \in Requests : At(p, "lifecycle")' => tx'[p] = tx[p]
        BY <1>3 DEF At
    <2> QED
        BY <1>3, <1>4, <1>5, <2>1, <2>2, StatusesKept
<1>7. HandedOut(db)' /\ ResetsSpent'
    <2>1. \A t \in Tokens : db.token[t] # None => db.token[t].user \in Customers
        BY DEF AccessInv, AccessTyped, Rows, TokenRow
    <2>2. \A s \in Sessions : db.session[s] # None => db.session[s].user \in Admins \cup Customers
        BY DEF AccessInv, AccessTyped, Rows, SessionRow
    <2>3. HandedOut(db)'
        BY <1>1, <2>1, <2>2 DEF AccessInv, HandedOut
    <2>4. ResetsSpent'
        BY DEF AccessInv, ResetsSpent
    <2> QED
        BY <2>3, <2>4
<1>8. AccountsApart(db)'
    <2>1. \A d \in Customers : db.customer[d].email # e
        BY DEF WithEmail
    <2>2. \A i \in db.identity : i[2] \in Customers /\ i[2] # c /\ i = <<i[1], i[2]>>
        BY DEF AccessInv, AccessTyped, Rows, AccountsApart
    <2>3. ASSUME NEW d1 \in Customers, NEW d2 \in Customers, db'.customer[d1].email = db'.customer[d2].email
          PROVE  d1 = d2 \/ db'.customer[d1].email = None
        BY <1>1, <1>2, <2>1, <2>3 DEF AccessInv, AccountsApart
    <2>4. CASE row.password # 0
        <3>1. db'.identity = db.identity
            BY <2>4
        <3>2. \A i \in db'.identity : db'.customer[i[2]].status # "NONE"
            BY <1>1, <2>2, <3>1 DEF AccessInv, AccountsApart
        <3>3. \A d \in Customers :
                db'.customer[d].status \notin {"NONE", "ANONYMIZED"} /\ db'.customer[d].password = 0 =>
                    \E g \in Subjects : <<g, d>> \in db'.identity
            BY <1>1, <1>2, <2>4, <3>1 DEF AccessInv, AccountsApart
        <3>4. \A i, j \in db'.identity : i[1] = j[1] \/ i[2] = j[2] => i = j
            BY <3>1 DEF AccessInv, AccountsApart
        <3> QED
            BY <2>3, <3>2, <3>3, <3>4 DEF AccountsApart
    <2>5. CASE row.password = 0
        <3>1. PICK g \in Subjects : CustomersOf(g) = {} /\ db'.identity = db.identity \cup {<<g, c>>}
            BY <2>5
        <3>2. \A i \in db.identity : i[1] # g
            BY <2>2, <3>1, IdentityTypes DEF AccessInv, AccessTyped
        <3>3. \A i \in db'.identity : db'.customer[i[2]].status # "NONE"
            BY <1>1, <1>2, <2>2, <3>1 DEF AccessInv, AccountsApart
        <3>4. \A d \in Customers :
                db'.customer[d].status \notin {"NONE", "ANONYMIZED"} /\ db'.customer[d].password = 0 =>
                    \E h \in Subjects : <<h, d>> \in db'.identity
            BY <1>1, <1>2, <2>5, <3>1 DEF AccessInv, AccountsApart
        <3>5. \A i, j \in db'.identity : i[1] = j[1] \/ i[2] = j[2] => i = j
            BY <2>2, <3>1, <3>2 DEF AccessInv, AccountsApart
        <3> QED
            BY <2>3, <3>3, <3>4, <3>5 DEF AccountsApart
    <2> QED
        BY <2>4, <2>5
<1> QED
    BY <1>4, <1>6, <1>7, <1>8 DEF AccessInv

LEMMA NewCustomerType ==
    \A e \in Emails : \A password \in {0, 1} :
        /\ NewCustomer(e, password) \in CustomerRow /\ NewCustomer(e, password).status = "ACTIVE"
        /\ NewCustomer(e, password).email = e /\ NewCustomer(e, password).password = password
BY AccessAssumption DEF NewCustomer, CustomerRow, UserStatus

LEMMA RegisterKeeps ==
    ASSUME AccessInv, NEW r \in Requests, NEW c \in Customers, Register(r, c)
    PROVE  AccessInv'
<1> DEFINE e == tx[r].email
           q == [step |-> "issue", user |-> c]
           row == NewCustomer(e, 1)
           t == [db.customer EXCEPT ![c] = row]
<1>1. e \in Emails /\ UNCHANGED <<redis, past>> /\ db \in Rows
    BY DEF Register, At, AccessInv, AccessTyped, Shaped
<1>2. CASE /\ WithEmail(e) = {} /\ db.customer[c].status = "NONE"
           /\ db' = [db EXCEPT !.customer = t]
           /\ Goto(r, q)
    <2>1. t \in [Customers -> CustomerRow]
        BY <1>1, NewCustomerType DEF Rows
    <2> HIDE DEF t
    <2>2. db' \in Rows
        BY <1>1, <1>2, <2>1, RowsWritten
    <2>3. /\ UNCHANGED <<db.admin, db.token, db.session, db.cart, db.address, db.wish, db.identity>>
          /\ db'.customer = t
        BY <1>1, <1>2 DEF Rows
    <2>4. Shaped(q) /\ q.step = "issue" /\ q.user = c
        BY DEF Shaped
    <2>5. KeysTyped'
        BY <1>1, KeysKept
    <2>6. /\ db'.customer = [db.customer EXCEPT ![c] = row]
          /\ row.status = "ACTIVE" /\ row.email = e /\ row.password # 0
        BY <1>1, <2>3, NewCustomerType DEF t
    <2> HIDE DEF q, e, row
    <2> QED
        BY <1>1, <1>2, <2>2, <2>3, <2>4, <2>5, <2>6, AccountMade
<1>3. CASE End(r) /\ UNCHANGED db
    BY <1>1, <1>3, RequestEnds, KeysKept
<1> QED
    BY <1>2, <1>3 DEF Register

LEMMA CreateGoogleCustomerKeeps ==
    ASSUME AccessInv, NEW r \in Requests, NEW c \in Customers, CreateGoogleCustomer(r, c)
    PROVE  AccessInv'
<1> DEFINE g == tx[r].record.subject
           e == EmailOf[g]
           q == [step |-> "finish", o |-> tx[r].o, user |-> c]
           row == NewCustomer(e, 0)
           t == [db.customer EXCEPT ![c] = row]
           ids == db.identity \cup {<<g, c>>}
<1>1. g \in Subjects /\ e \in Emails /\ past' = past /\ db \in Rows /\ tx[r].o \in Onboardings
    BY AccessAssumption
        DEF CreateGoogleCustomer, At, AccessInv, AccessTyped, Shaped, OnboardingRecord
<1>2. CASE /\ WithEmail(e) = {} /\ CustomersOf(g) = {} /\ db.customer[c].status = "NONE"
           /\ db' = [db EXCEPT !.customer = t, !.identity = ids]
           /\ Goto(r, q)
           /\ UNCHANGED redis
    <2>1. t \in [Customers -> CustomerRow] /\ ids \in SUBSET (Subjects \X Customers)
        BY <1>1, NewCustomerType DEF Rows
    <2> HIDE DEF t, ids
    <2>2. db' \in Rows
        <3>1. [db EXCEPT !.customer = t] \in Rows
            BY <1>1, <2>1, RowsWritten
        <3> QED
            BY <1>2, <2>1, <3>1, RowsWritten
    <2>3. /\ UNCHANGED <<db.admin, db.token, db.session, db.cart, db.address, db.wish>>
          /\ db'.customer = t /\ db'.identity = ids
        BY <1>1, <1>2 DEF Rows
    <2>4. Shaped(q) /\ q.step = "finish" /\ q.user = c
        BY <1>1 DEF Shaped
    <2>5. KeysTyped'
        BY <1>2, KeysKept
    <2>6. /\ db'.customer = [db.customer EXCEPT ![c] = row]
          /\ row.status = "ACTIVE" /\ row.email = e /\ row.password = 0
          /\ \E h \in Subjects : CustomersOf(h) = {} /\ db'.identity = db.identity \cup {<<h, c>>}
        BY <1>1, <1>2, <2>3, NewCustomerType DEF t, ids
    <2> HIDE DEF q, e, g, row
    <2> QED
        BY <1>1, <1>2, <2>2, <2>3, <2>4, <2>5, <2>6, AccountMade
<1>3. CASE Release(r) /\ UNCHANGED db
    BY <1>1, <1>3, ReleaseKeeps
<1> QED
    BY <1>2, <1>3 DEF CreateGoogleCustomer

\* A subject is linked to an account while neither has another.
LEMMA LinkKeeps ==
    ASSUME AccessInv, NEW r \in Requests, Link(r)
    PROVE  AccessInv'
<1> DEFINE g == tx[r].subject
           c == tx[r].user
           q == [step |-> IF tx[r].o = None THEN "issue" ELSE "finish", o |-> tx[r].o, user |-> c]
           t == [db.customer EXCEPT ![c].verified = TRUE]
           ids == db.identity \cup {<<g, c>>}
<1>1. /\ g \in Subjects /\ c \in Customers /\ past' = past /\ db \in Rows
      /\ tx[r].o \in Onboardings \cup {None} /\ db.customer[c].status # "NONE"
    BY DEF Link, At, AccessInv, AccessTyped, Shaped, RequestsInformed, Informed
<1>2. Shaped(q) /\ q.step \in {"issue", "finish"} /\ q.user = c
    BY <1>1 DEF Shaped
<1>3. CASE /\ db.customer[c].status = "ACTIVE" /\ CustomersOf(g) = {} /\ SubjectsOf(c) = {}
           /\ db' = [db EXCEPT !.identity = ids, !.customer = t]
           /\ Goto(r, q) /\ UNCHANGED redis
    <2>1. /\ t \in [Customers -> CustomerRow] /\ ids \in SUBSET (Subjects \X Customers)
          /\ \A d \in Customers : t[d].status = db.customer[d].status /\ t[d].email = db.customer[d].email
                                    /\ t[d].password = db.customer[d].password
        <3>1. db.customer \in [Customers -> CustomerRow] /\ ids \in SUBSET (Subjects \X Customers)
            BY <1>1 DEF Rows
        <3>2. [db.customer[c] EXCEPT !.verified = TRUE] \in CustomerRow
            BY <1>1, <3>1 DEF CustomerRow
        <3> QED
            BY <1>1, <3>1, <3>2 DEF CustomerRow
    <2> HIDE DEF t, ids
    <2>2. db' \in Rows
        <3>1. [db EXCEPT !.identity = ids] \in Rows
            BY <1>1, <2>1, RowsWritten
        <3> QED
            BY <1>3, <2>1, <3>1, RowsWritten
    <2>3. /\ UNCHANGED <<db.admin, db.token, db.session, db.cart, db.address, db.wish>>
          /\ db'.customer = t /\ db'.identity = ids
        BY <1>1, <1>3 DEF Rows
    <2> HIDE DEF q
    <2>4. /\ tx' = [p \in Requests |-> tx'[p]]
          /\ \A p \in Requests : tx'[p] # None => Shaped(tx'[p])
          /\ tx'[r] = q
          /\ \A p \in Requests : p # r => tx'[p] = tx[p]
        BY <1>2, <1>3, GotoTyped DEF AccessInv
    <2>5. AccessTyped'
        BY <1>1, <1>3, <2>2, <2>4, KeysKept DEF AccessInv, AccessTyped
    <2>6. Informed(tx[r])'
        BY <1>1, <1>2, <2>1, <2>3, <2>4 DEF Informed
    <2>7. /\ RequestsInformed' /\ RoleHeld' /\ SuperLeft(db)' /\ StepsBelow' /\ StepsAdvance'
          /\ ListsApart(db)'
        <3>1. \A p \in Requests : At(p, "lifecycle")' => tx'[p] = tx[p]
            BY <1>2, <2>4 DEF At
        <3> QED
            BY <1>1, <2>1, <2>3, <2>4, <2>5, <2>6, <3>1, StatusesKept
    <2>8. HandedOut(db)' /\ ResetsSpent'
        <3>1. \A i \in Tokens : db.token[i] # None => db.token[i].user \in Customers
            BY <1>1 DEF Rows, TokenRow
        <3>2. \A s \in Sessions : db.session[s] # None => db.session[s].user \in Admins \cup Customers
            BY <1>1 DEF Rows, SessionRow
        <3>3. HandedOut(db)'
            BY <2>1, <2>3, <3>1, <3>2 DEF AccessInv, HandedOut
        <3>4. ResetsSpent'
            BY <1>1, <2>3 DEF AccessInv, ResetsSpent
        <3> QED
            BY <3>3, <3>4
    <2>9. AccountsApart(db)'
        <3>1. \A i \in db.identity : i[2] \in Customers /\ i[2] # c /\ i[1] # g /\ i = <<i[1], i[2]>>
            BY <1>1, <1>3, IdentityTypes DEF Rows
        <3>2. \A i \in db'.identity : db'.customer[i[2]].status # "NONE"
            BY <1>1, <2>1, <2>3, <3>1 DEF AccessInv, AccountsApart, ids
        <3>3. \A i, j \in db'.identity : i[1] = j[1] \/ i[2] = j[2] => i = j
            BY <2>3, <3>1 DEF AccessInv, AccountsApart, ids
        <3>4. \A d1, d2 \in Customers :
                db'.customer[d1].email = db'.customer[d2].email => d1 = d2 \/ db'.customer[d1].email = None
            BY <2>1, <2>3 DEF AccessInv, AccountsApart
        <3>5. \A d \in Customers :
                db'.customer[d].status \notin {"NONE", "ANONYMIZED"} /\ db'.customer[d].password = 0 =>
                    \E h \in Subjects : <<h, d>> \in db'.identity
            BY <2>1, <2>3 DEF AccessInv, AccountsApart, ids
        <3> QED
            BY <3>2, <3>3, <3>4, <3>5 DEF AccountsApart
    <2> QED
        BY <2>5, <2>7, <2>8, <2>9 DEF AccessInv
<1>4. CASE Goto(r, q) /\ UNCHANGED <<db, redis>>
    <2>1. Informed(q)
        BY <1>1, <1>2 DEF Informed
    <2> HIDE DEF q
    <2> QED
        BY <1>1, <1>2, <1>4, <2>1, RequestGoes, KeysKept
<1>5. CASE Release(r) /\ UNCHANGED db
    BY <1>1, <1>5, ReleaseKeeps
<1> QED
    BY <1>3, <1>4, <1>5 DEF Link

-----------------------------------------------------------------------------
(* Password reset *)

\* Tokens are consumed or deleted, and none of this customer stays open.
LEMMA TokensSpent ==
    ASSUME AccessInv, NEW c \in Customers, NEW f \in {Consumed(c), TokensDeleted(c)}
    PROVE  /\ f \in [Tokens -> TokenRow \cup {None}]
           /\ \A t \in Tokens :
                /\ f[t] # None /\ f[t].state = "OPEN" => f[t] = db.token[t] /\ f[t].user # c
                /\ db.token[t] # None /\ (t \in OpenTokens(c) \/ db.token[t].state # "OPEN") =>
                        f[t] # None /\ f[t].state # "OPEN"
<1>1. db.token \in [Tokens -> TokenRow \cup {None}]
    BY DEF AccessInv, AccessTyped, Rows
<1>2. ASSUME NEW t \in Tokens, db.token[t] # None, NEW state \in {"CONSUMED", "DELETED"}
      PROVE  /\ [db.token[t] EXCEPT !.state = state] \in TokenRow
             /\ [db.token[t] EXCEPT !.state = state].state # "OPEN"
             /\ [db.token[t] EXCEPT !.state = state] # None
    <2>1. db.token[t] \in TokenRow
        BY <1>1, <1>2
    <2>2. [db.token[t] EXCEPT !.state = state] \in TokenRow
        BY <2>1 DEF TokenRow
    <2> QED
        BY <2>1, <2>2, IdsAssumption DEF TokenRow
<1>3. CASE f = Consumed(c)
    <2>1. \A t \in Tokens : f[t] = IF t \in OpenTokens(c) THEN [db.token[t] EXCEPT !.state = "CONSUMED"]
                                   ELSE db.token[t]
        BY <1>3 DEF Consumed
    <2>2. \A t \in Tokens : t \in OpenTokens(c) <=>
              db.token[t] # None /\ db.token[t].user = c /\ db.token[t].state = "OPEN"
        BY DEF OpenTokens
    <2>3. f \in [Tokens -> TokenRow \cup {None}]
        BY <1>1, <1>2, <1>3, <2>2 DEF Consumed
    <2> QED
        BY <1>2, <2>1, <2>2, <2>3
<1>4. CASE f = TokensDeleted(c)
    <2>1. \A t \in Tokens : f[t] = IF db.token[t] # None /\ db.token[t].user = c
                                   THEN [db.token[t] EXCEPT !.state = "DELETED"] ELSE db.token[t]
        BY <1>4 DEF TokensDeleted
    <2>2. f \in [Tokens -> TokenRow \cup {None}]
        BY <1>1, <1>2, <1>4 DEF TokensDeleted
    <2> QED
        BY <1>2, <2>1, <2>2 DEF OpenTokens
<1> QED
    BY <1>3, <1>4

\* A step that writes tokens only.
LEMMA TokensKeep ==
    ASSUME AccessInv, KeysTyped', UNCHANGED past,
           NEW f \in [Tokens -> TokenRow \cup {None}], db' = [db EXCEPT !.token = f],
           \A t \in Tokens : f[t] # None /\ f[t].state = "OPEN" =>
              /\ f[t].password = db.customer[f[t].user].password
              /\ db.customer[f[t].user].status # "NONE",
           \A t \in Tokens : db.token[t] # None /\ db.token[t].state # "OPEN" =>
              f[t] # None /\ f[t].state # "OPEN",
           tx' = [r \in Requests |-> tx'[r]],
           \A r \in Requests : tx'[r] # None => tx'[r] = tx[r]
    PROVE  AccessInv'
<1>1. /\ db' \in Rows /\ db'.token = f
      /\ UNCHANGED <<db.admin, db.customer, db.identity, db.session, db.cart, db.address, db.wish>>
    <2>1. db \in Rows
        BY DEF AccessInv, AccessTyped
    <2>2. db' \in Rows
        BY <2>1, RowsWritten
    <2> QED
        BY <2>1, <2>2 DEF Rows
<1>2. AccessTyped'
    BY <1>1 DEF AccessInv, AccessTyped
<1>3. /\ RequestsInformed' /\ RoleHeld' /\ SuperLeft(db)' /\ StepsBelow' /\ StepsAdvance'
      /\ ListsApart(db)'
    BY <1>1, <1>2, StatusesKept DEF At
<1>4. HandedOut(db)' /\ ResetsSpent'
    <2>1. HandedOut(db)'
        BY <1>1 DEF AccessInv, HandedOut
    <2>2. ResetsSpent'
        BY <1>1 DEF AccessInv, ResetsSpent
    <2> QED
        BY <2>1, <2>2
<1>5. AccountsApart(db)'
    BY <1>1 DEF AccessInv, AccountsApart
<1> QED
    BY <1>2, <1>3, <1>4, <1>5 DEF AccessInv

LEMMA NewTokenType ==
    ASSUME AccessInv, NEW c \in Customers
    PROVE  /\ NewToken(c) \in TokenRow /\ NewToken(c).user = c
           /\ NewToken(c).password = db.customer[c].password
BY DEF NewToken, TokenRow, AccessInv, AccessTyped, Rows, CustomerRow

LEMMA RequestResetCommitKeeps ==
    ASSUME AccessInv, NEW r \in Requests, NEW t \in Tokens, RequestResetCommit(r, t)
    PROVE  AccessInv'
<1> DEFINE c == tx[r].user
           f == [db.token EXCEPT ![t] = NewToken(c)]
<1>1. /\ c \in Customers /\ db.customer[c].status # "NONE" /\ db.token[t] = None
      /\ End(r) /\ UNCHANGED <<redis, past>> /\ db' = [db EXCEPT !.token = f]
    BY DEF RequestResetCommit, At, AccessInv, AccessTyped, Shaped, RequestsInformed, Informed
<1>2. /\ f \in [Tokens -> TokenRow \cup {None}] /\ f[t] = NewToken(c)
      /\ \A i \in Tokens : i # t => f[i] = db.token[i]
    BY <1>1, NewTokenType DEF AccessInv, AccessTyped, Rows
<1> HIDE DEF f
<1>3. \A i \in Tokens : f[i] # None /\ f[i].state = "OPEN" =>
          /\ f[i].password = db.customer[f[i].user].password
          /\ db.customer[f[i].user].status # "NONE"
    BY <1>1, <1>2, NewTokenType DEF AccessInv, HandedOut
<1>4. /\ tx' = [q \in Requests |-> tx'[q]]
      /\ \A q \in Requests : tx'[q] # None => tx'[q] = tx[q]
    BY <1>1, EndTyped DEF AccessInv
<1>5. \A i \in Tokens : db.token[i] # None /\ db.token[i].state # "OPEN" =>
          f[i] # None /\ f[i].state # "OPEN"
    BY <1>1, <1>2
<1> QED
    BY <1>1, <1>2, <1>3, <1>4, <1>5, TokensKeep, KeysKept

LEMMA TriggerResetKeeps ==
    ASSUME AccessInv, NEW c \in Customers, NEW t \in Tokens, TriggerReset(c, t)
    PROVE  AccessInv'
<1> DEFINE g == Consumed(c)
           f == [g EXCEPT ![t] = NewToken(c)]
<1>1. /\ db.customer[c].status = "ACTIVE" /\ db.token[t] = None
      /\ UNCHANGED <<redis, tx, past>> /\ db' = [db EXCEPT !.token = f]
    BY DEF TriggerReset
<1>2. /\ g \in [Tokens -> TokenRow \cup {None}]
      /\ \A i \in Tokens :
           /\ g[i] # None /\ g[i].state = "OPEN" => g[i] = db.token[i]
           /\ db.token[i] # None /\ db.token[i].state # "OPEN" => g[i] # None /\ g[i].state # "OPEN"
    BY TokensSpent
<1> HIDE DEF g
<1>3. /\ f \in [Tokens -> TokenRow \cup {None}] /\ f[t] = NewToken(c)
      /\ \A i \in Tokens : i # t => f[i] = g[i]
    BY <1>2, NewTokenType
<1> HIDE DEF f
<1>4. \A i \in Tokens : f[i] # None /\ f[i].state = "OPEN" =>
          /\ f[i].password = db.customer[f[i].user].password
          /\ db.customer[f[i].user].status # "NONE"
    BY <1>1, <1>2, <1>3, NewTokenType DEF AccessInv, HandedOut
<1>5. \A i \in Tokens : db.token[i] # None /\ db.token[i].state # "OPEN" =>
          f[i] # None /\ f[i].state # "OPEN"
    BY <1>1, <1>2, <1>3
<1>6. tx' = [q \in Requests |-> tx'[q]]
    BY <1>1 DEF AccessInv, AccessTyped
<1> QED
    BY <1>1, <1>3, <1>4, <1>5, <1>6, TokensKeep, KeysKept

LEMMA TokenExpiresKeeps ==
    ASSUME AccessInv, NEW t \in Tokens, TokenExpires(t)
    PROVE  AccessInv'
<1> DEFINE row == [db.token[t] EXCEPT !.late = TRUE]
           f == [db.token EXCEPT ![t] = row]
<1>1. db.token[t] # None /\ UNCHANGED <<redis, tx, past>> /\ db' = [db EXCEPT !.token = f]
    BY DEF TokenExpires
<1>2. db.token \in [Tokens -> TokenRow \cup {None}] /\ db.token[t] \in TokenRow
    BY <1>1 DEF AccessInv, AccessTyped, Rows
<1>3. /\ row \in TokenRow /\ row # None /\ row.user = db.token[t].user /\ row.state = db.token[t].state
      /\ row.password = db.token[t].password
    <2>1. /\ row \in TokenRow /\ row.user = db.token[t].user /\ row.state = db.token[t].state
          /\ row.password = db.token[t].password
        BY <1>2 DEF TokenRow
    <2> QED
        BY <2>1, IdsAssumption
<1> HIDE DEF row
<1>4. /\ f \in [Tokens -> TokenRow \cup {None}] /\ f[t] = row
      /\ \A i \in Tokens : i # t => f[i] = db.token[i]
    BY <1>2, <1>3
<1> HIDE DEF f
<1>5. \A i \in Tokens : f[i] # None /\ f[i].state = "OPEN" =>
          /\ f[i].password = db.customer[f[i].user].password
          /\ db.customer[f[i].user].status # "NONE"
    BY <1>1, <1>3, <1>4 DEF AccessInv, HandedOut
<1>6. \A i \in Tokens : db.token[i] # None /\ db.token[i].state # "OPEN" =>
          f[i] # None /\ f[i].state # "OPEN"
    BY <1>3, <1>4
<1>7. tx' = [q \in Requests |-> tx'[q]]
    BY <1>1 DEF AccessInv, AccessTyped
<1> QED
    BY <1>1, <1>4, <1>5, <1>6, <1>7, TokensKeep, KeysKept

\* What an account handed out stays good only under the same password.
LEMMA AccessRevoked ==
    ASSUME AccessInv, NEW c \in Customers, db.customer[c].status # "NONE",
           db'.customer[c].status # "NONE",
           \A d \in Customers : d # c => db'.customer[d] = db.customer[d],
           \A t \in Tokens : db'.token[t] # None /\ db'.token[t].state = "OPEN" =>
              /\ db'.token[t] = db.token[t]
              /\ db.token[t].user # c \/ db'.customer[c].password = db.customer[c].password,
           \A s \in Sessions : db'.session[s] # None /\ db'.session[s].status = "ACTIVE" =>
              /\ db'.session[s] = db.session[s]
              /\ db.session[s].user # c \/ db'.customer[c].password = db.customer[c].password
    PROVE  HandedOut(db)'
<1>1. \A t \in Tokens : db.token[t] # None => db.token[t].user \in Customers
    BY DEF AccessInv, AccessTyped, Rows, TokenRow
<1>2. \A s \in Sessions : db.session[s] # None => db.session[s].user \in Admins \cup Customers
    BY DEF AccessInv, AccessTyped, Rows, SessionRow
<1>3. ASSUME NEW t \in Tokens, db'.token[t] # None, db'.token[t].state = "OPEN"
      PROVE  /\ db'.token[t].password = db'.customer[db'.token[t].user].password
             /\ db'.customer[db'.token[t].user].status # "NONE"
    BY <1>1, <1>3 DEF AccessInv, HandedOut
<1>4. ASSUME NEW s \in Sessions, db'.session[s] # None, db'.session[s].status = "ACTIVE"
      PROVE  IF db'.session[s].user \in Admins THEN db'.session[s].password = 0
             ELSE /\ db'.session[s].password = db'.customer[db'.session[s].user].password
                  /\ db'.customer[db'.session[s].user].status # "NONE"
    BY <1>2, <1>4 DEF AccessInv, HandedOut
<1> QED
    BY <1>3, <1>4 DEF HandedOut

\* No session of the customer stays ACTIVE.
LEMMA CustomerSignedOut ==
    ASSUME AccessInv, NEW c \in Customers
    PROVE  /\ Ended(SessionsOf(c), "REVOKED") \in [Sessions -> SessionRow \cup {None}]
           /\ \A s \in Sessions :
                LET new == Ended(SessionsOf(c), "REVOKED")[s]
                IN  new # None /\ new.status = "ACTIVE" => new = db.session[s] /\ new.user # c
BY EndedSessions DEF Active, SessionsOf

\* A reset consumes the token that makes it, with every other one.
LEMMA ResetCommitKeeps ==
    ASSUME AccessInv, NEW r \in Requests, ResetCommit(r)
    PROVE  AccessInv'
<1> DEFINE c == tx[r].user
           i == tx[r].token
           f == Consumed(c)
           e == Ended(SessionsOf(c), "REVOKED")
           row == [db.customer[c] EXCEPT !.password = @ + 1]
           t == [db.customer EXCEPT ![c] = row]
<1>1. /\ c \in Customers /\ i \in Tokens /\ db.customer[c].status # "NONE" /\ db \in Rows
      /\ End(r) /\ UNCHANGED redis
    BY DEF ResetCommit, At, AccessInv, AccessTyped, Shaped, RequestsInformed, Informed
<1>2. CASE /\ i \in OpenTokens(c)
           /\ db' = [db EXCEPT !.token = f, !.customer = t, !.session = e]
           /\ past' = [past EXCEPT !.resets[i] = @ + 1]
    <2>1. /\ f \in [Tokens -> TokenRow \cup {None}]
          /\ \A j \in Tokens :
                /\ f[j] # None /\ f[j].state = "OPEN" => f[j] = db.token[j] /\ f[j].user # c
                /\ db.token[j] # None /\ (j \in OpenTokens(c) \/ db.token[j].state # "OPEN") =>
                        f[j] # None /\ f[j].state # "OPEN"
        BY <1>1, TokensSpent
    <2>2. /\ e \in [Sessions -> SessionRow \cup {None}]
          /\ \A s \in Sessions :
                e[s] # None /\ e[s].status = "ACTIVE" => e[s] = db.session[s] /\ e[s].user # c
        BY <1>1, CustomerSignedOut
    <2>3. db.customer \in [Customers -> CustomerRow] /\ db.customer[c] \in CustomerRow
        BY <1>1 DEF Rows
    <2>4. /\ row \in CustomerRow /\ row.status = db.customer[c].status /\ row.email = db.customer[c].email
          /\ row.password # 0
        BY <2>3 DEF CustomerRow
    <2> HIDE DEF f, e, row
    <2>5. /\ t \in [Customers -> CustomerRow] /\ t[c] = row
          /\ \A d \in Customers : d # c => t[d] = db.customer[d]
        BY <1>1, <2>3, <2>4
    <2> HIDE DEF t
    <2>6. /\ db' \in Rows /\ db'.token = f /\ db'.customer = t /\ db'.session = e
          /\ UNCHANGED <<db.admin, db.identity, db.cart, db.address, db.wish>>
        <3>1. [db EXCEPT !.token = f] \in Rows
            BY <1>1, <2>1, RowsWritten
        <3>2. [[db EXCEPT !.token = f] EXCEPT !.customer = t] \in Rows
            BY <2>5, <3>1, RowsWritten
        <3>3. [[[db EXCEPT !.token = f] EXCEPT !.customer = t] EXCEPT !.session = e] \in Rows
            BY <2>2, <3>2, RowsWritten
        <3> QED
            BY <1>1, <1>2, <3>3 DEF Rows
    <2>7. /\ past' \in [steps: [Admins -> Seq(1 .. MaxStep)], resets: [Tokens -> Nat]]
          /\ past'.steps = past.steps
          /\ \A j \in Tokens : past'.resets[j] = IF j = i THEN past.resets[i] + 1 ELSE past.resets[j]
        <3>1. past \in [steps: [Admins -> Seq(1 .. MaxStep)], resets: [Tokens -> Nat]]
            BY DEF AccessInv, AccessTyped
        <3>2. [past.resets EXCEPT ![i] = @ + 1] \in [Tokens -> Nat]
            BY <1>1, <3>1
        <3> QED
            BY <1>1, <1>2, <3>1, <3>2
    <2>8. /\ tx' = [q \in Requests |-> tx'[q]]
          /\ \A q \in Requests : tx'[q] # None => Shaped(tx'[q])
          /\ \A q \in Requests : tx'[q] # None => tx'[q] = tx[q]
        BY <1>1, EndTyped DEF AccessInv
    <2>9. AccessTyped'
        BY <1>1, <2>6, <2>7, <2>8, KeysKept DEF AccessInv, AccessTyped
    <2>10. /\ RequestsInformed' /\ RoleHeld' /\ SuperLeft(db)' /\ StepsBelow' /\ StepsAdvance'
           /\ ListsApart(db)'
        <3>1. \A d \in Customers : db'.customer[d].status = db.customer[d].status
            BY <2>4, <2>5, <2>6
        <3> QED
            BY <2>6, <2>7, <2>8, <2>9, <3>1, StatusesKept DEF At
    <2>11. HandedOut(db)'
        BY <1>1, <2>1, <2>2, <2>4, <2>5, <2>6, AccessRevoked
    <2>12. ResetsSpent'
        <3>1. past.resets[i] = 0
            <4>1. past.resets[i] \in Nat
                BY <1>1 DEF AccessInv, AccessTyped
            <4> QED
                BY <1>1, <1>2, <4>1 DEF AccessInv, ResetsSpent, OpenTokens
        <3>2. f[i] # None /\ f[i].state # "OPEN"
            BY <1>1, <1>2, <2>1 DEF OpenTokens
        <3> QED
            BY <2>1, <2>6, <2>7, <3>1, <3>2 DEF AccessInv, ResetsSpent
    <2>13. AccountsApart(db)'
        <3>1. /\ \A d \in Customers : /\ db'.customer[d].status = db.customer[d].status
                                      /\ db'.customer[d].email = db.customer[d].email
                                      /\ db'.customer[d].password = 0 => db.customer[d].password = 0
              /\ db'.identity = db.identity /\ \A j \in db.identity : j[2] \in Customers
            BY <1>1, <2>4, <2>5, <2>6 DEF Rows
        <3> QED
            BY <3>1 DEF AccessInv, AccountsApart
    <2> QED
        BY <2>9, <2>10, <2>11, <2>12, <2>13 DEF AccessInv
<1>3. CASE UNCHANGED <<db, past>>
    BY <1>1, <1>3, RequestEnds, KeysKept
<1> QED
    BY <1>2, <1>3 DEF ResetCommit, ResetPassword

-----------------------------------------------------------------------------
(* The lifecycle of customers *)

\* The account that is changed has the status its change was checked for.
LEMMA LifecycleCustomer ==
    ASSUME AccessInv, NEW r \in Requests, At(r, "lifecycle"), tx[r].user \in Customers
    PROVE  /\ tx[r].action \in Actions /\ tx[r].version \in 0 .. MaxVersion - 1
           /\ db.customer[tx[r].user].status \in CustomerStatusFor(tx[r].action)
           /\ db.customer[tx[r].user].status # "NONE"
<1>1. tx[r].action \in Actions /\ tx[r].version \in 0 .. MaxVersion - 1
    BY DEF AccessInv, AccessTyped, Shaped, At
<1>2. db.customer[tx[r].user].status \in CustomerStatusFor(tx[r].action)
    BY DEF AccessInv, RoleHeld
<1> QED
    BY <1>1, <1>2 DEF CustomerStatusFor, Actions

LEMMA CustomerLifecycleCommitKeeps ==
    ASSUME AccessInv, NEW r \in Requests, CustomerLifecycleCommit(r)
    PROVE  AccessInv'
<1> DEFINE c == tx[r].user
           old == db.customer[c]
           action == tx[r].action
           f == IF action # "reactivate" THEN TokensDeleted(c) ELSE db.token
           e == IF action # "reactivate" THEN Ended(SessionsOf(c), "REVOKED") ELSE db.session
           row == [old EXCEPT !.status = LifecycleStatus(action), !.version = @ + 1]
           t == [db.customer EXCEPT ![c] = row]
<1>1. /\ At(r, "lifecycle") /\ c \in Customers /\ db \in Rows /\ action # "anonymize"
      /\ End(r) /\ UNCHANGED <<redis, past>>
    BY DEF CustomerLifecycleCommit, AccessInv, AccessTyped
<1>2. CASE old.version = tx[r].version /\ db' = [db EXCEPT !.customer = t, !.token = f, !.session = e]
    <2>1. /\ f \in [Tokens -> TokenRow \cup {None}]
          /\ \A j \in Tokens :
                /\ f[j] # None /\ f[j].state = "OPEN" => f[j] = db.token[j]
                /\ db.token[j] # None /\ db.token[j].state # "OPEN" => f[j] # None /\ f[j].state # "OPEN"
        BY <1>1, TokensSpent DEF Rows
    <2>2. /\ e \in [Sessions -> SessionRow \cup {None}]
          /\ \A s \in Sessions : e[s] # None /\ e[s].status = "ACTIVE" => e[s] = db.session[s]
        BY <1>1, CustomerSignedOut DEF Rows
    <2>3. db.customer \in [Customers -> CustomerRow] /\ old \in CustomerRow
        BY <1>1 DEF Rows
    <2>4. /\ LifecycleStatus(action) \in {"ACTIVE", "SUSPENDED", "DISABLED"}
          /\ old.status \in {"ACTIVE", "SUSPENDED"}
          /\ old.version + 1 \in 0 .. MaxVersion
        BY <1>1, <1>2, LifecycleCustomer, AccessAssumption DEF LifecycleStatus, Actions, CustomerStatusFor
    <2>5. /\ row \in CustomerRow /\ row.status = LifecycleStatus(action) /\ row.email = old.email
          /\ row.password = old.password
        BY <2>3, <2>4 DEF CustomerRow, UserStatus
    <2> HIDE DEF f, e, row
    <2>6. /\ t \in [Customers -> CustomerRow] /\ t[c] = row
          /\ \A d \in Customers : d # c => t[d] = db.customer[d]
        BY <1>1, <2>3, <2>5
    <2> HIDE DEF t
    <2>7. /\ db' \in Rows /\ db'.token = f /\ db'.customer = t /\ db'.session = e
          /\ UNCHANGED <<db.admin, db.identity, db.cart, db.address, db.wish>>
        <3>1. [db EXCEPT !.customer = t] \in Rows
            BY <1>1, <2>6, RowsWritten
        <3>2. [[db EXCEPT !.customer = t] EXCEPT !.token = f] \in Rows
            BY <2>1, <3>1, RowsWritten
        <3>3. [[[db EXCEPT !.customer = t] EXCEPT !.token = f] EXCEPT !.session = e] \in Rows
            BY <2>2, <3>2, RowsWritten
        <3> QED
            BY <1>1, <1>2, <3>3 DEF Rows
    <2>8. /\ tx' = [q \in Requests |-> tx'[q]]
          /\ \A q \in Requests : tx'[q] # None => Shaped(tx'[q])
          /\ \A q \in Requests : tx'[q] # None => tx'[q] = tx[q]
        BY <1>1, EndTyped DEF AccessInv
    <2>9. AccessTyped'
        BY <1>1, <2>7, <2>8, KeysKept DEF AccessInv, AccessTyped
    <2>10. RequestsInformed'
        <3>1. \A x \in Addresses : db.address[x] # None => db.address[x].version \in Nat
            BY <1>1 DEF Rows, AddressRow
        <3>2. Evolves
            BY <2>4, <2>5, <2>6, <2>7, <3>1 DEF Evolves
        <3> QED
            BY <2>7, <2>8, <3>2, InformedKept
    <2>11. RoleHeld'
        BY <1>1, RoleReleased
    <2>12. HandedOut(db)'
        <3>1. old.status # "NONE" /\ db'.customer[c].status # "NONE" /\ db'.customer[c].password = old.password
            BY <2>4, <2>5, <2>6, <2>7
        <3> QED
            BY <1>1, <2>1, <2>2, <2>6, <2>7, <3>1, AccessRevoked
    <2>13. ResetsSpent'
        BY <1>1, <2>1, <2>7 DEF AccessInv, ResetsSpent
    <2>14. AccountsApart(db)'
        <3>1. /\ \A d \in Customers :
                    /\ db'.customer[d].email = db.customer[d].email
                    /\ db'.customer[d].password = db.customer[d].password
                    /\ db.customer[d].status # "NONE" => db'.customer[d].status # "NONE"
                    /\ db'.customer[d].status \notin {"NONE", "ANONYMIZED"} =>
                            db.customer[d].status \notin {"NONE", "ANONYMIZED"}
              /\ db'.identity = db.identity /\ \A j \in db.identity : j[2] \in Customers
            BY <1>1, <2>4, <2>5, <2>6, <2>7 DEF Rows
        <3> QED
            BY <3>1 DEF AccessInv, AccountsApart
    <2>15. ListsApart(db)'
        BY <2>7 DEF AccessInv, ListsApart
    <2> QED
        BY <1>1, <2>7, <2>9, <2>10, <2>11, <2>12, <2>13, <2>14, <2>15, AdminsKept DEF AccessInv
<1>3. CASE UNCHANGED db
    BY <1>1, <1>3, RequestEnds, KeysKept
<1> QED
    BY <1>2, <1>3 DEF CustomerLifecycleCommit

\* Rows that are rewritten are rows again.
LEMMA AddressRewritten ==
    ASSUME NEW a \in AddressRow, NEW d \in BOOLEAN
    PROVE  LET deleted == [a EXCEPT !.default = d, !.deleted = TRUE, !.version = @ + 1]
               marked == [a EXCEPT !.default = d, !.version = @ + 1]
           IN  /\ deleted \in AddressRow /\ deleted # None /\ deleted.deleted = TRUE
               /\ deleted.customer = a.customer /\ deleted.version = a.version + 1
               /\ marked \in AddressRow /\ marked # None /\ marked.default = d
               /\ marked.deleted = a.deleted
               /\ marked.customer = a.customer /\ marked.version = a.version + 1
<1>1. ASSUME NEW v \in Nat
      PROVE  /\ [a EXCEPT !.default = d, !.deleted = TRUE, !.version = v] \in AddressRow
             /\ [a EXCEPT !.default = d, !.version = v] \in AddressRow
    BY DEF AddressRow
<1>2. a.version + 1 \in Nat
    BY DEF AddressRow
<1>3. /\ [a EXCEPT !.default = d, !.deleted = TRUE, !.version = @ + 1] \in AddressRow
      /\ [a EXCEPT !.default = d, !.version = @ + 1] \in AddressRow
    BY <1>1, <1>2
<1>4. LET deleted == [a EXCEPT !.default = d, !.deleted = TRUE, !.version = @ + 1]
          marked == [a EXCEPT !.default = d, !.version = @ + 1]
      IN  /\ deleted.deleted = TRUE /\ deleted.customer = a.customer /\ deleted.version = a.version + 1
          /\ marked.default = d /\ marked.deleted = a.deleted
          /\ marked.customer = a.customer /\ marked.version = a.version + 1
    BY DEF AddressRow
<1> QED
    BY <1>3, <1>4, IdsAssumption

LEMMA CustomerRewritten ==
    ASSUME NEW a \in CustomerRow, a.version + 1 \in 0 .. MaxVersion
    PROVE  LET row == [a EXCEPT !.status = "ANONYMIZED", !.email = None, !.password = @ + 1,
                                !.version = @ + 1]
           IN  row \in CustomerRow /\ row.status = "ANONYMIZED" /\ row.email = None
<1>1. ASSUME NEW v \in 0 .. MaxVersion, NEW p \in Nat
      PROVE  LET row == [a EXCEPT !.status = "ANONYMIZED", !.email = None, !.password = p, !.version = v]
             IN  row \in CustomerRow /\ row.status = "ANONYMIZED" /\ row.email = None
    BY DEF CustomerRow, UserStatus
<1>2. a.password + 1 \in Nat
    BY DEF CustomerRow
<1> QED
    BY <1>1, <1>2

\* An anonymised account leaves nothing behind that its address, its subject or
\* its default address could be taken for.
LEMMA AnonymizeKeeps ==
    ASSUME AccessInv, NEW r \in Requests, Anonymize(r)
    PROVE  AccessInv'
<1> DEFINE c == tx[r].user
           old == db.customer[c]
           f == TokensDeleted(c)
           e == Ended(SessionsOf(c), "REVOKED")
           row == [old EXCEPT !.status = "ANONYMIZED", !.email = None, !.password = @ + 1, !.version = @ + 1]
           t == [db.customer EXCEPT ![c] = row]
           ids == {i \in db.identity : i[2] # c}
           gone(x) == [db.address[x] EXCEPT !.default = FALSE, !.deleted = TRUE, !.version = @ + 1]
           g == [x \in Addresses |-> IF db.address[x] # None /\ db.address[x].customer = c THEN gone(x)
                                     ELSE db.address[x]]
<1>1. /\ At(r, "lifecycle") /\ c \in Customers /\ db \in Rows
      /\ End(r) /\ UNCHANGED <<redis, past>>
    BY DEF Anonymize, AccessInv, AccessTyped
<1>2. CASE /\ old.version = tx[r].version
           /\ db' = [db EXCEPT !.customer = t, !.identity = ids, !.token = f, !.session = e, !.address = g]
    <2>1. /\ f \in [Tokens -> TokenRow \cup {None}]
          /\ \A j \in Tokens :
                /\ f[j] # None /\ f[j].state = "OPEN" => f[j] = db.token[j] /\ f[j].user # c
                /\ db.token[j] # None /\ db.token[j].state # "OPEN" => f[j] # None /\ f[j].state # "OPEN"
        BY <1>1, TokensSpent
    <2>2. /\ e \in [Sessions -> SessionRow \cup {None}]
          /\ \A s \in Sessions :
                e[s] # None /\ e[s].status = "ACTIVE" => e[s] = db.session[s] /\ e[s].user # c
        BY <1>1, CustomerSignedOut
    <2>3. /\ db.customer \in [Customers -> CustomerRow] /\ old \in CustomerRow
          /\ db.address \in [Addresses -> AddressRow \cup {None}]
        BY <1>1 DEF Rows
    <2>4. old.version + 1 \in 0 .. MaxVersion /\ old.status # "NONE"
        BY <1>1, <1>2, LifecycleCustomer, AccessAssumption
    <2>5. row \in CustomerRow /\ row.status = "ANONYMIZED" /\ row.email = None
        BY <2>3, <2>4, CustomerRewritten
    <2>6. ids \in SUBSET (Subjects \X Customers)
        BY <1>1 DEF Rows
    <2>7. ASSUME NEW x \in Addresses, db.address[x] # None
          PROVE  /\ gone(x) \in AddressRow /\ gone(x).deleted = TRUE /\ gone(x) # None
                 /\ gone(x).customer = db.address[x].customer
                 /\ gone(x).version = db.address[x].version + 1 /\ db.address[x].version \in Nat
        <3>1. db.address[x] \in AddressRow
            BY <2>3, <2>7
        <3>2. db.address[x].version \in Nat
            BY <3>1 DEF AddressRow
        <3> QED
            BY <3>1, <3>2, AddressRewritten
    <2> HIDE DEF f, e, row, gone
    <2>8. /\ t \in [Customers -> CustomerRow] /\ t[c] = row
          /\ \A d \in Customers : d # c => t[d] = db.customer[d]
        BY <1>1, <2>3, <2>5
    <2>9. /\ g \in [Addresses -> AddressRow \cup {None}]
          /\ \A x \in Addresses :
                \/ g[x] = db.address[x] /\ (g[x] # None => g[x].customer # c)
                \/ db.address[x] # None /\ g[x] = gone(x)
        BY <2>3, <2>7
    <2> HIDE DEF t, ids, g
    <2>10. /\ db' \in Rows /\ db'.token = f /\ db'.customer = t /\ db'.session = e /\ db'.identity = ids
           /\ db'.address = g
           /\ UNCHANGED <<db.admin, db.cart, db.wish>>
        <3>1. [db EXCEPT !.customer = t] \in Rows
            BY <1>1, <2>8, RowsWritten
        <3>2. [[db EXCEPT !.customer = t] EXCEPT !.identity = ids] \in Rows
            BY <2>6, <3>1, RowsWritten
        <3>3. [[[db EXCEPT !.customer = t] EXCEPT !.identity = ids] EXCEPT !.token = f] \in Rows
            BY <2>1, <3>2, RowsWritten
        <3>4. [[[[db EXCEPT !.customer = t] EXCEPT !.identity = ids] EXCEPT !.token = f]
                EXCEPT !.session = e] \in Rows
            BY <2>2, <3>3, RowsWritten
        <3>5. [[[[[db EXCEPT !.customer = t] EXCEPT !.identity = ids] EXCEPT !.token = f]
                EXCEPT !.session = e] EXCEPT !.address = g] \in Rows
            BY <2>9, <3>4, RowsWritten
        <3> QED
            BY <1>1, <1>2, <3>5 DEF Rows
    <2>11. /\ tx' = [q \in Requests |-> tx'[q]]
           /\ \A q \in Requests : tx'[q] # None => Shaped(tx'[q])
           /\ \A q \in Requests : tx'[q] # None => tx'[q] = tx[q]
        BY <1>1, EndTyped DEF AccessInv
    <2>12. AccessTyped'
        BY <1>1, <2>10, <2>11, KeysKept DEF AccessInv, AccessTyped
    <2>13. RequestsInformed'
        <3>1. ASSUME NEW x \in Addresses, db.address[x] # None
              PROVE  /\ g[x] # None /\ g[x].customer = db.address[x].customer
                     /\ db.address[x].version <= g[x].version
                     /\ db.address[x].version = g[x].version => g[x].default = db.address[x].default
            <4>1. /\ gone(x) # None /\ gone(x).customer = db.address[x].customer
                  /\ gone(x).version = db.address[x].version + 1 /\ db.address[x].version \in Nat
                BY <2>7, <3>1
            <4>2. g[x] = db.address[x] \/ g[x] = gone(x)
                BY <2>9
            <4> QED
                BY <3>1, <4>1, <4>2
        <3>2. Evolves
            BY <2>5, <2>8, <2>10, <3>1 DEF Evolves
        <3> QED
            BY <2>10, <2>11, <3>2, InformedKept
    <2>14. RoleHeld'
        BY <1>1, RoleReleased
    <2>15. HandedOut(db)'
        <3>1. old.status # "NONE" /\ db'.customer[c].status # "NONE"
            BY <2>4, <2>5, <2>8, <2>10
        <3> QED
            BY <1>1, <2>1, <2>2, <2>8, <2>10, <3>1, AccessRevoked
    <2>16. ResetsSpent'
        BY <1>1, <2>1, <2>10 DEF AccessInv, ResetsSpent
    <2>17. AccountsApart(db)'
        <3>1. /\ \A d \in Customers : d # c => db'.customer[d] = db.customer[d]
              /\ db'.customer[c].status = "ANONYMIZED" /\ db'.customer[c].email = None
              /\ \A i \in db'.identity : i \in db.identity /\ i[2] # c /\ i[2] \in Customers
              /\ \A i \in db.identity : i[2] # c => i \in db'.identity
            BY <1>1, <2>5, <2>6, <2>8, <2>10 DEF Rows, ids
        <3>2. \A h \in Subjects, d \in Customers : d # c /\ <<h, d>> \in db.identity => <<h, d>> \in db'.identity
            BY <3>1
        <3>3. \A d1, d2 \in Customers :
                db'.customer[d1].email = db'.customer[d2].email => d1 = d2 \/ db'.customer[d1].email = None
            BY <3>1 DEF AccessInv, AccountsApart
        <3>4. \A i, j \in db'.identity : i[1] = j[1] \/ i[2] = j[2] => i = j
            BY <3>1 DEF AccessInv, AccountsApart
        <3>5. \A i \in db'.identity : db'.customer[i[2]].status # "NONE"
            BY <3>1 DEF AccessInv, AccountsApart
        <3>6. \A d \in Customers :
                db'.customer[d].status \notin {"NONE", "ANONYMIZED"} /\ db'.customer[d].password = 0 =>
                    \E h \in Subjects : <<h, d>> \in db'.identity
            BY <3>1, <3>2 DEF AccessInv, AccountsApart
        <3> QED
            BY <3>3, <3>4, <3>5, <3>6 DEF AccountsApart
    <2>18. ListsApart(db)'
        <3>1. \A x \in Addresses : g[x] # None /\ ~g[x].deleted => g[x] = db.address[x]
            BY <2>7, <2>9
        <3> QED
            BY <2>10, <3>1 DEF AccessInv, ListsApart
    <2> QED
        BY <1>1, <2>10, <2>12, <2>13, <2>14, <2>15, <2>16, <2>17, <2>18, AdminsKept DEF AccessInv
<1>3. CASE UNCHANGED db
    BY <1>1, <1>3, RequestEnds, KeysKept
<1> QED
    BY <1>2, <1>3 DEF Anonymize

-----------------------------------------------------------------------------
(* Wishlist and catalogue *)

\* A step of customer data, which writes carts, addresses or wishes.
LEMMA DataKeeps ==
    ASSUME AccessInv, db' \in Rows, Evolves, ListsApart(db)', KeysTyped', UNCHANGED past,
           UNCHANGED <<db.admin, db.customer, db.identity, db.token, db.session>>,
           tx' = [r \in Requests |-> tx'[r]],
           \A r \in Requests : tx'[r] # None => tx'[r] = tx[r]
    PROVE  AccessInv'
<1>1. AccessTyped'
    BY DEF AccessInv, AccessTyped
<1>2. RequestsInformed'
    BY InformedKept
<1>3. RoleHeld'
    BY RoleKept DEF At
<1>4. HandedOut(db)' /\ ResetsSpent'
    BY DEF AccessInv, HandedOut, ResetsSpent
<1>5. AccountsApart(db)'
    BY DEF AccessInv, AccountsApart
<1> QED
    BY <1>1, <1>2, <1>3, <1>4, <1>5, AdminsKept DEF AccessInv

LEMMA WishCommitKeeps ==
    ASSUME AccessInv, NEW r \in Requests, WishCommit(r)
    PROVE  AccessInv'
<1> DEFINE c == tx[r].customer
           v == tx[r].request.variant
<1>1. c \in Customers /\ v \in Variants /\ UNCHANGED <<redis, past>> /\ db \in Rows /\ End(r)
    BY DEF WishCommit, Refuse, At, AccessInv, AccessTyped, Shaped, WishRequests
<1>2. ASSUME NEW w \in SUBSET Variants, db' = [db EXCEPT !.wish[c] = w],
             \A x, y \in w : ProductOf[x] = ProductOf[y] => x = y
      PROVE  AccessInv'
    <2> DEFINE t == [db.wish EXCEPT ![c] = w]
    <2>1. t \in [Customers -> SUBSET Variants] /\ \A d \in Customers : t[d] = IF d = c THEN w ELSE db.wish[d]
        BY <1>1 DEF Rows
    <2>2. db' = [db EXCEPT !.wish = t]
        BY <1>2
    <2> HIDE DEF t
    <2>3. /\ db' \in Rows /\ db'.wish = t
          /\ UNCHANGED <<db.admin, db.customer, db.identity, db.token, db.session, db.cart, db.address>>
        <3>1. db' \in Rows
            BY <1>1, <2>1, <2>2, RowsWritten
        <3> QED
            BY <1>1, <2>2, <3>1 DEF Rows
    <2>4. \A x \in Addresses : db.address[x] # None => db.address[x].version \in Nat
        BY <1>1 DEF Rows, AddressRow
    <2>5. Evolves
        BY <2>3, <2>4 DEF Evolves
    <2>6. ListsApart(db)'
        BY <1>2, <2>1, <2>3 DEF AccessInv, ListsApart
    <2>7. /\ tx' = [q \in Requests |-> tx'[q]]
          /\ \A q \in Requests : tx'[q] # None => tx'[q] = tx[q]
        BY <1>1, EndTyped DEF AccessInv
    <2>8. KeysTyped'
        BY <1>1, KeysKept
    <2> QED
        BY <1>1, <2>3, <2>5, <2>6, <2>7, <2>8, DataKeeps
<1>3. db.wish[c] \in SUBSET Variants /\ \A x, y \in db.wish[c] : ProductOf[x] = ProductOf[y] => x = y
    BY <1>1 DEF Rows, AccessInv, ListsApart
<1>4. CASE db' = [db EXCEPT !.wish[c] = (@ \ SameProduct(v)) \cup {v}]
    <2> DEFINE w == (db.wish[c] \ SameProduct(v)) \cup {v}
    <2>1. w \in SUBSET Variants /\ \A x, y \in w : ProductOf[x] = ProductOf[y] => x = y
        BY <1>1, <1>3 DEF SameProduct
    <2> QED
        BY <1>2, <1>4, <2>1
<1>5. CASE db' = [db EXCEPT !.wish[c] = @ \ {v}]
    <2> DEFINE w == db.wish[c] \ {v}
    <2>1. w \in SUBSET Variants /\ \A x, y \in w : ProductOf[x] = ProductOf[y] => x = y
        BY <1>3
    <2> QED
        BY <1>2, <1>5, <2>1
<1>6. CASE Refuse(r)
    BY <1>1, <1>6, RequestEnds, KeysKept DEF Refuse
<1> QED
    BY <1>4, <1>5, <1>6 DEF WishCommit

LEMMA CatalogueChangesKeeps ==
    ASSUME AccessInv, NEW v \in Variants, CatalogueChanges(v)
    PROVE  AccessInv'
<1>1. /\ db' \in Rows /\ UNCHANGED <<redis, tx, past>>
      /\ UNCHANGED <<db.admin, db.customer, db.identity, db.token, db.session, db.cart, db.address, db.wish>>
    BY DEF CatalogueChanges, AccessInv, AccessTyped, Rows
<1>2. \A x \in Addresses : db.address[x] # None => db.address[x].version \in Nat
    BY DEF AccessInv, AccessTyped, Rows, AddressRow
<1>3. Evolves
    BY <1>1, <1>2 DEF Evolves
<1>4. ListsApart(db)'
    BY <1>1 DEF AccessInv, ListsApart
<1>5. tx' = [r \in Requests |-> tx'[r]]
    BY <1>1 DEF AccessInv, AccessTyped
<1> QED
    BY <1>1, <1>3, <1>4, <1>5, DataKeeps, KeysKept

-----------------------------------------------------------------------------
(* Cart *)

\* A step that writes carts, none of which goes.
LEMMA CartsWritten ==
    ASSUME AccessInv, NEW t \in [Carts -> CartRow \cup {None}], db' = [db EXCEPT !.cart = t],
           \A k \in Carts : db.cart[k] # None => t[k] # None,
           UNCHANGED <<redis, past>>, tx' = [r \in Requests |-> tx'[r]],
           \A r \in Requests : tx'[r] # None => tx'[r] = tx[r]
    PROVE  AccessInv'
<1>1. db \in Rows
    BY DEF AccessInv, AccessTyped
<1>2. db' \in Rows
    BY <1>1, RowsWritten
<1>3. /\ db'.cart = t
      /\ UNCHANGED <<db.admin, db.customer, db.identity, db.token, db.session, db.address, db.wish>>
    BY <1>1, <1>2 DEF Rows
<1>4. \A x \in Addresses : db.address[x] # None => db.address[x].version \in Nat
    BY <1>1 DEF Rows, AddressRow
<1>5. Evolves
    BY <1>3, <1>4 DEF Evolves
<1>6. ListsApart(db)'
    BY <1>3 DEF AccessInv, ListsApart
<1> QED
    BY <1>2, <1>3, <1>5, <1>6, DataKeeps, KeysKept

\* A cart row with other items, another deadline or status is a cart row.
LEMMA CartRewritten ==
    ASSUME NEW k \in CartRow
    PROVE  /\ \A f \in [Variants -> 0 .. MaxQuantity] : [k EXCEPT !.items = f] \in CartRow
           /\ \A b \in BOOLEAN : [k EXCEPT !.late = b] \in CartRow
           /\ [k EXCEPT !.status = "EXPIRED"] \in CartRow
           /\ \A v \in Variants, n \in 0 .. MaxQuantity : [k.items EXCEPT ![v] = n] \in [Variants -> 0 .. MaxQuantity]
BY DEF CartRow

\* The result of a handler that works on the cart k, or makes the cart new in
\* place of those in X.
KeptCart(k) ==
    [id |-> k, made |-> FALSE,
     rows |-> [db.cart EXCEPT ![k].items = [v \in Variants |-> IF v \in db.public THEN @[v] ELSE 0]]]

MadeCart(new, c, X) ==
    [id |-> new, made |-> TRUE,
     rows |-> [k \in Carts |->
                CASE k = new -> EmptyCart(c)
                  [] k \in X /\ db.cart[k].status = "ACTIVE" -> [db.cart[k] EXCEPT !.status = "EXPIRED"]
                  [] OTHER -> db.cart[k]]]

\* A handler finds a cart that its view shows, or makes one in place of such carts.
LEMMA CartSeen ==
    ASSUME NEW view, NEW c, NEW new, NEW create, NEW found \in CartOf(view, c, new, create)
    PROVE  /\ ~found.made => found.id \in Carts /\ view.cart[found.id] # None
           /\ \/ \E k \in Carts : view.cart[k] # None /\ found = KeptCart(k)
              \/ \E X \in SUBSET Carts :
                    (\A k \in X : view.cart[k] # None) /\ found = MadeCart(new, c, X)
<1> DEFINE seen == ActiveCarts(view.cart, c)
           late == {k \in seen : view.cart[k].late}
<1>1. \/ \E k \in seen \ late : found = KeptCart(k)
      \/ found = MadeCart(new, c, {})
      \/ \E k \in late : found = MadeCart(new, c, {k})
    <2>1. found \in {KeptCart(k) : k \in seen \ late}
          \cup (IF ~create THEN {}
                ELSE IF seen = {} THEN {MadeCart(new, c, {})} ELSE {MadeCart(new, c, {k}) : k \in late})
        BY DEF CartOf, KeptCart, MadeCart
    <2> HIDE DEF seen, late
    <2> QED
        BY <2>1
<1>2. /\ \A k : KeptCart(k).made = FALSE /\ KeptCart(k).id = k
      /\ \A X : MadeCart(new, c, X).made = TRUE
    BY DEF KeptCart, MadeCart
<1>3. \A k \in seen : k \in Carts /\ view.cart[k] # None
    BY DEF ActiveCarts
<1> HIDE DEF seen
<1>4. ~found.made => found.id \in Carts /\ view.cart[found.id] # None
    BY <1>1, <1>2, <1>3
<1> QED
    BY <1>1, <1>3, <1>4

\* The carts that a handler finds or makes are cart rows, and none of the carts
\* there were is missing.
LEMMA CartFound ==
    ASSUME AccessInv, NEW r \in Requests, At(r, "cart"), NEW new \in Carts,
           NEW create \in BOOLEAN,
           NEW found \in CartOf(tx[r].view, tx[r].customer, new, create),
           found.made => db.cart[new] = None
    PROVE  /\ found.rows \in [Carts -> CartRow \cup {None}]
           /\ \A k \in Carts : db.cart[k] # None => found.rows[k] # None
           /\ found.id \in Carts /\ found.rows[found.id] # None
<1> DEFINE view == tx[r].view
           c == tx[r].customer
<1>1. /\ db.cart \in [Carts -> CartRow \cup {None}] /\ c \in Customers /\ None \notin CartRow
      /\ \A k \in Carts : view.cart[k] # None => db.cart[k] # None
      /\ MaxQuantity \in Nat
    BY IdsAssumption, AccessAssumption
       DEF AccessInv, AccessTyped, Rows, Shaped, At, RequestsInformed, Informed
<1>2. \/ \E k \in Carts : view.cart[k] # None /\ found = KeptCart(k)
      \/ \E X \in SUBSET Carts : (\A k \in X : view.cart[k] # None) /\ found = MadeCart(new, c, X)
    BY CartSeen
<1>3. ASSUME NEW k \in Carts, view.cart[k] # None, found = KeptCart(k)
      PROVE  /\ found.rows \in [Carts -> CartRow \cup {None}]
             /\ \A j \in Carts : db.cart[j] # None => found.rows[j] # None
             /\ found.id \in Carts /\ found.rows[found.id] # None
    <2> DEFINE old == db.cart[k]
               items == [v \in Variants |-> IF v \in db.public THEN old.items[v] ELSE 0]
    <2>1. old \in CartRow
        BY <1>1, <1>3
    <2>2. items \in [Variants -> 0 .. MaxQuantity]
        BY <1>1, <2>1 DEF CartRow
    <2>3. [old EXCEPT !.items = items] \in CartRow
        BY <2>1, <2>2, CartRewritten
    <2>4. found.rows = [db.cart EXCEPT ![k] = [old EXCEPT !.items = items]] /\ found.id = k
        BY <1>1, <1>3 DEF KeptCart
    <2> HIDE DEF old, items
    <2> QED
        BY <1>1, <2>3, <2>4
<1>4. ASSUME NEW X \in SUBSET Carts, \A k \in X : view.cart[k] # None, found = MadeCart(new, c, X)
      PROVE  /\ found.rows \in [Carts -> CartRow \cup {None}]
             /\ \A j \in Carts : db.cart[j] # None => found.rows[j] # None
             /\ found.id \in Carts /\ found.rows[found.id] # None
    <2>1. EmptyCart(c) \in CartRow
        BY <1>1 DEF EmptyCart, CartRow
    <2>2. \A k \in X : db.cart[k] \in CartRow /\ [db.cart[k] EXCEPT !.status = "EXPIRED"] \in CartRow
        BY <1>1, <1>4, CartRewritten
    <2>3. found.id = new /\ new \notin X
        BY <1>1, <1>4 DEF MadeCart
    <2>4. \A k \in Carts :
            \/ found.rows[k] = EmptyCart(c) /\ k = new
            \/ k \in X /\ found.rows[k] = [db.cart[k] EXCEPT !.status = "EXPIRED"]
            \/ found.rows[k] = db.cart[k]
        BY <1>4 DEF MadeCart
    <2>5. found.rows[new] = EmptyCart(c)
        BY <1>4, <2>3 DEF MadeCart
    <2>6. found.rows = [k \in Carts |-> found.rows[k]]
        BY <1>4 DEF MadeCart
    <2>7. \A k \in Carts : found.rows[k] \in CartRow \cup {None}
        BY <1>1, <2>1, <2>2, <2>4
    <2>8. \A k \in Carts : db.cart[k] # None => found.rows[k] # None
        BY <1>1, <2>1, <2>2, <2>4
    <2> QED
        BY <1>1, <2>1, <2>3, <2>5, <2>6, <2>7, <2>8
<1> QED
    BY <1>2, <1>3, <1>4

LEMMA CartAgesKeeps ==
    ASSUME AccessInv, NEW k \in Carts, CartAges(k)
    PROVE  AccessInv'
<1> DEFINE row == [db.cart[k] EXCEPT !.late = TRUE]
           t == [db.cart EXCEPT ![k] = row]
<1>1. db.cart \in [Carts -> CartRow \cup {None}] /\ None \notin CartRow /\ db.cart[k] \in CartRow
    BY IdsAssumption DEF CartAges, AccessInv, AccessTyped, Rows
<1>2. row \in CartRow
    BY <1>1, CartRewritten
<1> HIDE DEF row
<1>3. t \in [Carts -> CartRow \cup {None}] /\ \A j \in Carts : db.cart[j] # None => t[j] # None
    BY <1>1, <1>2
<1>4. db' = [db EXCEPT !.cart = t] /\ UNCHANGED <<redis, tx, past>>
    BY DEF CartAges, row
<1>5. tx' = [r \in Requests |-> tx'[r]]
    BY <1>4 DEF AccessInv, AccessTyped
<1> HIDE DEF t
<1> QED
    BY <1>3, <1>4, <1>5, CartsWritten

LEMMA CartCommitKeeps ==
    ASSUME AccessInv, NEW r \in Requests, NEW new \in Carts, CartCommit(r, new)
    PROVE  AccessInv'
<1> DEFINE view == tx[r].view
           request == tx[r].request
           create == request.op \in {"get", "add"}
           Quantity(found) == IF request.op = "add"
                              THEN SeenQuantity(view, found, request.variant) + request.quantity
                              ELSE request.quantity
<1>1. /\ At(r, "cart") /\ UNCHANGED <<redis, past>> /\ request \in CartRequests /\ view \in ReadView
      /\ End(r)
    BY DEF CartCommit, Refuse, At, AccessInv, AccessTyped, Shaped
<1>2. /\ tx' = [q \in Requests |-> tx'[q]]
      /\ \A q \in Requests : tx'[q] # None => tx'[q] = tx[q]
    BY <1>1, EndTyped DEF AccessInv
<1>3. CASE Refuse(r)
    BY <1>1, <1>3, RequestEnds, KeysKept DEF Refuse
<1>4. ASSUME NEW found \in CartOf(view, tx[r].customer, new, create),
             found.made => db.cart[new] = None,
             CartAccepts(view, found, request, Quantity(found)),
             db' = [db EXCEPT !.cart =
                      IF request.op = "get" THEN found.rows
                      ELSE [found.rows EXCEPT ![found.id].late = FALSE,
                              ![found.id].items[request.variant] = Quantity(found)]]
      PROVE  AccessInv'
    <2>0. create \in BOOLEAN
        OBVIOUS
    <2> HIDE DEF create
    <2>1. /\ found.rows \in [Carts -> CartRow \cup {None}]
          /\ \A k \in Carts : db.cart[k] # None => found.rows[k] # None
          /\ found.id \in Carts /\ found.rows[found.id] # None
        BY <1>1, <1>4, <2>0, CartFound
    <2>2. CASE request.op = "get"
        BY <1>1, <1>2, <1>4, <2>1, <2>2, CartsWritten
    <2>3. CASE request.op # "get"
        <3> DEFINE n == Quantity(found)
                   old == found.rows[found.id]
                   items == [old.items EXCEPT ![request.variant] = n]
                   row == [[old EXCEPT !.late = FALSE] EXCEPT !.items = items]
                   t == [found.rows EXCEPT ![found.id] = row]
        <3>1. request.variant \in Variants /\ request.quantity \in 0 .. MaxQuantity
            BY <1>1, <2>3, AccessAssumption DEF CartRequests
        <3>2. n \in 0 .. MaxQuantity
            <4>1. CASE request.op = "add"
                <5>1. SeenQuantity(view, found, request.variant) \in Nat
                    <6>1. CASE found.made \/ request.variant \notin db.public
                        BY <6>1 DEF SeenQuantity
                    <6>2. CASE ~found.made /\ request.variant \in db.public
                        <7>1. view.cart[found.id] # None
                            BY <1>4, <6>2, CartSeen
                        <7>2. view.cart[found.id] \in CartRow
                            BY <1>1, <2>1, <7>1 DEF ReadView
                        <7> QED
                            BY <3>1, <6>2, <7>2 DEF SeenQuantity, CartRow
                    <6> QED
                        BY <6>1, <6>2
                <5>2. n <= MaxQuantity
                    BY <1>4, <4>1 DEF CartAccepts
                <5> QED
                    BY <3>1, <4>1, <5>1, <5>2, AccessAssumption
            <4>2. CASE request.op # "add"
                BY <3>1, <4>2
            <4> QED
                BY <4>1, <4>2
        <3>3. old \in CartRow
            BY <2>1
        <3> HIDE DEF n
        <3>4. items \in [Variants -> 0 .. MaxQuantity]
            BY <3>1, <3>2, <3>3, CartRewritten
        <3>5. [old EXCEPT !.late = FALSE] \in CartRow
            BY <3>3, CartRewritten
        <3>6. row \in CartRow
            BY <3>4, <3>5, CartRewritten
        <3>7. [found.rows EXCEPT ![found.id].late = FALSE,
                              ![found.id].items[request.variant] = n] = t
            BY <2>1, <3>1, <3>3 DEF CartRow
        <3>8. db' = [db EXCEPT !.cart = t]
            BY <1>4, <2>3, <3>7 DEF n
        <3> HIDE DEF row
        <3>9. t \in [Carts -> CartRow \cup {None}] /\ \A k \in Carts : db.cart[k] # None => t[k] # None
            BY <2>1, <3>6, IdsAssumption
        <3> HIDE DEF t
        <3> QED
            BY <1>1, <1>2, <3>8, <3>9, CartsWritten
    <2> QED
        BY <2>2, <2>3
<1> QED
    BY <1>3, <1>4 DEF CartCommit

-----------------------------------------------------------------------------
(* Addresses *)

OneDefault(rows) ==
    \A x, y \in Addresses :
        /\ rows[x] # None /\ rows[y] # None
        /\ rows[x].customer = rows[y].customer
        /\ rows[x].default /\ rows[y].default
        /\ ~rows[x].deleted /\ ~rows[y].deleted
        => x = y

\* Address rows stay with their customers, and change with their version.
Grown(old, new) ==
    \A x \in Addresses : old[x] # None =>
        /\ new[x] # None
        /\ new[x].customer = old[x].customer
        /\ old[x].version <= new[x].version
        /\ old[x].version = new[x].version => new[x].default = old[x].default

\* A step that writes addresses, under the handler's lock.
LEMMA AddressesKeep ==
    ASSUME AccessInv, NEW t \in [Addresses -> AddressRow \cup {None}], db' = [db EXCEPT !.address = t],
           Grown(db.address, t), OneDefault(t),
           UNCHANGED <<redis, past>>, NEW r \in Requests, End(r)
    PROVE  AccessInv'
<1>1. /\ db' \in Rows /\ db'.address = t
      /\ UNCHANGED <<db.admin, db.customer, db.identity, db.token, db.session, db.cart, db.wish>>
    BY AddressesWritten
<1>2. Evolves
    BY <1>1 DEF Evolves, Grown
<1>3. ListsApart(db)'
    BY <1>1 DEF AccessInv, ListsApart, OneDefault
<1>4. /\ tx' = [q \in Requests |-> tx'[q]]
      /\ \A q \in Requests : tx'[q] # None => tx'[q] = tx[q]
    BY EndTyped DEF AccessInv
<1> QED
    BY <1>1, <1>2, <1>3, <1>4, DataKeeps, KeysKept

\* t is rows with the rows in X marked.
Marks(t, rows, X, flag) ==
    /\ t \in [Addresses -> AddressRow \cup {None}]
    /\ \A x \in Addresses : x \notin X => t[x] = rows[x]
    /\ \A x \in X : /\ t[x] # None
                    /\ t[x].customer = rows[x].customer
                    /\ t[x].deleted = rows[x].deleted
                    /\ t[x].default = flag
                    /\ t[x].version = rows[x].version + 1
    /\ \A x \in Addresses : rows[x] # None => rows[x].version \in Nat

\* What updateMany makes of the rows in X
LEMMA MarkedRows ==
    ASSUME NEW rows \in [Addresses -> AddressRow \cup {None}], NEW X,
           \A x \in X : x \in Addresses /\ rows[x] # None, NEW flag \in BOOLEAN
    PROVE  Marks(Marked(rows, X, flag), rows, X, flag)
<1> DEFINE m(x) == [rows[x] EXCEPT !.default = flag, !.version = @ + 1]
<1>1. \A x \in X : /\ m(x) \in AddressRow /\ m(x) # None /\ m(x).default = flag
                   /\ m(x).deleted = rows[x].deleted
                   /\ m(x).customer = rows[x].customer /\ m(x).version = rows[x].version + 1
    <2>1. ASSUME NEW a \in AddressRow, NEW b, b = [a EXCEPT !.default = flag, !.version = @ + 1]
          PROVE  /\ b \in AddressRow /\ b # None /\ b.default = flag /\ b.deleted = a.deleted
                 /\ b.customer = a.customer /\ b.version = a.version + 1
        BY <2>1, AddressRewritten
    <2>2. \A x \in X : rows[x] \in AddressRow
        OBVIOUS
    <2> QED
        BY <2>1, <2>2
<1>2. Marked(rows, X, flag) = [x \in Addresses |-> IF x \in X THEN m(x) ELSE rows[x]]
    BY DEF Marked
<1> HIDE DEF m
<1>3. \A x \in Addresses : rows[x] # None => rows[x].version \in Nat
    BY DEF AddressRow
<1>4. \A x \in X : Marked(rows, X, flag)[x] = m(x)
    BY <1>2
<1>5. Marked(rows, X, flag) \in [Addresses -> AddressRow \cup {None}]
    BY <1>1, <1>2
<1>6. \A x \in Addresses : x \notin X => Marked(rows, X, flag)[x] = rows[x]
    BY <1>2
<1> QED
    BY <1>1, <1>3, <1>4, <1>5, <1>6 DEF Marks

LEMMA MarkedGrows ==
    ASSUME NEW old, NEW rows \in [Addresses -> AddressRow \cup {None}], NEW X,
           old \in [Addresses -> AddressRow \cup {None}], Grown(old, rows),
           \A x \in X : x \in Addresses /\ rows[x] # None, NEW flag \in BOOLEAN
    PROVE  Grown(old, Marked(rows, X, flag))
<1> DEFINE t == Marked(rows, X, flag)
<1>a. Marks(t, rows, X, flag)
    BY MarkedRows
<1>1. /\ \A x \in Addresses : x \notin X => t[x] = rows[x]
      /\ \A x \in X : t[x] # None /\ t[x].customer = rows[x].customer /\ t[x].version = rows[x].version + 1
      /\ \A x \in Addresses : rows[x] # None => rows[x].version \in Nat
    BY <1>a DEF Marks
<1>0. \A x \in Addresses : old[x] # None => old[x].version \in Nat
    BY DEF AddressRow
<1> HIDE DEF t
<1> SUFFICES ASSUME NEW x \in Addresses, old[x] # None
             PROVE  /\ t[x] # None
                    /\ t[x].customer = old[x].customer
                    /\ old[x].version <= t[x].version
                    /\ old[x].version = t[x].version => t[x].default = old[x].default
    BY DEF Grown, t
<1>2. /\ rows[x] # None /\ rows[x].customer = old[x].customer /\ old[x].version <= rows[x].version
      /\ old[x].version = rows[x].version => rows[x].default = old[x].default
    BY DEF Grown
<1>3. CASE x \in X
    BY <1>0, <1>1, <1>2, <1>3
<1>4. CASE x \notin X
    BY <1>1, <1>2, <1>4
<1> QED
    BY <1>3, <1>4

LEMMA RowsGrown ==
    ASSUME NEW rows \in [Addresses -> AddressRow \cup {None}]
    PROVE  Grown(rows, rows)
BY DEF Grown, AddressRow

LEMMA DefaultRows ==
    ASSUME AccessInv, NEW c \in Customers
    PROVE  /\ \A x \in Defaults(c) : x \in Addresses /\ db.address[x] # None /\ db.address[x].customer = c
           /\ \A x \in Addresses : /\ db.address[x] # None /\ db.address[x].customer = c
                                   /\ db.address[x].default /\ ~db.address[x].deleted
                                   => x \in Defaults(c)
           /\ db.address \in [Addresses -> AddressRow \cup {None}]
           /\ Grown(db.address, db.address)
           /\ OneDefault(db.address)
<1>1. db.address \in [Addresses -> AddressRow \cup {None}]
    BY DEF AccessInv, AccessTyped, Rows
<1>2. Grown(db.address, db.address)
    BY <1>1, RowsGrown
<1>3. OneDefault(db.address)
    BY DEF AccessInv, ListsApart, OneDefault
<1> QED
    BY <1>1, <1>2, <1>3 DEF Defaults, Saved

LEMMA CreateAddressKeeps ==
    ASSUME AccessInv, NEW r \in Requests, NEW new \in Addresses, CreateAddress(r, new)
    PROVE  AccessInv'
<1> DEFINE c == tx[r].customer
           default == tx[r].request.default \/ Saved(tx[r].view.address, c) = {}
           X == IF default THEN Defaults(c) ELSE {}
           cleared == Marked(db.address, X, FALSE)
           row == [customer |-> c, default |-> default, deleted |-> FALSE, version |-> 0]
           t == [cleared EXCEPT ![new] = row]
<1>1. /\ c \in Customers /\ UNCHANGED <<redis, past>> /\ End(r) /\ default \in BOOLEAN
      /\ tx[r].request \in AddressRequests
    BY DEF CreateAddress, Refuse, At, AccessInv, AccessTyped, Shaped
<1>2. CASE db.address[new] = None /\ db' = [db EXCEPT !.address = t]
    <2>1. /\ db.address \in [Addresses -> AddressRow \cup {None}]
          /\ \A x \in X : x \in Addresses /\ db.address[x] # None /\ db.address[x].customer = c
          /\ Grown(db.address, db.address) /\ OneDefault(db.address)
          /\ default => \A x \in Addresses :
                /\ db.address[x] # None /\ db.address[x].customer = c
                /\ db.address[x].default /\ ~db.address[x].deleted
                => x \in X
        BY <1>1, DefaultRows
    <2>0. row \in AddressRow
        BY <1>1 DEF AddressRow
    <2>2. row \in AddressRow /\ row # None
        BY <2>0, IdsAssumption
    <2>3. row.default = default /\ row.customer = c
        OBVIOUS
    <2> HIDE DEF default, X, row, c
    <2>a. Marks(cleared, db.address, X, FALSE)
        BY <2>1, MarkedRows
    <2>4. /\ cleared \in [Addresses -> AddressRow \cup {None}]
          /\ \A x \in Addresses : x \notin X => cleared[x] = db.address[x]
          /\ \A x \in X : /\ cleared[x].customer = db.address[x].customer
                          /\ cleared[x].default = FALSE
        BY <2>a DEF Marks
    <2>5. Grown(db.address, cleared)
        BY <2>1, MarkedGrows
    <2> HIDE DEF cleared
    <2>6. t \in [Addresses -> AddressRow \cup {None}] /\ t[new] = row /\ \A x \in Addresses : x # new => t[x] = cleared[x]
        BY <2>2, <2>4
    <2> HIDE DEF t
    <2>7. Grown(db.address, t)
        BY <1>2, <2>5, <2>6 DEF Grown
    <2>8. \A x \in Addresses : x # new /\ t[x] # None /\ t[x].default /\ ~t[x].deleted =>
                t[x] = db.address[x] /\ (default => t[x].customer # c)
        BY <2>1, <2>4, <2>6
    <2>9. OneDefault(t)
        BY <2>1, <2>3, <2>6, <2>8 DEF OneDefault
    <2> QED
        BY <1>1, <1>2, <2>6, <2>7, <2>9, AddressesKeep
<1>3. CASE Refuse(r)
    BY <1>1, <1>3, RequestEnds, KeysKept DEF Refuse
<1> QED
    BY <1>2, <1>3 DEF CreateAddress

\* The address a handler changes is the customer's, and as its view shows it.
LEMMA AddressSeen ==
    ASSUME AccessInv, NEW r \in Requests, At(r, "address"), AddressStands(r)
    PROVE  LET x == tx[r].request.on
               c == tx[r].customer
               seen == tx[r].view.address
           IN  /\ x \in Addresses /\ db.address[x] # None /\ db.address[x].customer = c
               /\ db.address[x].default = seen[x].default
               /\ ~db.address[x].deleted
               /\ \A y \in Saved(seen, c) :
                    y \in Addresses /\ db.address[y] # None /\ db.address[y].customer = c
<1> DEFINE x == tx[r].request.on
           c == tx[r].customer
           seen == tx[r].view.address
<1>1. \A y \in Addresses : seen[y] # None =>
        /\ db.address[y] # None /\ db.address[y].customer = seen[y].customer
        /\ seen[y].version = db.address[y].version => db.address[y].default = seen[y].default
    BY DEF AccessInv, RequestsInformed, Informed, At
<1>2. \A y \in Saved(seen, c) : y \in Addresses /\ seen[y] # None /\ seen[y].customer = c
    BY DEF Saved
<1>3. \A y \in Saved(seen, c) : y \in Addresses /\ db.address[y] # None /\ db.address[y].customer = c
    BY <1>1, <1>2
<1>4. x \in Saved(seen, c) /\ ~db.address[x].deleted /\ db.address[x].version = seen[x].version
    BY DEF AddressStands
<1>5. db.address[x].default = seen[x].default
    BY <1>1, <1>2, <1>4
<1> QED
    BY <1>3, <1>4, <1>5

LEMMA UpdateAddressKeeps ==
    ASSUME AccessInv, NEW r \in Requests, UpdateAddress(r)
    PROVE  AccessInv'
<1> DEFINE x == tx[r].request.on
           c == tx[r].customer
           seen == tx[r].view.address
           flag == tx[r].request.default
           others == Saved(seen, c) \ {x}
           gives == seen[x].default /\ flag = FALSE
           X == IF flag = TRUE THEN Defaults(c) \ {x} ELSE {}
           cleared == Marked(db.address, X, FALSE)
           kept == IF flag = None THEN db.address[x].default ELSE flag
           written == Marked(cleared, {x}, kept)
           Passed(y) == Marked(written, {y} \ {z \in others : db.address[z].deleted}, TRUE)
<1>1. /\ c \in Customers /\ UNCHANGED <<redis, past>> /\ End(r) /\ At(r, "address")
      /\ tx[r].request \in AddressRequests
    BY DEF UpdateAddress, Refuse, At, AccessInv, AccessTyped, Shaped
<1>2. CASE /\ AddressStands(r)
           /\ \/ ~gives /\ db' = [db EXCEPT !.address = written]
              \/ gives /\ \E y \in others : db' = [db EXCEPT !.address = Passed(y)]
    <2>1. /\ x \in Addresses /\ db.address[x] # None /\ db.address[x].customer = c
          /\ db.address[x].default = seen[x].default
          /\ ~db.address[x].deleted
          /\ \A y \in others : y \in Addresses /\ db.address[y] # None /\ db.address[y].customer = c /\ y # x
        BY <1>1, <1>2, AddressSeen
    <2>2. /\ db.address \in [Addresses -> AddressRow \cup {None}]
          /\ \A y \in X : y \in Addresses /\ db.address[y] # None /\ db.address[y].customer = c /\ y # x
          /\ Grown(db.address, db.address) /\ OneDefault(db.address)
          /\ flag = TRUE => \A y \in Addresses :
                /\ db.address[y] # None /\ db.address[y].customer = c
                /\ db.address[y].default /\ ~db.address[y].deleted
                => y \in X \/ y = x
        BY <1>1, DefaultRows
    <2>3. /\ flag \in BOOLEAN \cup {None} /\ None \notin BOOLEAN
          /\ db.address[x].default \in BOOLEAN
        <3>1. db.address[x] \in AddressRow
            BY <2>1, <2>2
        <3>2. db.address[x].default \in BOOLEAN
            BY <3>1 DEF AddressRow
        <3>3. flag \in BOOLEAN \cup {None}
            BY <1>1 DEF AddressRequests
        <3> QED
            BY <3>2, <3>3, IdsAssumption
    <2>4. kept \in BOOLEAN
        BY <2>3
    <2>5. kept = TRUE => flag = TRUE \/ (db.address[x].default = TRUE /\ ~gives)
        BY <2>3
    <2>6. gives => kept = FALSE /\ db.address[x].default
        BY <2>1, <2>3
    <2> HIDE DEF x, c, seen, flag, others, gives, X, kept
    <2>a. Marks(cleared, db.address, X, FALSE)
        BY <2>2, MarkedRows
    <2>7. /\ cleared \in [Addresses -> AddressRow \cup {None}]
          /\ \A y \in Addresses : y \notin X => cleared[y] = db.address[y]
          /\ \A y \in X : /\ cleared[y] # None /\ cleared[y].customer = db.address[y].customer
                          /\ cleared[y].deleted = db.address[y].deleted
                          /\ cleared[y].default = FALSE
        BY <2>a DEF Marks
    <2>8. Grown(db.address, cleared)
        BY <2>2, MarkedGrows
    <2> HIDE DEF cleared
    <2>9. x \notin X /\ \A y \in {x} : y \in Addresses /\ cleared[y] # None
        BY <2>1, <2>2, <2>7
    <2>b. Marks(written, cleared, {x}, kept)
        BY <2>4, <2>7, <2>9, MarkedRows
    <2>10. /\ written \in [Addresses -> AddressRow \cup {None}]
           /\ \A y \in Addresses : y # x => written[y] = cleared[y]
           /\ written[x] # None /\ written[x].customer = c /\ written[x].default = kept
           /\ written[x].deleted = db.address[x].deleted
        BY <2>1, <2>7, <2>9, <2>b DEF Marks
    <2>11. Grown(db.address, written)
        BY <2>2, <2>4, <2>7, <2>8, <2>9, MarkedGrows
    <2> HIDE DEF written
    <2>12. \A y \in Addresses : y # x /\ written[y] # None /\ written[y].default /\ ~written[y].deleted =>
                written[y] = db.address[y] /\ (flag = TRUE => written[y].customer # c)
        BY <2>2, <2>7, <2>10
    <2>13. CASE ~gives /\ db' = [db EXCEPT !.address = written]
        <3>1. OneDefault(written)
            BY <2>1, <2>2, <2>5, <2>10, <2>12 DEF OneDefault
        <3> QED
            BY <1>1, <2>10, <2>11, <2>13, <3>1, AddressesKeep
    <2>14. ASSUME gives, NEW y \in others, db' = [db EXCEPT !.address = Passed(y)]
           PROVE  AccessInv'
        <3> DEFINE Y == {y} \ {z \in others : db.address[z].deleted}
        <3>1. \A z \in Y : z \in Addresses /\ written[z] # None
            BY <2>1, <2>11 DEF Grown
        <3>2. /\ y \in Addresses /\ y # x
              /\ \A z \in Y : z = y
            BY <2>1
        <3> HIDE DEF Y
        <3>3. Passed(y) = Marked(written, Y, TRUE)
            BY DEF Y
        <3> HIDE DEF Passed
        <3>a. Marks(Passed(y), written, Y, TRUE)
            BY <2>10, <3>1, <3>3, MarkedRows
        <3>4. /\ Passed(y) \in [Addresses -> AddressRow \cup {None}]
              /\ \A z \in Addresses : z # y => Passed(y)[z] = written[z]
              /\ \A z \in Addresses : z \notin Y => Passed(y)[z] = written[z]
              /\ \A z \in Y : Passed(y)[z].customer = written[z].customer
            BY <3>2, <3>a DEF Marks
        <3>b. /\ db.address \in [Addresses -> AddressRow \cup {None}]
              /\ written \in [Addresses -> AddressRow \cup {None}]
            BY <2>2, <2>10
        <3>c. Grown(db.address, Marked(written, Y, TRUE))
            BY <2>11, <3>1, <3>b, MarkedGrows
        <3>5. Grown(db.address, Passed(y))
            BY <3>3, <3>c
        <3>6. written[y].customer = c
            BY <2>1, <2>11, <3>2 DEF Grown
        <3>7. \A z \in Addresses : z # y /\ Passed(y)[z] # None /\ Passed(y)[z].default /\ ~Passed(y)[z].deleted =>
                Passed(y)[z] = db.address[z] /\ Passed(y)[z].customer # c
            <4> SUFFICES ASSUME NEW z \in Addresses, z # y, Passed(y)[z] # None,
                                Passed(y)[z].default, ~Passed(y)[z].deleted
                         PROVE  Passed(y)[z] = db.address[z] /\ Passed(y)[z].customer # c
                OBVIOUS
            <4>1. Passed(y)[z] = written[z]
                BY <3>4
            <4>2. z # x
                BY <2>6, <2>10, <2>14, <4>1
            <4>3. written[z] = db.address[z]
                BY <2>12, <4>1, <4>2
            <4> QED
                BY <2>1, <2>2, <2>6, <2>14, <4>1, <4>2, <4>3 DEF OneDefault
        <3>8. Passed(y)[y].customer = c
            BY <3>2, <3>4, <3>6
        <3>9. OneDefault(Passed(y))
            BY <2>2, <3>7, <3>8 DEF OneDefault
        <3> QED
            BY <1>1, <2>14, <3>4, <3>5, <3>9, AddressesKeep
    <2> QED
        BY <1>2, <2>13, <2>14
<1>3. CASE Refuse(r)
    BY <1>1, <1>3, RequestEnds, KeysKept DEF Refuse
<1> QED
    BY <1>2, <1>3 DEF UpdateAddress

LEMMA RemoveAddressKeeps ==
    ASSUME AccessInv, NEW r \in Requests, RemoveAddress(r)
    PROVE  AccessInv'
<1> DEFINE x == tx[r].request.on
           c == tx[r].customer
           seen == tx[r].view.address
           others == Saved(seen, c) \ {x}
           left == {y \in others : ~db.address[y].deleted}
           marked == Marked(db.address, {x}, FALSE)
           written == [marked EXCEPT ![x].deleted = TRUE]
           Passed(y) == Marked(written, {y} \cap left, TRUE)
<1>1. /\ c \in Customers /\ UNCHANGED <<redis, past>> /\ End(r) /\ At(r, "address")
    BY DEF RemoveAddress, Refuse, At, AccessInv, AccessTyped, Shaped
<1>2. CASE /\ AddressStands(r)
           /\ \/ db' = [db EXCEPT !.address = written]
              \/ seen[x].default /\ \E y \in others : db' = [db EXCEPT !.address = Passed(y)]
    <2>1. /\ x \in Addresses /\ db.address[x] # None /\ db.address[x].customer = c
          /\ db.address[x].default = seen[x].default
          /\ ~db.address[x].deleted
          /\ \A y \in others : y \in Addresses /\ db.address[y] # None /\ db.address[y].customer = c /\ y # x
        BY <1>1, <1>2, AddressSeen
    <2>2. /\ db.address \in [Addresses -> AddressRow \cup {None}]
          /\ Grown(db.address, db.address) /\ OneDefault(db.address)
          /\ \A y \in {x} : y \in Addresses /\ db.address[y] # None
        BY <1>1, <2>1, DefaultRows
    <2> HIDE DEF x, c, seen, others
    <2>a. Marks(marked, db.address, {x}, FALSE)
        BY <2>2, MarkedRows
    <2>3. /\ marked \in [Addresses -> AddressRow \cup {None}]
          /\ \A y \in Addresses : y # x => marked[y] = db.address[y]
          /\ marked[x] # None /\ marked[x].customer = db.address[x].customer /\ marked[x].default = FALSE
          /\ marked[x].version = db.address[x].version + 1 /\ db.address[x].version \in Nat
        BY <2>1, <2>a DEF Marks
    <2>4. Grown(db.address, marked)
        BY <2>2, MarkedGrows
    <2> HIDE DEF marked
    <2>5. /\ [marked[x] EXCEPT !.deleted = TRUE] \in AddressRow
          /\ [marked[x] EXCEPT !.deleted = TRUE].version = marked[x].version
          /\ [marked[x] EXCEPT !.deleted = TRUE].customer = marked[x].customer
          /\ [marked[x] EXCEPT !.deleted = TRUE].default = FALSE
        <3>1. marked[x] \in AddressRow
            BY <2>1, <2>3
        <3> QED
            BY <2>3, <3>1 DEF AddressRow
    <2>6. /\ written \in [Addresses -> AddressRow \cup {None}]
          /\ \A y \in Addresses : y # x => written[y] = db.address[y]
          /\ written[x] # None /\ written[x].customer = marked[x].customer /\ written[x].default = FALSE
          /\ written[x].version = marked[x].version
        <3>1. written = [marked EXCEPT ![x] = [marked[x] EXCEPT !.deleted = TRUE]]
            OBVIOUS
        <3>2. [marked[x] EXCEPT !.deleted = TRUE] # None
            BY <2>5, IdsAssumption
        <3> DEFINE row == [marked[x] EXCEPT !.deleted = TRUE]
        <3> HIDE DEF row, written
        <3> QED
            BY <2>1, <2>3, <2>5, <3>1, <3>2 DEF row
    <2> HIDE DEF written
    <2>7. Grown(db.address, written)
        <3>1. \A y \in Addresses : y # x => marked[y] = written[y]
            BY <2>3, <2>6
        <3> QED
            BY <2>1, <2>3, <2>4, <2>6 DEF Grown
    <2>8. CASE db' = [db EXCEPT !.address = written]
        <3>1. OneDefault(written)
            BY <2>2, <2>6 DEF OneDefault
        <3> QED
            BY <1>1, <2>6, <2>7, <2>8, <3>1, AddressesKeep
    <2>9. ASSUME seen[x].default, NEW y \in others, db' = [db EXCEPT !.address = Passed(y)]
          PROVE  AccessInv'
        <3> DEFINE Y == {y} \cap left
        <3>1. \A z \in Y : z \in Addresses /\ written[z] # None
            BY <2>1, <2>7 DEF Grown
        <3>2. /\ y \in Addresses /\ y # x
              /\ \A z \in Y : z = y
            BY <2>1
        <3> HIDE DEF Y
        <3>3. Passed(y) = Marked(written, Y, TRUE)
            BY DEF Y
        <3> HIDE DEF Passed
        <3>a. Marks(Passed(y), written, Y, TRUE)
            BY <2>6, <3>1, <3>3, MarkedRows
        <3>4. /\ Passed(y) \in [Addresses -> AddressRow \cup {None}]
              /\ \A z \in Addresses : z # y => Passed(y)[z] = written[z]
              /\ \A z \in Addresses : z \notin Y => Passed(y)[z] = written[z]
              /\ \A z \in Y : Passed(y)[z].customer = written[z].customer
            BY <3>2, <3>a DEF Marks
        <3>5. Grown(db.address, Passed(y))
            BY <2>2, <2>6, <2>7, <3>1, <3>3, MarkedGrows
        <3>6. \A z \in Addresses : z # y /\ Passed(y)[z] # None /\ Passed(y)[z].default /\ ~Passed(y)[z].deleted =>
                Passed(y)[z] = db.address[z] /\ Passed(y)[z].customer # c
            <4> SUFFICES ASSUME NEW z \in Addresses, z # y, Passed(y)[z] # None,
                                Passed(y)[z].default, ~Passed(y)[z].deleted
                         PROVE  Passed(y)[z] = db.address[z] /\ Passed(y)[z].customer # c
                OBVIOUS
            <4>1. Passed(y)[z] = written[z]
                BY <3>4
            <4>2. z # x /\ written[z] = db.address[z]
                BY <2>6, <4>1
            <4> QED
                BY <2>1, <2>2, <2>9, <4>1, <4>2 DEF OneDefault
        <3>7. Passed(y)[y].customer = c
            BY <2>1, <2>6, <3>2, <3>4
        <3>8. OneDefault(Passed(y))
            BY <2>2, <3>6, <3>7 DEF OneDefault
        <3> QED
            BY <1>1, <2>9, <3>4, <3>5, <3>8, AddressesKeep
    <2> QED
        BY <1>2, <2>8, <2>9
<1>3. CASE Refuse(r)
    BY <1>1, <1>3, RequestEnds, KeysKept DEF Refuse
<1> QED
    BY <1>2, <1>3 DEF RemoveAddress

-----------------------------------------------------------------------------
(* The invariant *)

LEMMA AccessInvInit == AccessInit => AccessInv
<1> SUFFICES ASSUME NEW sc \in Scenarios, db = sc.start, ops = sc.ops,
                    redis = [challenge |-> [ch \in Challenges |-> None],
                             challengeLock |-> [ch \in Challenges |-> None],
                             state |-> {},
                             onboarding |-> [o \in Onboardings |-> None],
                             onboardingLock |-> [o \in Onboardings |-> None]],
                    tx = [r \in Requests |-> None],
                    past = [steps |-> [a \in Admins |-> <<>>], resets |-> [t \in Tokens |-> 0]]
             PROVE  AccessInv
    BY DEF AccessInit
<1>1. LegalStart(db)
    BY ScenarioAssumption
<1>2. KeysTyped
    <2>1. redis \in Keys
        BY DEF Keys
    <2>2. \A o \in Onboardings : redis.onboarding[o] = None
        OBVIOUS
    <2> QED
        BY <2>1, <2>2 DEF KeysTyped
<1>3. \A r \in Requests : tx[r] = None
    OBVIOUS
<1>4. past \in [steps: [Admins -> Seq(1 .. MaxStep)], resets: [Tokens -> Nat]]
    <2>1. <<>> \in Seq(1 .. MaxStep)
        BY EmptySeq
    <2> QED
        BY <2>1
<1>5. \A a \in Admins : past.steps[a] = <<>> /\ Len(past.steps[a]) = 0
    BY EmptySeq
<1>6. \A t \in Tokens : past.resets[t] = 0
    OBVIOUS
<1>7. AccessTyped
    BY <1>1, <1>2, <1>3, <1>4 DEF AccessTyped, LegalStart
<1>8. RequestsInformed /\ RoleHeld
    BY <1>3 DEF RequestsInformed, RoleHeld, At
<1>9. StepsBelow /\ StepsAdvance
    BY <1>5 DEF StepsBelow, StepsAdvance
<1>10. ResetsSpent
    BY <1>6 DEF ResetsSpent
<1> QED
    BY <1>1, <1>7, <1>8, <1>9, <1>10 DEF AccessInv, LegalStart

LEMMA AdminStepKeeps == ASSUME AccessInv, AdminStep PROVE AccessInv'
<1>1. ASSUME NEW r \in Requests, NEW a \in Admins, BeginLogin(r, a) PROVE AccessInv'
    BY <1>1, BeginLoginKeeps
<1>2. ASSUME NEW r \in Requests, NEW ch \in Challenges, IssueChallenge(r, ch) PROVE AccessInv'
    BY <1>2, IssueChallengeKeeps
<1>3. ASSUME NEW r \in Requests, NEW ch \in Challenges, NEW code \in 1 .. MaxStep, VerifyCode(r, ch, code)
      PROVE  AccessInv'
    BY <1>3, VerifyCodeKeeps
<1>4. ASSUME NEW r \in Requests, AdvanceStep(r) PROVE AccessInv'
    BY <1>4, AdvanceStepKeeps
<1>5. ASSUME NEW ch \in Challenges, ChallengeExpires(ch) PROVE AccessInv'
    BY <1>5, ChallengeExpiresKeeps
<1>6. ASSUME NEW a \in Admins, Bootstrap(a) PROVE AccessInv'
    BY <1>6, BootstrapKeeps
<1>7. ASSUME NEW a \in Admins, NEW b \in Admins, CreateAdmin(a, b) PROVE AccessInv'
    BY <1>7, CreateAdminKeeps
<1>8. ASSUME NEW a \in Admins, AssignSuper(a) PROVE AccessInv'
    BY <1>8, AssignSuperKeeps
<1>9. ASSUME NEW r \in Requests, NEW a \in Admins, NEW b \in Admins,
             NEW action \in {"suspend", "reactivate", "anonymize"}, AdminLifecycleBegin(r, a, b, action)
      PROVE  AccessInv'
    BY <1>9, AdminLifecycleBeginKeeps
<1>10. ASSUME NEW r \in Requests, AdminLifecycleCommit(r) PROVE AccessInv'
    BY <1>10, AdminLifecycleCommitKeeps
<1> QED
    BY <1>1, <1>2, <1>3, <1>4, <1>5, <1>6, <1>7, <1>8, <1>9, <1>10 DEF AdminStep

LEMMA GoogleStepKeeps == ASSUME AccessInv, GoogleStep PROVE AccessInv'
<1>1. ASSUME NEW st \in States, StartGoogle(st) PROVE AccessInv'
    BY <1>1, StartGoogleKeeps
<1>2. ASSUME NEW r \in Requests, NEW st \in States, NEW g \in Subjects, Callback(r, st, g) PROVE AccessInv'
    BY <1>2, CallbackKeeps
<1>3. ASSUME NEW r \in Requests, ResolveIdentity(r) PROVE AccessInv'
    BY <1>3, ResolveIdentityKeeps
<1>4. ASSUME NEW r \in Requests, NEW o \in Onboardings, MatchEmail(r, o) PROVE AccessInv'
    BY <1>4, MatchEmailKeeps
<1>5. ASSUME NEW r \in Requests, NEW o \in Onboardings, Claim(r, o) PROVE AccessInv'
    BY <1>5, ClaimKeeps
<1>6. ASSUME NEW r \in Requests, CompleteCreation(r) PROVE AccessInv'
    BY <1>6, CompleteCreationKeeps
<1>7. ASSUME NEW r \in Requests, NEW c \in Customers, CreateGoogleCustomer(r, c) PROVE AccessInv'
    BY <1>7, CreateGoogleCustomerKeeps
<1>8. ASSUME NEW r \in Requests, NEW correct \in BOOLEAN, CompleteLink(r, correct) PROVE AccessInv'
    BY <1>8, CompleteLinkKeeps
<1>9. ASSUME NEW r \in Requests, Link(r) PROVE AccessInv'
    BY <1>9, LinkKeeps
<1>10. ASSUME NEW r \in Requests, FinishOnboarding(r) PROVE AccessInv'
    BY <1>10, FinishOnboardingKeeps
<1>11. ASSUME NEW o \in Onboardings, OnboardingExpires(o) PROVE AccessInv'
    BY <1>11, OnboardingExpiresKeeps
<1> QED
    BY <1>1, <1>2, <1>3, <1>4, <1>5, <1>6, <1>7, <1>8, <1>9, <1>10, <1>11 DEF GoogleStep

LEMMA CustomerStepKeeps == ASSUME AccessInv, CustomerStep PROVE AccessInv'
<1>1. ASSUME NEW r \in Requests, NEW e \in Emails, RegisterBegin(r, e) PROVE AccessInv'
    BY <1>1, RegisterBeginKeeps
<1>2. ASSUME NEW r \in Requests, NEW c \in Customers, Register(r, c) PROVE AccessInv'
    BY <1>2, RegisterKeeps
<1>3. ASSUME NEW r \in Requests, NEW c \in Customers, Login(r, c) PROVE AccessInv'
    BY <1>3, LoginKeeps
<1>4. ASSUME NEW r \in Requests, NEW c \in Customers, RequestResetBegin(r, c) PROVE AccessInv'
    BY <1>4, RequestResetBeginKeeps
<1>5. ASSUME NEW r \in Requests, NEW t \in Tokens, RequestResetCommit(r, t) PROVE AccessInv'
    BY <1>5, RequestResetCommitKeeps
<1>6. ASSUME NEW c \in Customers, NEW t \in Tokens, TriggerReset(c, t) PROVE AccessInv'
    BY <1>6, TriggerResetKeeps
<1>7. ASSUME NEW r \in Requests, NEW t \in Tokens, ResetBegin(r, t) PROVE AccessInv'
    BY <1>7, ResetBeginKeeps
<1>8. ASSUME NEW r \in Requests, ResetCommit(r) PROVE AccessInv'
    BY <1>8, ResetCommitKeeps
<1>9. ASSUME NEW t \in Tokens, TokenExpires(t) PROVE AccessInv'
    BY <1>9, TokenExpiresKeeps
<1>10. ASSUME NEW r \in Requests, NEW a \in Admins, NEW c \in Customers,
              NEW action \in {"suspend", "reactivate", "disable", "anonymize"},
              CustomerLifecycleBegin(r, a, c, action)
       PROVE  AccessInv'
    <2>1. action \in Actions
        BY DEF Actions
    <2> QED
        BY <1>10, <2>1, CustomerLifecycleBeginKeeps
<1>11. ASSUME NEW r \in Requests, CustomerLifecycleCommit(r) PROVE AccessInv'
    BY <1>11, CustomerLifecycleCommitKeeps
<1>12. ASSUME NEW r \in Requests, Anonymize(r) PROVE AccessInv'
    BY <1>12, AnonymizeKeeps
<1> QED
    BY <1>1, <1>2, <1>3, <1>4, <1>5, <1>6, <1>7, <1>8, <1>9, <1>10, <1>11, <1>12 DEF CustomerStep

LEMMA SessionStepKeeps == ASSUME AccessInv, SessionStep PROVE AccessInv'
<1>1. ASSUME NEW r \in Requests, NEW s \in Sessions, NEW previous \in Sessions \cup {None},
             Issue(r, s, previous)
      PROVE  AccessInv'
    BY <1>1, IssueKeeps
<1>2. ASSUME NEW s \in Sessions, Resolve(s) PROVE AccessInv'
    BY <1>2, ResolveKeeps DEF Resolve
<1>3. ASSUME NEW u \in Admins \cup Customers, Revoke(u) PROVE AccessInv'
    BY <1>3, ResolveKeeps DEF Revoke
<1> QED
    BY <1>1, <1>2, <1>3 DEF SessionStep

LEMMA DataStepKeeps == ASSUME AccessInv, DataStep PROVE AccessInv'
<1>1. ASSUME NEW r \in Requests, NEW c \in Customers, NEW q \in CartRequests, DataBegin(r, "cart", c, q)
      PROVE  AccessInv'
    BY <1>1, DataBeginKeeps
<1>2. ASSUME NEW r \in Requests, NEW c \in Customers, NEW q \in AddressRequests,
             DataBegin(r, "address", c, q)
      PROVE  AccessInv'
    BY <1>2, DataBeginKeeps
<1>3. ASSUME NEW r \in Requests, NEW c \in Customers, NEW q \in WishRequests,
             DataBegin(r, "wishlist", c, q)
      PROVE  AccessInv'
    BY <1>3, DataBeginKeeps
<1>4. ASSUME NEW r \in Requests, NEW k \in Carts, CartCommit(r, k) PROVE AccessInv'
    BY <1>4, CartCommitKeeps
<1>5. ASSUME NEW k \in Carts, CartAges(k) PROVE AccessInv'
    BY <1>5, CartAgesKeeps
<1>6. ASSUME NEW v \in Variants, CatalogueChanges(v) PROVE AccessInv'
    BY <1>6, CatalogueChangesKeeps
<1>7. ASSUME NEW r \in Requests, NEW x \in Addresses, CreateAddress(r, x) PROVE AccessInv'
    BY <1>7, CreateAddressKeeps
<1>8. ASSUME NEW r \in Requests, UpdateAddress(r) PROVE AccessInv'
    BY <1>8, UpdateAddressKeeps
<1>9. ASSUME NEW r \in Requests, RemoveAddress(r) PROVE AccessInv'
    BY <1>9, RemoveAddressKeeps
<1>10. ASSUME NEW r \in Requests, WishCommit(r) PROVE AccessInv'
    BY <1>10, WishCommitKeeps
<1> QED
    BY <1>1, <1>2, <1>3, <1>4, <1>5, <1>6, <1>7, <1>8, <1>9, <1>10 DEF DataStep

LEMMA AccessInvNext == AccessInv /\ [AccessNext]_vars => AccessInv'
<1> SUFFICES ASSUME AccessInv, [AccessNext]_vars PROVE AccessInv'
    OBVIOUS
<1>1. CASE AdminStep
    BY <1>1, AdminStepKeeps
<1>2. CASE GoogleStep
    BY <1>2, GoogleStepKeeps
<1>3. CASE CustomerStep
    BY <1>3, CustomerStepKeeps
<1>4. CASE SessionStep
    BY <1>4, SessionStepKeeps
<1>5. CASE DataStep
    BY <1>5, DataStepKeeps
<1>6. CASE UNCHANGED vars
    <2>1. UNCHANGED <<db, redis, tx, past>>
        BY <1>6 DEF vars
    <2> QED
        BY <2>1 DEF AccessInv, AccessTyped, KeysTyped, Shaped, RequestsInformed, Informed, RoleHeld, At,
                    SuperLeft, StepsBelow, StepsAdvance, AccountsApart, HandedOut, ResetsSpent, ListsApart
<1> QED
    BY <1>1, <1>2, <1>3, <1>4, <1>5, <1>6 DEF AccessNext

\* AccessInv holds in every reachable state.
THEOREM AccessInvHolds == AccessSpec => []AccessInv
BY AccessInvInit, AccessInvNext, PTL DEF AccessSpec

-----------------------------------------------------------------------------
(* What follows *)

\* The rows and keys that handlers leave are well formed.
THEOREM AccessTypeCorrect == AccessSpec => []AccessTypeOK
<1>1. AccessInv => AccessTypeOK
    BY DEF AccessInv, AccessTyped, KeysTyped, AccessTypeOK
<1> QED
    BY <1>1, AccessInvHolds, PTL

\* However lifecycle requests overlap, the Role lock leaves an ACTIVE
\* super-administrator if there is one at all.
THEOREM SuperAlwaysRemains == AccessSpec => []SuperRemains
<1>1. AccessInv => SuperRemains
    BY DEF AccessInv, SuperLeft, SuperRemains
<1> QED
    BY <1>1, AccessInvHolds, PTL

\* No time step is accepted twice or out of order for one secret: completeTotp
\* advances lastUsedStep conditionally.
THEOREM StepsAlwaysAdvance == AccessSpec => []StepsAdvance
<1>1. AccessInv => StepsAdvance
    BY DEF AccessInv
<1> QED
    BY <1>1, AccessInvHolds, PTL

\* A set with at most one element has cardinality at most 1.
LEMMA AtMostOne ==
    ASSUME NEW S, \A x, y \in S : x = y
    PROVE  Cardinality(S) <= 1
<1>1. CASE S = {}
    BY <1>1, FS_EmptySet
<1>2. ASSUME NEW x \in S PROVE Cardinality(S) <= 1
    <2>1. S = {x}
        OBVIOUS
    <2> QED
        BY <2>1, FS_Singleton
<1> QED
    BY <1>1, <1>2

\* Registrations, Google sign-ups and links that overlap give an address or a
\* subject to one account only, and never leave an ACTIVE account without a way in.
THEOREM AccountsStayDistinct == AccessSpec => []AccountsDistinct
<1>1. ASSUME AccessInv PROVE AccountsDistinct
    <2>1. db.identity \in SUBSET (Subjects \X Customers) /\ AccountsApart(db) /\ None \notin Emails
        BY <1>1, IdsAssumption DEF AccessInv, AccessTyped, Rows
    <2>2. ASSUME NEW e \in Emails PROVE Cardinality(WithEmail(e)) <= 1
        <3>1. \A c, d \in WithEmail(e) : c = d
            BY <2>1 DEF WithEmail, AccountsApart
        <3> QED
            BY <3>1, AtMostOne
    <2>3. ASSUME NEW g \in Subjects PROVE Cardinality(CustomersOf(g)) <= 1
        <3>1. \A c, d \in CustomersOf(g) : c = d
            BY <2>1 DEF CustomersOf, AccountsApart
        <3> QED
            BY <3>1, AtMostOne
    <2>4. ASSUME NEW c \in Customers PROVE Cardinality(SubjectsOf(c)) <= 1
        <3>1. \A g, h \in SubjectsOf(c) : g = h
            BY <2>1 DEF SubjectsOf, AccountsApart
        <3> QED
            BY <3>1, AtMostOne
    <2>5. ASSUME NEW c \in Customers, db.customer[c].status = "ACTIVE", db.customer[c].password = 0
          PROVE  SubjectsOf(c) # {}
        <3>1. PICK g \in Subjects : <<g, c>> \in db.identity
            BY <2>1, <2>5 DEF AccountsApart
        <3> QED
            BY <3>1 DEF SubjectsOf
    <2> QED
        BY <2>2, <2>3, <2>4, <2>5 DEF AccountsDistinct
<1> QED
    BY <1>1, AccessInvHolds, PTL

\* A reset token works once, and what was handed out under an earlier password
\* does not work after a reset, an anonymisation or a link.
THEOREM ResetsAlwaysHold == AccessSpec => []ResetsHold
<1>1. ASSUME AccessInv PROVE ResetsHold
    <2>1. db \in Rows /\ HandedOut(db) /\ ResetsSpent
        BY <1>1 DEF AccessInv, AccessTyped
    <2>2. \A s \in Sessions : Active(s) => db.session[s].password = PasswordOf(db.session[s].user)
        BY <2>1 DEF HandedOut, Active, PasswordOf
    <2> QED
        BY <2>1, <2>2 DEF HandedOut, ResetsSpent, ResetsHold
<1> QED
    BY <1>1, AccessInvHolds, PTL

\* One default address and one variant of a product on the wishlist, although
\* handlers decide by a view that is older than their lock.
THEOREM ListsStayConsistent == AccessSpec => []ListsConsistent
<1>1. ASSUME AccessInv PROVE ListsConsistent
    <2>1. ListsApart(db)
        BY <1>1 DEF AccessInv
    <2>2. ASSUME NEW c \in Customers PROVE Cardinality(Defaults(c)) <= 1
        <3>1. \A x, y \in Defaults(c) : x = y
            BY <2>1 DEF ListsApart, Defaults, Saved
        <3> QED
            BY <3>1, AtMostOne
    <2> QED
        BY <2>1, <2>2 DEF ListsApart, ListsConsistent
<1> QED
    BY <1>1, AccessInvHolds, PTL
=============================================================================
