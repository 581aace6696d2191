--------------------------- MODULE AccountsProofs ---------------------------
(***************************************************************************)
(* The properties of Accounts for any users, addresses, slugs, tokens and  *)
(* requests, however long tokens live and whenever passwords change.       *)
(***************************************************************************)
EXTENDS Accounts, FiniteSetTheorems, TLAPS

User == [there : BOOLEAN, email : Addresses \cup {None}, status : {"ACTIVE", "SUSPENDED"},
         verified : BOOLEAN, version : Nat, name : Names \cup {None}]

Token == [there : BOOLEAN, user : Users \cup {None}, purpose : Purposes, consumed : BOOLEAN,
          created : Nat, expires : Nat, madeAt : Nat]

Request == [pc : {"idle", "mail", "ask", "verify", "reset", "change", "login"},
            kind : {"none", "verify", "reset", "change", "login"} \cup Purposes,
            user : Users \cup {None}, token : Tokens \cup {None}, genuine : BOOLEAN,
            began : Nat, version : Nat,
            answer : {"none", "ok", "created", "accepted", "error", "invalid", "expired",
                      "unverified", "ACTIVE", "SUSPENDED"}]

Events == [event : {"EMAIL_VERIFIED", "PASSWORD_RESET"}, token : Tokens, at : Nat, version : Nat]

TypeOK ==
    /\ users \in [Users -> User]
    /\ organizations \in [Slugs -> Users \cup {None}]
    /\ tokens \in [Tokens -> Token]
    /\ audit \subseteq Events
    /\ sessions \subseteq [user : Users, version : Nat]
    /\ mailbox \subseteq Tokens
    /\ clock \in Nat
    /\ req \in [Requests -> Request]
    /\ requireVerifiedEmail \in BOOLEAN

-----------------------------------------------------------------------------
(* The inductive invariant. *)

(* Addresses are stored as normalizeEmail writes them. *)
Normal == {[box |-> b, upper |-> FALSE] : b \in Boxes}
UsersWhole ==
    /\ \A u \in Users : users[u].there => users[u].email \in Normal
    /\ RegisteredWhole

Live(t) == tokens[t].there /\ ~tokens[t].consumed

TokensWhole ==
    \A t \in Tokens : tokens[t].there => tokens[t].user \in Users /\ users[tokens[t].user].there

LiveOnce ==
    \A t, x \in Tokens :
        Live(t) /\ Live(x) /\ tokens[t].user = tokens[x].user /\ tokens[t].purpose = tokens[x].purpose
            => t = x

(* A change of the password leaves no reset that was asked for before it. *)
ResetsFresh ==
    \A t \in Tokens : Live(t) /\ tokens[t].purpose = "PASSWORD_RESET" =>
        tokens[t].madeAt = users[tokens[t].user].version

(* What an event says of its token, which is used up. *)
Witnessed(e) ==
    LET t == e.token
    IN  /\ tokens[t].there /\ tokens[t].consumed
        /\ e.at < tokens[t].expires
        /\ e.event = "EMAIL_VERIFIED" <=> tokens[t].purpose = "EMAIL_VERIFICATION"
        /\ e.event = "PASSWORD_RESET" => e.version = tokens[t].madeAt
        /\ e.event = "EMAIL_VERIFIED" => users[tokens[t].user].verified

EventsRight ==
    /\ \A e, f \in audit : e.token = f.token => e = f
    /\ \A e \in audit : Witnessed(e)

Fits(r) ==
    /\ req[r].pc = "ask" => req[r].user \in Users /\ users[req[r].user].there
    /\ req[r].pc \in {"mail", "verify", "reset"} => req[r].token \in Tokens
    /\ req[r].pc \in {"change", "login"} => req[r].user \in Users

RequestsFit == \A r \in Requests : Fits(r)

Inv ==
    /\ TypeOK /\ UsersWhole /\ TokensWhole /\ LiveOnce /\ ResetsFresh /\ EventsRight
    /\ RequestsFit

-----------------------------------------------------------------------------
(* Requests. *)

LEMMA IdleType ==
    Idle \in Request /\ Idle.pc = "idle"
BY DEF Idle, Request

Answers == {"none", "ok", "created", "accepted", "error", "invalid", "expired",
            "unverified", "ACTIVE", "SUSPENDED"}

(* Users only gain. *)
UsersKept ==
    \A u \in Users : users[u].there =>
        /\ users'[u].there /\ users'[u].email = users[u].email
        /\ users[u].verified => users'[u].verified

(* A request that changes to x, or to nothing that was not there. *)
LEMMA RequestMoves ==
    ASSUME Inv, NEW r \in Requests, NEW x \in Request, req' = [req EXCEPT ![r] = x], UsersKept,
           x.pc = "ask" => x.user \in Users /\ users[x.user].there,
           x.pc \in {"mail", "verify", "reset"} => x.token \in Tokens,
           x.pc \in {"change", "login"} => x.user \in Users
    PROVE  req' \in [Requests -> Request] /\ RequestsFit' /\ req'[r] = x
<1>1. /\ req' \in [Requests -> Request] /\ req'[r] = x
      /\ \A q \in Requests \ {r} : req'[q] = req[q]
    BY DEF Inv, TypeOK
<1>2. \A q \in Requests : Fits(q)
    BY DEF Inv, RequestsFit
<1>3. \A q \in Requests : Fits(q)'
    <2> TAKE q \in Requests
    <2>1. CASE q = r
        BY <1>1, <2>1 DEF Fits, UsersKept
    <2>2. CASE q # r
        BY <1>1, <1>2, <2>2 DEF Fits, UsersKept
    <2> QED
        BY <2>1, <2>2
<1> QED
    BY <1>1, <1>3 DEF RequestsFit

LEMMA RequestsStay ==
    ASSUME Inv, UNCHANGED req, UsersKept
    PROVE  RequestsFit'
BY DEF Inv, RequestsFit, Fits, UsersKept

LEMMA AnswerMoves ==
    ASSUME Inv, NEW r \in Requests, NEW answer \in Answers, Answer(r, answer), UsersKept
    PROVE  /\ req' \in [Requests -> Request] /\ RequestsFit'
           /\ req'[r].pc = "idle" /\ req'[r].answer = answer
<1> PICK x : x = [Idle EXCEPT !.answer = answer]
    OBVIOUS
<1>1. x \in Request /\ x.pc = "idle" /\ x.answer = answer
    BY IdleType DEF Request, Answers
<1>2. req' = [req EXCEPT ![r] = x]
    BY DEF Answer
<1> QED
    BY <1>1, <1>2, RequestMoves

LEMMA MailMoves ==
    ASSUME Inv, NEW r \in Requests, NEW t \in Tokens, Mail(r, t), UsersKept
    PROVE  req' \in [Requests -> Request] /\ RequestsFit'
<1> PICK x : x = [Idle EXCEPT !.pc = "mail", !.token = t]
    OBVIOUS
<1>1. x \in Request /\ x.pc = "mail" /\ x.token = t
    BY IdleType DEF Request
<1>2. req' = [req EXCEPT ![r] = x]
    BY DEF Mail
<1> QED
    BY <1>1, <1>2, RequestMoves

-----------------------------------------------------------------------------
(* Steps that change no table. *)

LEMMA TablesFrame ==
    ASSUME Inv, UNCHANGED tables
    PROVE  /\ UsersWhole' /\ TokensWhole' /\ LiveOnce' /\ ResetsFresh' /\ EventsRight'
           /\ UsersKept
<1>1. UsersWhole'
    BY DEF Inv, tables, UsersWhole, RegisteredWhole
<1>2. TokensWhole' /\ LiveOnce' /\ ResetsFresh'
    BY DEF Inv, tables, TokensWhole, LiveOnce, ResetsFresh, Live
<1>3. EventsRight'
    BY DEF Inv, tables, EventsRight, Witnessed
<1>4. UsersKept
    BY DEF tables, UsersKept
<1> QED
    BY <1>1, <1>2, <1>3, <1>4

LEMMA QuietInv ==
    ASSUME Inv, UNCHANGED <<tables, requireVerifiedEmail>>,
           mailbox' \subseteq Tokens, clock' \in Nat,
           req' \in [Requests -> Request], RequestsFit'
    PROVE  Inv'
<1>1. TypeOK'
    BY DEF Inv, TypeOK, tables
<1> QED
    BY <1>1, TablesFrame DEF Inv

LEMMA RefuseInv ==
    ASSUME Inv, NEW r \in Requests, NEW answer \in Answers, Refuse(r, answer),
           UNCHANGED requireVerifiedEmail
    PROVE  Inv'
<1>1. Answer(r, answer) /\ UNCHANGED <<tables, mailbox, clock>>
    BY DEF Refuse
<1>2. req' \in [Requests -> Request] /\ RequestsFit'
    BY <1>1, TablesFrame, AnswerMoves
<1> QED
    BY <1>1, <1>2, QuietInv DEF Inv, TypeOK

LEMMA AskInv ==
    ASSUME Inv, NEW r \in Requests, NEW email \in Addresses, NEW purpose \in Purposes,
           AskForToken(r, email, purpose), UNCHANGED requireVerifiedEmail
    PROVE  Inv'
<1> PICK u \in GetUserForActionByNormalizedEmail(normalizeEmail(email)) :
        req' = [req EXCEPT ![r] = [Idle EXCEPT !.pc = "ask", !.kind = purpose, !.user = u,
                                               !.began = clock]]
    BY DEF AskForToken
<1> PICK x : x = [Idle EXCEPT !.pc = "ask", !.kind = purpose, !.user = u, !.began = clock]
    OBVIOUS
<1>1. u \in Users /\ users[u].there /\ clock \in Nat
    BY DEF GetUserForActionByNormalizedEmail, Inv, TypeOK
<1>2. x \in Request /\ x.pc = "ask" /\ x.user = u
    BY <1>1, IdleType DEF Request
<1>3. UNCHANGED <<tables, mailbox, clock>>
    BY DEF AskForToken
<1>4. req' \in [Requests -> Request] /\ RequestsFit'
    BY <1>1, <1>2, <1>3, TablesFrame, RequestMoves
<1> QED
    BY <1>3, <1>4, QuietInv DEF Inv, TypeOK

LEMMA PresentInv ==
    ASSUME Inv, NEW r \in Requests, NEW t \in Tokens, NEW genuine \in BOOLEAN,
           NEW kind \in {"verify", "reset"}, Present(r, t, genuine, kind),
           UNCHANGED requireVerifiedEmail
    PROVE  Inv'
<1> PICK x : x = [Idle EXCEPT !.pc = kind, !.kind = kind, !.token = t, !.genuine = genuine,
                              !.began = clock]
    OBVIOUS
<1>1. clock \in Nat
    BY DEF Inv, TypeOK
<1>2. x \in Request /\ x.pc = kind /\ x.token = t
    BY <1>1, IdleType DEF Request
<1>3. req' = [req EXCEPT ![r] = x] /\ UNCHANGED <<tables, mailbox, clock>>
    BY DEF Present
<1>4. req' \in [Requests -> Request] /\ RequestsFit'
    BY <1>2, <1>3, TablesFrame, RequestMoves
<1> QED
    BY <1>3, <1>4, QuietInv DEF Inv, TypeOK

LEMMA BeginChangeInv ==
    ASSUME Inv, NEW r \in Requests, NEW s \in sessions, BeginChange(r, s),
           UNCHANGED requireVerifiedEmail
    PROVE  Inv'
<1> PICK u, v : u = s.user /\ v = s.version
    OBVIOUS
<1> PICK x : x = [Idle EXCEPT !.pc = "change", !.kind = "change", !.user = u, !.version = v,
                              !.began = clock]
    OBVIOUS
<1>1. clock \in Nat /\ u \in Users /\ v \in Nat
    BY DEF Inv, TypeOK
<1>2. x \in Request /\ x.pc = "change" /\ x.user = u
    BY <1>1, IdleType DEF Request
<1>3. req' = [req EXCEPT ![r] = x] /\ UNCHANGED <<tables, mailbox, clock>>
    BY DEF BeginChange
<1>4. req' \in [Requests -> Request] /\ RequestsFit'
    BY <1>1, <1>2, <1>3, TablesFrame, RequestMoves
<1> QED
    BY <1>3, <1>4, QuietInv DEF Inv, TypeOK

LEMMA BeginLoginInv ==
    ASSUME Inv, NEW r \in Requests, NEW email \in Addresses,
           GetUserByNormalizedEmail(r, email), UNCHANGED requireVerifiedEmail
    PROVE  Inv'
<1> PICK u \in GetUserForActionByNormalizedEmail(normalizeEmail(email)) :
        req' = [req EXCEPT ![r] = [Idle EXCEPT !.pc = "login", !.kind = "login", !.user = u,
                                               !.version = users[u].version]]
    BY DEF GetUserByNormalizedEmail
<1> PICK v : v = users[u].version
    OBVIOUS
<1> PICK x : x = [Idle EXCEPT !.pc = "login", !.kind = "login", !.user = u, !.version = v]
    OBVIOUS
<1>1. u \in Users
    BY DEF GetUserForActionByNormalizedEmail
<1>2. v \in Nat
    BY <1>1 DEF Inv, TypeOK, User
<1>3. x \in Request /\ x.pc = "login" /\ x.user = u
    BY <1>1, <1>2, IdleType DEF Request
<1>4. req' = [req EXCEPT ![r] = x] /\ UNCHANGED <<tables, mailbox, clock>>
    BY DEF GetUserByNormalizedEmail
<1>5. req' \in [Requests -> Request] /\ RequestsFit'
    BY <1>1, <1>3, <1>4, TablesFrame, RequestMoves
<1> QED
    BY <1>4, <1>5, QuietInv DEF Inv, TypeOK

LEMMA MailInv ==
    ASSUME Inv, NEW r \in Requests, Deliver(r) \/ LoseMail(r), UNCHANGED requireVerifiedEmail
    PROVE  Inv'
<1>1. /\ req[r].pc = "mail" /\ Answer(r, "accepted") /\ UNCHANGED <<tables, clock>>
      /\ mailbox' \subseteq mailbox \cup {req[r].token}
    BY DEF Deliver, LoseMail
<1>2. req[r].token \in Tokens
    BY <1>1 DEF Inv, RequestsFit, Fits
<1>3. req' \in [Requests -> Request] /\ RequestsFit'
    BY <1>1, TablesFrame, AnswerMoves DEF Answers
<1> QED
    BY <1>1, <1>2, <1>3, QuietInv DEF Inv, TypeOK

LEMMA TickInv ==
    ASSUME Inv, Tick, UNCHANGED requireVerifiedEmail
    PROVE  Inv'
<1>1. UNCHANGED <<tables, mailbox, req>> /\ clock' \in Nat
    BY DEF Tick, Inv, TypeOK
<1>2. RequestsFit'
    BY <1>1, TablesFrame, RequestsStay
<1> QED
    BY <1>1, <1>2, QuietInv DEF Inv, TypeOK
-----------------------------------------------------------------------------
(* Steps on users. *)

LEMMA UserMoves ==
    ASSUME Inv, NEW u \in Users, NEW x \in User, users' = [users EXCEPT ![u] = x],
           x.there = users[u].there, x.email = users[u].email, users[u].verified => x.verified
    PROVE  /\ users' \in [Users -> User] /\ users'[u] = x
           /\ \A v \in Users \ {u} : users'[v] = users[v]
           /\ \A v \in Users : users'[v].there = users[v].there /\ users'[v].email = users[v].email
           /\ UsersKept
<1>1. /\ users' \in [Users -> User] /\ users'[u] = x
      /\ \A v \in Users \ {u} : users'[v] = users[v]
    BY DEF Inv, TypeOK
<1> QED
    BY <1>1 DEF UsersKept

LEMMA WholeKept ==
    ASSUME Inv, UNCHANGED organizations,
           \A v \in Users : users'[v].there = users[v].there /\ users'[v].email = users[v].email
    PROVE  UsersWhole'
BY DEF Inv, UsersWhole, RegisteredWhole

(* Only the flag of some tokens changes. *)
Consumes(S) ==
    \A x \in Tokens :
        /\ tokens'[x].there = tokens[x].there /\ tokens'[x].user = tokens[x].user
        /\ tokens'[x].purpose = tokens[x].purpose /\ tokens'[x].expires = tokens[x].expires
        /\ tokens'[x].madeAt = tokens[x].madeAt
        /\ tokens'[x].consumed <=> tokens[x].consumed \/ x \in S

LEMMA ConsumesNothing ==
    ASSUME Inv, UNCHANGED tokens
    PROVE  Consumes({})
BY DEF Inv, TypeOK, Token, Consumes

LEMMA ConsumesThose ==
    ASSUME Inv, NEW u \in Users, NEW purpose \in Purposes,
           tokens' = InvalidatePreviousActionTokens(tokens, u, purpose)
    PROVE  tokens' \in [Tokens -> Token] /\ Consumes(LiveTokens(u, purpose))
<1> PICK S : S = LiveTokens(u, purpose)
    OBVIOUS
<1>1. /\ tokens \in [Tokens -> Token]
      /\ tokens' = [t \in Tokens |-> IF t \in S THEN [tokens[t] EXCEPT !.consumed = TRUE]
                                                ELSE tokens[t]]
    BY DEF Inv, TypeOK, InvalidatePreviousActionTokens
<1>2. ASSUME NEW x \in Tokens
      PROVE  /\ tokens'[x] \in Token
             /\ tokens'[x].there = tokens[x].there /\ tokens'[x].user = tokens[x].user
             /\ tokens'[x].purpose = tokens[x].purpose /\ tokens'[x].expires = tokens[x].expires
             /\ tokens'[x].madeAt = tokens[x].madeAt
             /\ tokens'[x].consumed <=> tokens[x].consumed \/ x \in S
    <2> PICK old : old = tokens[x]
        OBVIOUS
    <2>1. old \in Token
        BY <1>1
    <2>2. CASE x \in S
        <3>1. tokens'[x] = [old EXCEPT !.consumed = TRUE]
            BY <1>1, <2>2
        <3> QED
            BY <2>1, <2>2, <3>1 DEF Token
    <2>3. CASE x \notin S
        <3>1. tokens'[x] = old
            BY <1>1, <2>3
        <3> QED
            BY <2>1, <2>3, <3>1 DEF Token
    <2> QED
        BY <2>2, <2>3
<1>3. tokens' \in [Tokens -> Token]
    BY <1>1, <1>2
<1> QED
    BY <1>2, <1>3 DEF Consumes

(* A live token is consumed with the others of its user and purpose. *)
LEMMA ConsumesOne ==
    ASSUME Inv, NEW t \in Tokens, NEW u \in Users, NEW purpose \in Purposes,
           t \in LiveTokens(u, purpose),
           tokens' = InvalidatePreviousActionTokens(ConsumeActionToken(tokens, t, u, purpose),
                                                    u, purpose)
    PROVE  tokens' = InvalidatePreviousActionTokens(tokens, u, purpose)
<1> PICK S : S = LiveTokens(u, purpose)
    OBVIOUS
<1> PICK table : table = [tokens EXCEPT ![t].consumed = TRUE]
    OBVIOUS
<1>1. /\ tokens \in [Tokens -> Token] /\ t \in S
      /\ tokens' = [x \in Tokens |-> IF x \in S THEN [table[x] EXCEPT !.consumed = TRUE]
                                                ELSE table[x]]
    BY DEF Inv, TypeOK, InvalidatePreviousActionTokens, ConsumeActionToken
<1>2. \A x \in Tokens : [table[x] EXCEPT !.consumed = TRUE] = [tokens[x] EXCEPT !.consumed = TRUE]
    <2> TAKE x \in Tokens
    <2>1. CASE x # t
        BY <1>1, <2>1
    <2>2. CASE x = t
        <3> PICK old : old = tokens[x]
            OBVIOUS
        <3>1. table[x] = [old EXCEPT !.consumed = TRUE] /\ old \in Token
            BY <1>1, <2>2
        <3>2. [[old EXCEPT !.consumed = TRUE] EXCEPT !.consumed = TRUE] = [old EXCEPT !.consumed = TRUE]
            BY <3>1 DEF Token
        <3> QED
            BY <3>1, <3>2
    <2> QED
        BY <2>1, <2>2
<1>3. \A x \in Tokens : x \notin S => table[x] = tokens[x]
    BY <1>1
<1>4. tokens' = [x \in Tokens |-> IF x \in S THEN [tokens[x] EXCEPT !.consumed = TRUE]
                                             ELSE tokens[x]]
    BY <1>1, <1>2, <1>3
<1> QED
    BY <1>4 DEF InvalidatePreviousActionTokens

(* What follows when tokens are only consumed and users only gain. *)
LEMMA TokensFrame ==
    ASSUME Inv, NEW S, Consumes(S), UsersKept
    PROVE  /\ TokensWhole' /\ LiveOnce'
           /\ \A e \in audit : Witnessed(e)'
<1>1. \A x \in Tokens : Live(x)' => Live(x)
    BY DEF Consumes, Live
<1>2. TokensWhole'
    BY DEF Inv, TokensWhole, Consumes, UsersKept
<1>3. LiveOnce'
    BY <1>1 DEF Inv, LiveOnce, Consumes
<1>4. ASSUME NEW e \in audit
      PROVE  Witnessed(e)'
    <2>1. Witnessed(e) /\ e.token \in Tokens
        BY DEF Inv, EventsRight, TypeOK, Events
    <2>2. tokens[e.token].user \in Users /\ users[tokens[e.token].user].there
        BY <2>1 DEF Inv, TokensWhole, Witnessed
    <2> QED
        BY <2>1, <2>2 DEF Witnessed, Consumes, UsersKept
<1> QED
    BY <1>2, <1>3, <1>4

(* Steps that change what no property of tokens is about. *)
LEMMA UserStepInv ==
    ASSUME Inv, NEW u \in Users, NEW x \in User, users' = [users EXCEPT ![u] = x],
           x.there = users[u].there, x.email = users[u].email, x.verified = users[u].verified,
           x.version = users[u].version,
           UNCHANGED <<organizations, tokens, audit, sessions, mailbox, clock, req,
                       requireVerifiedEmail>>
    PROVE  Inv'
<1>1. /\ users' \in [Users -> User] /\ UsersKept /\ users'[u] = x
      /\ \A v \in Users \ {u} : users'[v] = users[v]
      /\ \A v \in Users : users'[v].there = users[v].there /\ users'[v].email = users[v].email
    BY UserMoves
<1>2. TypeOK'
    BY <1>1 DEF Inv, TypeOK
<1>3. UsersWhole' /\ RequestsFit'
    BY <1>1, WholeKept, RequestsStay
<1>4. TokensWhole' /\ LiveOnce' /\ \A e \in audit : Witnessed(e)'
    BY <1>1, ConsumesNothing, TokensFrame
<1>5. ResetsFresh'
    BY <1>1 DEF Inv, ResetsFresh, TokensWhole, Live
<1>6. EventsRight'
    BY <1>4 DEF Inv, EventsRight
<1> QED
    BY <1>2, <1>3, <1>4, <1>5, <1>6 DEF Inv

LEMMA UpdateMeInv ==
    ASSUME Inv, NEW s \in sessions, NEW name \in Names, UpdateMe(s, name),
           UNCHANGED requireVerifiedEmail
    PROVE  Inv'
<1> PICK u : u = s.user
    OBVIOUS
<1> PICK old : old = users[u]
    OBVIOUS
<1> PICK x : x = [old EXCEPT !.name = name]
    OBVIOUS
<1>1. u \in Users /\ old \in User
    BY DEF Inv, TypeOK
<1>2. /\ x \in User /\ x.there = old.there /\ x.email = old.email
      /\ x.verified = old.verified /\ x.version = old.version
    BY <1>1 DEF User
<1>3. /\ users' = [users EXCEPT ![u] = x]
      /\ UNCHANGED <<organizations, tokens, audit, sessions, mailbox, clock, req>>
    BY DEF UpdateMe, UpdateUserDisplayName
<1> QED
    BY <1>1, <1>2, <1>3, UserStepInv

LEMMA SuspendInv ==
    ASSUME Inv, NEW u \in Users, Suspend(u), UNCHANGED requireVerifiedEmail
    PROVE  Inv'
<1> PICK old : old = users[u]
    OBVIOUS
<1> PICK x : x = [old EXCEPT !.status = "SUSPENDED"]
    OBVIOUS
<1>1. old \in User
    BY DEF Inv, TypeOK
<1>2. /\ x \in User /\ x.there = old.there /\ x.email = old.email
      /\ x.verified = old.verified /\ x.version = old.version
    BY <1>1 DEF User
<1>3. /\ users' = [users EXCEPT ![u] = x]
      /\ UNCHANGED <<organizations, tokens, audit, sessions, mailbox, clock, req>>
    BY DEF Suspend
<1> QED
    BY <1>2, <1>3, UserStepInv

LEMMA LoginInv ==
    ASSUME Inv, NEW r \in Requests, Login(r), UNCHANGED requireVerifiedEmail
    PROVE  Inv'
<1> PICK u, v : u = req[r].user /\ v = req[r].version
    OBVIOUS
<1>1. req[r].pc = "login"
    BY DEF Login
<1>2. u \in Users /\ v \in Nat
    BY <1>1 DEF Inv, TypeOK, Request, RequestsFit, Fits
<1>3. users[u].status \in {"ACTIVE", "SUSPENDED"}
    BY <1>2 DEF Inv, TypeOK, User
<1>4. CASE Refuse(r, "invalid") \/ Refuse(r, "unverified") \/ Refuse(r, mapUserStatus(u))
    BY <1>3, <1>4, RefuseInv DEF Answers, mapUserStatus
<1>5. CASE /\ sessions' = sessions \cup {[user |-> u, version |-> v]} /\ Answer(r, "ok")
           /\ UNCHANGED <<users, organizations, tokens, audit, mailbox, clock>>
    <2>1. UsersKept /\ UsersWhole' /\ TokensWhole' /\ LiveOnce' /\ ResetsFresh'
        BY <1>5, WholeKept DEF UsersKept, Inv, TokensWhole, LiveOnce, ResetsFresh, Live
    <2>2. EventsRight'
        BY <1>5 DEF Inv, EventsRight, Witnessed
    <2>3. req' \in [Requests -> Request] /\ RequestsFit'
        BY <1>5, <2>1, AnswerMoves DEF Answers
    <2>4. TypeOK'
        BY <1>2, <1>5, <2>3 DEF Inv, TypeOK
    <2> QED
        BY <2>1, <2>2, <2>3, <2>4 DEF Inv
<1> QED
    BY <1>4, <1>5 DEF Login
-----------------------------------------------------------------------------
(* New tokens. *)

(* A token t of u beside tokens that are only consumed. *)
Adds(t, u, purpose, S) ==
    /\ \A x \in Tokens \ {t} :
        /\ tokens'[x].there = tokens[x].there /\ tokens'[x].user = tokens[x].user
        /\ tokens'[x].purpose = tokens[x].purpose /\ tokens'[x].expires = tokens[x].expires
        /\ tokens'[x].madeAt = tokens[x].madeAt
        /\ tokens'[x].consumed <=> tokens[x].consumed \/ x \in S
    /\ tokens'[t].there /\ tokens'[t].user = u /\ tokens'[t].purpose = purpose

LEMMA TokenAdded ==
    ASSUME Inv, NEW t \in Tokens, NEW u \in Users, NEW purpose \in Purposes, NEW S,
           ~tokens[t].there, Adds(t, u, purpose, S), LiveTokens(u, purpose) \subseteq S,
           UsersKept, users'[u].there,
           \A v \in Users : users[v].there => users'[v].version = users[v].version,
           purpose = "PASSWORD_RESET" => tokens'[t].madeAt = users'[u].version
    PROVE  /\ TokensWhole' /\ LiveOnce' /\ ResetsFresh'
           /\ \A e \in audit : Witnessed(e)'
<1>1. \A x \in Tokens \ {t} : Live(x)' => Live(x) /\ x \notin S
    BY DEF Adds, Live
<1>2. \A x \in Tokens \ {t} : tokens'[x].there => tokens[x].user \in Users /\ users[tokens[x].user].there
    BY DEF Adds, Inv, TokensWhole
<1>3. TokensWhole'
    BY <1>2 DEF TokensWhole, Adds, UsersKept
<1>4. \A x \in Tokens \ {t} : ~(Live(x)' /\ tokens'[x].user = u /\ tokens'[x].purpose = purpose)
    BY <1>1 DEF Adds, LiveTokens, Live
<1>5. LiveOnce'
    <2> SUFFICES ASSUME NEW x \in Tokens, NEW y \in Tokens, Live(x)', Live(y)',
                        tokens'[x].user = tokens'[y].user, tokens'[x].purpose = tokens'[y].purpose
                 PROVE  x = y
        BY DEF LiveOnce
    <2>1. CASE x # t /\ y # t
        BY <1>1, <2>1 DEF Inv, LiveOnce, Adds
    <2>2. CASE x = t \/ y = t
        BY <1>4, <2>2 DEF Adds
    <2> QED
        BY <2>1, <2>2
<1>6. ResetsFresh'
    <2> SUFFICES ASSUME NEW x \in Tokens, Live(x)', tokens'[x].purpose = "PASSWORD_RESET"
                 PROVE  tokens'[x].madeAt = users'[tokens'[x].user].version
        BY DEF ResetsFresh
    <2>1. CASE x = t
        BY <2>1 DEF Adds
    <2>2. CASE x # t
        <3>1. tokens[x].madeAt = users[tokens[x].user].version
            BY <1>1, <2>2 DEF Inv, ResetsFresh, Adds
        <3>2. tokens[x].user \in Users /\ users[tokens[x].user].there
            BY <1>2, <2>2 DEF Live
        <3> QED
            BY <2>2, <3>1, <3>2 DEF Adds
    <2> QED
        BY <2>1, <2>2
<1>7. ASSUME NEW e \in audit
      PROVE  Witnessed(e)'
    <2>1. Witnessed(e) /\ e.token \in Tokens
        BY DEF Inv, EventsRight, TypeOK, Events
    <2>2. /\ tokens[e.token].user \in Users /\ users[tokens[e.token].user].there
          /\ e.token # t
        BY <2>1 DEF Inv, TokensWhole, Witnessed
    <2> QED
        BY <2>1, <2>2 DEF Witnessed, Adds, UsersKept
<1> QED
    BY <1>3, <1>5, <1>6, <1>7

(* The row that is inserted. *)
LEMMA NewToken ==
    ASSUME Inv, NEW t \in Tokens, NEW u \in Users, NEW purpose \in Purposes, NEW now \in Nat, NEW x,
           x = [there |-> TRUE, user |-> u, purpose |-> purpose, consumed |-> FALSE,
                created |-> now, expires |-> clock + TTL[purpose], madeAt |-> users[u].version]
    PROVE  /\ x \in Token /\ x.there /\ x.user = u /\ x.purpose = purpose
           /\ x.madeAt = users[u].version
<1>1. users[u].version \in Nat
    BY DEF Inv, TypeOK, User
<1>2. clock + TTL[purpose] \in Nat
    BY TimesNatural DEF Inv, TypeOK
<1> QED
    BY <1>1, <1>2 DEF Token

LEMMA CreateTokenInv ==
    ASSUME Inv, NEW r \in Requests, NEW u \in Users, NEW purpose \in Purposes, NEW t \in Tokens,
           ~tokens[t].there, users[u].there, createActionTokenInTx(r, u, purpose, t),
           UNCHANGED requireVerifiedEmail
    PROVE  Inv'
<1>1. CASE ~Invalidatable(u, purpose, req[r].began)
    BY <1>1, RefuseInv DEF createActionTokenInTx, Answers
<1>2. CASE Invalidatable(u, purpose, req[r].began)
    <2> PICK S, now : S = LiveTokens(u, purpose) /\ now = req[r].began
        OBVIOUS
    <2> PICK x : x = [there |-> TRUE, user |-> u, purpose |-> purpose, consumed |-> FALSE,
                      created |-> now, expires |-> clock + TTL[purpose],
                      madeAt |-> users[u].version]
        OBVIOUS
    <2> PICK mid : mid = [y \in Tokens |-> IF y \in S THEN [tokens[y] EXCEPT !.consumed = TRUE]
                                                      ELSE tokens[y]]
        OBVIOUS
    <2>1. /\ tokens' = [mid EXCEPT ![t] = x] /\ Mail(r, t)
          /\ UNCHANGED <<users, organizations, audit, sessions, mailbox, clock>>
        BY <1>2 DEF createActionTokenInTx, CreateActionToken, InvalidatePreviousActionTokens
    <2>2. now \in Nat /\ tokens \in [Tokens -> Token]
        BY DEF Inv, TypeOK, Request
    <2>3. /\ x \in Token /\ x.there /\ x.user = u /\ x.purpose = purpose
          /\ x.madeAt = users[u].version
        BY <2>2, NewToken
    <2>4. tokens'[t] = x /\ \A y \in Tokens \ {t} : tokens'[y] = mid[y]
        BY <2>1
    <2>5. ASSUME NEW y \in Tokens
          PROVE  /\ mid[y] \in Token
                 /\ mid[y].there = tokens[y].there /\ mid[y].user = tokens[y].user
                 /\ mid[y].purpose = tokens[y].purpose /\ mid[y].expires = tokens[y].expires
                 /\ mid[y].madeAt = tokens[y].madeAt
                 /\ mid[y].consumed <=> tokens[y].consumed \/ y \in S
        <3> PICK old : old = tokens[y]
            OBVIOUS
        <3>1. old \in Token
            BY <2>2
        <3>2. CASE y \in S
            <4>1. mid[y] = [old EXCEPT !.consumed = TRUE]
                BY <3>2
            <4> QED
                BY <3>1, <3>2, <4>1 DEF Token
        <3>3. CASE y \notin S
            <4>1. mid[y] = old
                BY <3>3
            <4> QED
                BY <3>1, <3>3, <4>1 DEF Token
        <3> QED
            BY <3>2, <3>3
    <2>6. Adds(t, u, purpose, S)
        <3>1. tokens'[t].there /\ tokens'[t].user = u /\ tokens'[t].purpose = purpose
            BY <2>3, <2>4
        <3>2. ASSUME NEW y \in Tokens \ {t}
              PROVE  /\ tokens'[y].there = tokens[y].there /\ tokens'[y].user = tokens[y].user
                     /\ tokens'[y].purpose = tokens[y].purpose
                     /\ tokens'[y].expires = tokens[y].expires
                     /\ tokens'[y].madeAt = tokens[y].madeAt
                     /\ tokens'[y].consumed <=> tokens[y].consumed \/ y \in S
            <4>1. tokens'[y] = mid[y] /\ y \in Tokens
                BY <2>4
            <4> QED
                BY <2>5, <4>1
        <3> QED
            BY <3>1, <3>2 DEF Adds
    <2>7. tokens' \in [Tokens -> Token]
        BY <2>1, <2>3, <2>5
    <2>8. UsersKept /\ UsersWhole'
        BY <2>1, WholeKept DEF UsersKept
    <2>9. TokensWhole' /\ LiveOnce' /\ ResetsFresh' /\ \A e \in audit : Witnessed(e)'
        <3>1. tokens'[t].madeAt = users'[u].version /\ users'[u].there
            BY <2>1, <2>3, <2>4
        <3> QED
            BY <2>1, <2>6, <2>8, <3>1, TokenAdded
    <2>10. EventsRight'
        BY <2>1, <2>9 DEF Inv, EventsRight
    <2>11. req' \in [Requests -> Request] /\ RequestsFit'
        BY <2>1, <2>8, MailMoves
    <2>12. TypeOK'
        BY <2>1, <2>7, <2>11 DEF Inv, TypeOK
    <2> QED
        BY <2>8, <2>9, <2>10, <2>11, <2>12 DEF Inv
<1> QED
    BY <1>1, <1>2

LEMMA AskedInv ==
    ASSUME Inv, NEW r \in Requests, NEW t \in Tokens, ResendVerification(r, t) \/ ForgotPassword(r, t),
           UNCHANGED requireVerifiedEmail
    PROVE  Inv'
<1> PICK u : u = req[r].user
    OBVIOUS
<1>1. /\ req[r].pc = "ask" /\ ~tokens[t].there
      /\ \/ Refuse(r, "accepted")
         \/ createActionTokenInTx(r, u, "EMAIL_VERIFICATION", t)
         \/ createActionTokenInTx(r, u, "PASSWORD_RESET", t)
    BY DEF ResendVerification, ForgotPassword
<1>2. u \in Users /\ users[u].there
    BY <1>1 DEF Inv, RequestsFit, Fits
<1> QED
    BY <1>1, <1>2, CreateTokenInv, RefuseInv DEF Purposes, Answers

-----------------------------------------------------------------------------
(* Registration. *)

LEMMA RegisteredUser ==
    ASSUME Inv, NEW u \in Users, NEW email \in Addresses, NEW slug \in Slugs, NEW x \in User,
           ~users[u].there, organizations[slug] = None,
           GetUserForActionByNormalizedEmail(normalizeEmail(email)) = {},
           organizations' = [organizations EXCEPT ![slug] = u],
           users' = [users EXCEPT ![u] = x], x.there, x.email = normalizeEmail(email)
    PROVE  /\ UsersWhole' /\ users' \in [Users -> User] /\ users'[u] = x
           /\ \A v \in Users \ {u} : users'[v] = users[v]
           /\ organizations' \in [Slugs -> Users \cup {None}]
<1> PICK key : key = normalizeEmail(email)
    OBVIOUS
<1>1. key \in Normal
    <2>1. email.box \in Boxes /\ key = [box |-> email.box, upper |-> FALSE]
        BY DEF normalizeEmail, Addresses
    <2> QED
        BY <2>1 DEF Normal
<1>2. /\ users' \in [Users -> User] /\ users'[u] = x
      /\ \A v \in Users \ {u} : users'[v] = users[v]
    BY DEF Inv, TypeOK
<1>3. /\ organizations' \in [Slugs -> Users \cup {None}] /\ organizations'[slug] = u
      /\ \A g \in Slugs \ {slug} : organizations'[g] = organizations[g]
    BY DEF Inv, TypeOK
<1>4. \A v \in Users : users'[v].there => \E g \in Slugs : organizations'[g] = v
    BY <1>2, <1>3, NoneIsNothing DEF Inv, UsersWhole, RegisteredWhole
<1>5. \A v \in Users \ {u} : users[v].there => users[v].email \in Normal /\ users[v].email # key
    BY DEF Inv, UsersWhole, GetUserForActionByNormalizedEmail
<1>6. \A a \in Normal : a.box = key.box => a = key
    <2>1. PICK c \in Boxes : key = [box |-> c, upper |-> FALSE]
        BY <1>1 DEF Normal
    <2>2. ASSUME NEW b \in Boxes, [box |-> b, upper |-> FALSE].box = key.box
          PROVE  [box |-> b, upper |-> FALSE] = key
        BY <2>1, <2>2
    <2> QED
        BY <2>2 DEF Normal
<1>7. \A v \in Users \ {u} : users[v].there => users[v].email.box # key.box
    BY <1>5, <1>6
<1>8. \A v, w \in Users :
          v # w /\ users'[v].there /\ users'[w].there => users'[v].email.box # users'[w].email.box
    <2> SUFFICES ASSUME NEW v \in Users, NEW w \in Users, v # w, users'[v].there, users'[w].there
                 PROVE  users'[v].email.box # users'[w].email.box
        OBVIOUS
    <2>1. CASE v = u
        BY <1>2, <1>7, <2>1
    <2>2. CASE w = u
        BY <1>2, <1>7, <2>2
    <2>3. CASE v # u /\ w # u
        BY <1>2, <2>3 DEF Inv, UsersWhole, RegisteredWhole
    <2> QED
        BY <2>1, <2>2, <2>3
<1>9. \A v \in Users : users'[v].there => users'[v].email \in Normal
    BY <1>1, <1>2, <1>5
<1>10. UsersWhole'
    BY <1>4, <1>8, <1>9 DEF UsersWhole, RegisteredWhole
<1> QED
    BY <1>2, <1>3, <1>10
LEMMA NewUser ==
    ASSUME NEW email \in Addresses, NEW name \in Names, NEW x,
           x = [NoUser EXCEPT !.there = TRUE, !.email = normalizeEmail(email), !.name = name]
    PROVE  /\ x \in User /\ x.there /\ x.email = normalizeEmail(email) /\ ~x.verified
<1>1. normalizeEmail(email) \in Addresses
    BY DEF normalizeEmail, Addresses
<1> QED
    BY <1>1 DEF NoUser, User

LEMMA RegisterInv ==
    ASSUME Inv, NEW r \in Requests, NEW u \in Users, NEW email \in Addresses, NEW slug \in Slugs,
           NEW name \in Names, NEW t \in Tokens, Register(r, u, email, slug, name, t),
           UNCHANGED requireVerifiedEmail
    PROVE  Inv'
<1> PICK x : x = [NoUser EXCEPT !.there = TRUE, !.email = normalizeEmail(email), !.name = name]
    OBVIOUS
<1>1. x \in User /\ x.there /\ x.email = normalizeEmail(email) /\ ~x.verified
    BY NewUser
<1>2. /\ ~users[u].there /\ ~tokens[t].there /\ organizations[slug] = None
      /\ GetUserForActionByNormalizedEmail(normalizeEmail(email)) = {}
      /\ organizations' = [organizations EXCEPT ![slug] = u]
      /\ UNCHANGED <<audit, mailbox, clock>>
    BY DEF Register
<1>3. \A y \in Tokens : tokens[y].there => tokens[y].user # u
    BY <1>2 DEF Inv, TokensWhole
<1>4. users \in [Users -> User] /\ tokens \in [Tokens -> Token]
    BY DEF Inv, TypeOK
<1>5. CASE requireVerifiedEmail
    <2> PICK new : new = [there |-> TRUE, user |-> u, purpose |-> "EMAIL_VERIFICATION",
                          consumed |-> FALSE, created |-> clock,
                          expires |-> clock + TTL["EMAIL_VERIFICATION"],
                          madeAt |-> users[u].version]
        OBVIOUS
    <2>1. /\ users' = [users EXCEPT ![u] = x] /\ tokens' = [tokens EXCEPT ![t] = new]
          /\ Mail(r, t) /\ UNCHANGED sessions
        BY <1>5 DEF Register, CreateUserWithPassword, CreateActionToken
    <2>2. /\ UsersWhole' /\ users' \in [Users -> User] /\ users'[u] = x
          /\ \A v \in Users \ {u} : users'[v] = users[v]
          /\ organizations' \in [Slugs -> Users \cup {None}]
        BY <1>1, <1>2, <2>1, RegisteredUser
    <2>3. new \in Token /\ new.there /\ new.user = u /\ new.purpose = "EMAIL_VERIFICATION"
        <3>1. clock \in Nat /\ "EMAIL_VERIFICATION" \in Purposes
            BY DEF Inv, TypeOK, Purposes
        <3> QED
            BY <3>1, NewToken
    <2>4. tokens' \in [Tokens -> Token] /\ tokens'[t] = new
          /\ \A y \in Tokens \ {t} : tokens'[y] = tokens[y]
        BY <1>4, <2>1, <2>3
    <2>5. UsersKept
        BY <1>2, <2>2 DEF UsersKept
    <2>6. /\ TokensWhole' /\ LiveOnce' /\ ResetsFresh' /\ \A e \in audit : Witnessed(e)'
        <3> PICK S, purpose : S = {} /\ purpose = "EMAIL_VERIFICATION"
            OBVIOUS
        <3>1. Adds(t, u, purpose, S)
            BY <1>4, <2>3, <2>4 DEF Adds, Token
        <3>2. LiveTokens(u, purpose) \subseteq S
            BY <1>3 DEF LiveTokens
        <3>3. users'[u].there /\ \A v \in Users : users[v].there => users'[v].version = users[v].version
            BY <1>1, <1>2, <2>2
        <3>4. purpose \in Purposes /\ purpose # "PASSWORD_RESET"
            BY DEF Purposes
        <3> QED
            BY <1>2, <2>5, <3>1, <3>2, <3>3, <3>4, TokenAdded
    <2>7. EventsRight'
        BY <1>2, <2>6 DEF Inv, EventsRight
    <2>8. req' \in [Requests -> Request] /\ RequestsFit'
        BY <2>1, <2>5, MailMoves
    <2>9. TypeOK'
        BY <1>2, <2>1, <2>2, <2>4, <2>8 DEF Inv, TypeOK
    <2> QED
        BY <2>2, <2>6, <2>7, <2>8, <2>9 DEF Inv
<1>6. CASE ~requireVerifiedEmail
    <2> PICK y : y = [x EXCEPT !.verified = TRUE]
        OBVIOUS
    <2>1. y \in User /\ y.there /\ y.email = x.email
        BY <1>1 DEF User
    <2>2. /\ users' = [[users EXCEPT ![u] = x] EXCEPT ![u].verified = TRUE]
          /\ sessions' = sessions \cup {[user |-> u, version |-> 0]}
          /\ Answer(r, "created") /\ UNCHANGED tokens
        BY <1>6 DEF Register, CreateUserWithPassword, VerifyUserEmail
    <2>3. users' = [users EXCEPT ![u] = y]
        BY <1>4, <2>2
    <2>4. /\ UsersWhole' /\ users' \in [Users -> User] /\ users'[u] = y
          /\ \A v \in Users \ {u} : users'[v] = users[v]
          /\ organizations' \in [Slugs -> Users \cup {None}]
        BY <1>1, <1>2, <2>1, <2>3, RegisteredUser
    <2>5. UsersKept
        BY <1>2, <2>4 DEF UsersKept
    <2>6. TokensWhole' /\ LiveOnce' /\ \A e \in audit : Witnessed(e)'
        BY <2>2, <2>5, ConsumesNothing, TokensFrame
    <2>7. ResetsFresh'
        BY <1>3, <2>2, <2>4 DEF Inv, ResetsFresh, TokensWhole, Live
    <2>8. EventsRight'
        BY <1>2, <2>6 DEF Inv, EventsRight
    <2>9. req' \in [Requests -> Request] /\ RequestsFit'
        BY <2>2, <2>5, AnswerMoves DEF Answers
    <2>10. TypeOK'
        BY <1>2, <2>2, <2>4, <2>9 DEF Inv, TypeOK
    <2> QED
        BY <2>4, <2>6, <2>7, <2>8, <2>9, <2>10 DEF Inv
<1> QED
    BY <1>5, <1>6

-----------------------------------------------------------------------------
(* Tokens that are used, and passwords that change. *)

(* A step that ends with an answer, an event of its token or none, and the *)
(* tokens of u for the purpose consumed.                                   *)
LEMMA SettleInv ==
    ASSUME Inv, NEW r \in Requests, NEW u \in Users, NEW purpose \in Purposes, NEW x \in User,
           users' = [users EXCEPT ![u] = x], x.there = users[u].there, x.email = users[u].email,
           users[u].verified => x.verified,
           purpose # "PASSWORD_RESET" => x.version = users[u].version,
           tokens' = InvalidatePreviousActionTokens(tokens, u, purpose),
           sessions' \subseteq sessions, Answer(r, "ok"),
           UNCHANGED <<organizations, mailbox, clock, requireVerifiedEmail>>,
           audit' \subseteq Events, EventsRight'
    PROVE  Inv'
<1>1. /\ users' \in [Users -> User] /\ users'[u] = x
      /\ \A v \in Users \ {u} : users'[v] = users[v]
      /\ \A v \in Users : users'[v].there = users[v].there /\ users'[v].email = users[v].email
      /\ UsersKept
    BY UserMoves
<1>2. tokens' \in [Tokens -> Token] /\ Consumes(LiveTokens(u, purpose))
    BY ConsumesThose
<1>3. UsersWhole'
    BY <1>1, WholeKept
<1>4. TokensWhole' /\ LiveOnce'
    BY <1>1, <1>2, TokensFrame
<1>5. ResetsFresh'
    <2> SUFFICES ASSUME NEW t \in Tokens, Live(t)', tokens'[t].purpose = "PASSWORD_RESET"
                 PROVE  tokens'[t].madeAt = users'[tokens'[t].user].version
        BY DEF ResetsFresh
    <2>1. /\ Live(t) /\ t \notin LiveTokens(u, purpose) /\ tokens[t].purpose = "PASSWORD_RESET"
          /\ tokens'[t].madeAt = tokens[t].madeAt /\ tokens'[t].user = tokens[t].user
        BY <1>2 DEF Consumes, Live
    <2>2. tokens[t].madeAt = users[tokens[t].user].version /\ tokens[t].user \in Users
        BY <2>1 DEF Inv, ResetsFresh, TokensWhole, Live
    <2>3. CASE tokens[t].user # u
        BY <1>1, <2>1, <2>2, <2>3
    <2>4. CASE tokens[t].user = u
        <3>1. purpose # "PASSWORD_RESET"
            BY <2>1, <2>4 DEF LiveTokens, Live
        <3> QED
            BY <1>1, <2>1, <2>2, <2>4, <3>1
    <2> QED
        BY <2>3, <2>4
<1>6. req' \in [Requests -> Request] /\ RequestsFit'
    BY <1>1, AnswerMoves DEF Answers
<1>7. TypeOK'
    BY <1>1, <1>2, <1>6 DEF Inv, TypeOK
<1> QED
    BY <1>3, <1>4, <1>5, <1>6, <1>7 DEF Inv

(* A live token is used: its event is the first about it. *)
LEMMA EventAdded ==
    ASSUME Inv, NEW u \in Users, NEW purpose \in Purposes, NEW event, NEW t \in Tokens,
           t \in LiveTokens(u, purpose), ~Expired(t), UsersKept,
           event = IF purpose = "PASSWORD_RESET" THEN "PASSWORD_RESET" ELSE "EMAIL_VERIFIED",
           purpose = "EMAIL_VERIFICATION" => users'[u].verified,
           tokens' = InvalidatePreviousActionTokens(tokens, u, purpose),
           audit' = audit \cup {Event(event, t, u)}
    PROVE  audit' \subseteq Events /\ EventsRight'
<1> PICK e : e = [event |-> event, token |-> t, at |-> clock, version |-> users[u].version]
    OBVIOUS
<1>1. audit' = audit \cup {e}
    BY DEF Event
<1>2. event \in {"EMAIL_VERIFIED", "PASSWORD_RESET"} /\ clock \in Nat /\ users[u].version \in Nat
    BY DEF Inv, TypeOK, User
<1>3. /\ e \in Events /\ e.token = t /\ e.event = event /\ e.at = clock
      /\ e.version = users[u].version
    BY <1>2 DEF Events
<1>4. /\ tokens[t].there /\ ~tokens[t].consumed /\ tokens[t].user = u /\ tokens[t].purpose = purpose
    BY DEF LiveTokens
<1>5. Consumes(LiveTokens(u, purpose))
    BY ConsumesThose
<1>6. /\ tokens'[t].there /\ tokens'[t].consumed /\ tokens'[t].user = u
      /\ tokens'[t].purpose = purpose /\ tokens'[t].expires = tokens[t].expires
      /\ tokens'[t].madeAt = tokens[t].madeAt
    BY <1>4, <1>5 DEF Consumes
<1>7. clock < tokens[t].expires
    <2>1. tokens[t].expires \in Nat
        BY DEF Inv, TypeOK, Token
    <2> QED
        BY <1>2, <2>1 DEF Expired
<1>8. purpose = "PASSWORD_RESET" => users[u].version = tokens[t].madeAt
    BY <1>4 DEF Inv, ResetsFresh, Live
<1>9. Witnessed(e)'
    <2>1. event = "EMAIL_VERIFIED" <=> purpose = "EMAIL_VERIFICATION"
        BY DEF Purposes
    <2>2. event = "PASSWORD_RESET" <=> purpose = "PASSWORD_RESET"
        BY DEF Purposes
    <2> QED
        BY <1>3, <1>6, <1>7, <1>8, <2>1, <2>2 DEF Witnessed
<1>10. \A f \in audit : Witnessed(f)'
    BY <1>5, TokensFrame
<1>11. \A f \in audit : f.token # t
    BY <1>4 DEF Inv, EventsRight, Witnessed
<1>12. \A f, g \in audit' : f.token = g.token => f = g
    BY <1>1, <1>3, <1>11 DEF Inv, EventsRight
<1>13. audit' \subseteq Events
    BY <1>1, <1>3 DEF Inv, TypeOK
<1> QED
    BY <1>1, <1>9, <1>10, <1>12, <1>13 DEF EventsRight
(* The owner that the lock finds. *)
LEMMA Owner ==
    ASSUME Inv, NEW t \in Tokens, NEW purpose, NEW u \in LockActionTokenOwner(t, purpose)
    PROVE  /\ tokens[t].there /\ tokens[t].purpose = purpose /\ tokens[t].user = u
           /\ u \in Users /\ users[u].there /\ users[u] \in User
           /\ users[u].status \in {"ACTIVE", "SUSPENDED"}
<1>1. tokens[t].there /\ tokens[t].purpose = purpose /\ tokens[t].user = u
    BY DEF LockActionTokenOwner
<1>2. u \in Users /\ users[u].there
    BY <1>1 DEF Inv, TokensWhole
<1>3. users[u] \in User
    BY <1>2 DEF Inv, TypeOK
<1> QED
    BY <1>1, <1>2, <1>3 DEF User

(* What VerifyEmail does with a token that is good. *)
Verifies(r, t, u) ==
    /\ users' = VerifyUserEmail(users, u)
    /\ tokens' = InvalidatePreviousActionTokens(
                     ConsumeActionToken(tokens, t, u, "EMAIL_VERIFICATION"),
                     u, "EMAIL_VERIFICATION")
    /\ audit' = audit \cup {Event("EMAIL_VERIFIED", t, u)}
    /\ Answer(r, "ok")
    /\ UNCHANGED <<organizations, sessions, mailbox, clock>>

LEMMA VerifyCases ==
    ASSUME Inv, NEW r \in Requests, VerifyEmail(r), NEW t, t = req[r].token
    PROVE  /\ t \in Tokens /\ req[r].pc = "verify"
           /\ \E u \in LockActionTokenOwner(t, "EMAIL_VERIFICATION") :
                \/ ~req[r].genuine /\ Refuse(r, "invalid")
                \/ tokens[t].consumed /\ Refuse(r, ConsumedAnswer(t, u))
                \/ ~tokens[t].consumed /\ Refuse(r, "expired")
                \/ ~tokens[t].consumed /\ mapUserStatus(u) # "ACTIVE" /\ Refuse(r, mapUserStatus(u))
                \/ ~tokens[t].consumed /\ Refuse(r, "invalid")
                \/ ~tokens[t].consumed /\ ~Expired(t) /\ Verifies(r, t, u)
<1>1. req[r].pc = "verify"
    BY DEF VerifyEmail
<1>2. t \in Tokens
    BY <1>1 DEF Inv, RequestsFit, Fits
<1> QED
    BY <1>1, <1>2 DEF VerifyEmail, VerifySecret, Verifies

LEMMA VerifiesInv ==
    ASSUME Inv, NEW r \in Requests, NEW t \in Tokens,
           NEW u \in LockActionTokenOwner(t, "EMAIL_VERIFICATION"),
           ~tokens[t].consumed, ~Expired(t), Verifies(r, t, u), UNCHANGED requireVerifiedEmail
    PROVE  Inv'
<1> PICK old, purpose : old = users[u] /\ purpose = "EMAIL_VERIFICATION"
    OBVIOUS
<1> PICK x : x = [old EXCEPT !.verified = TRUE]
    OBVIOUS
<1>1. /\ tokens[t].there /\ tokens[t].purpose = purpose /\ tokens[t].user = u
      /\ u \in Users /\ old \in User /\ purpose \in Purposes /\ purpose # "PASSWORD_RESET"
    BY Owner DEF Purposes
<1>2. t \in LiveTokens(u, purpose)
    BY <1>1 DEF LiveTokens
<1>3. /\ x \in User /\ x.there = old.there /\ x.email = old.email /\ x.version = old.version
      /\ x.verified
    BY <1>1 DEF User
<1>4. /\ users' = [users EXCEPT ![u] = x] /\ audit' = audit \cup {Event("EMAIL_VERIFIED", t, u)}
      /\ Answer(r, "ok") /\ UNCHANGED <<organizations, sessions, mailbox, clock>>
    BY DEF Verifies, VerifyUserEmail
<1>5. tokens' = InvalidatePreviousActionTokens(tokens, u, purpose)
    BY <1>1, <1>2, ConsumesOne DEF Verifies
<1>6. UsersKept /\ users'[u].verified
    BY <1>1, <1>3, <1>4, UserMoves
<1>7. audit' \subseteq Events /\ EventsRight'
    <2> PICK event : event = IF purpose = "PASSWORD_RESET" THEN "PASSWORD_RESET" ELSE "EMAIL_VERIFIED"
        OBVIOUS
    <2>1. audit' = audit \cup {Event(event, t, u)}
        BY <1>1, <1>4
    <2> QED
        BY <1>1, <1>2, <1>5, <1>6, <2>1, EventAdded
<1> QED
    BY <1>1, <1>3, <1>4, <1>5, <1>7, SettleInv

LEMMA VerifyEmailInv ==
    ASSUME Inv, NEW r \in Requests, VerifyEmail(r), UNCHANGED requireVerifiedEmail
    PROVE  Inv'
<1> PICK t : t = req[r].token
    OBVIOUS
<1>1. t \in Tokens
    BY VerifyCases
<1>2. PICK u \in LockActionTokenOwner(t, "EMAIL_VERIFICATION") :
          \/ \E answer \in {"invalid", "expired", ConsumedAnswer(t, u), mapUserStatus(u)} :
                 Refuse(r, answer)
          \/ ~tokens[t].consumed /\ ~Expired(t) /\ Verifies(r, t, u)
    BY VerifyCases
<1>3. users[u].status \in {"ACTIVE", "SUSPENDED"}
    BY <1>1, Owner
<1>4. {"invalid", "expired", ConsumedAnswer(t, u), mapUserStatus(u)} \subseteq Answers
    BY <1>3 DEF Answers, ConsumedAnswer, mapUserStatus
<1> QED
    BY <1>1, <1>2, <1>4, VerifiesInv, RefuseInv

Resets(r, t, u) ==
    /\ users' = UpdateUserPasswordAndIncrementVersion(u)
    /\ tokens' = InvalidatePreviousActionTokens(
                     ConsumeActionToken(tokens, t, u, "PASSWORD_RESET"),
                     u, "PASSWORD_RESET")
    /\ sessions' = RevokeAllUserSessions(u)
    /\ audit' = audit \cup {Event("PASSWORD_RESET", t, u)}
    /\ Answer(r, "ok")
    /\ UNCHANGED <<organizations, mailbox, clock>>

LEMMA NewVersion ==
    ASSUME NEW old \in User, NEW x, x = [old EXCEPT !.version = old.version + 1]
    PROVE  /\ x \in User /\ x.there = old.there /\ x.email = old.email
           /\ x.verified = old.verified
<1>1. old.version + 1 \in Nat
    BY DEF User
<1> QED
    BY <1>1 DEF User

LEMMA ResetsInv ==
    ASSUME Inv, NEW r \in Requests, NEW t \in Tokens,
           NEW u \in LockActionTokenOwner(t, "PASSWORD_RESET"),
           ~tokens[t].consumed, ~Expired(t), Resets(r, t, u), UNCHANGED requireVerifiedEmail
    PROVE  Inv'
<1> PICK old, purpose : old = users[u] /\ purpose = "PASSWORD_RESET"
    OBVIOUS
<1> PICK x : x = [old EXCEPT !.version = old.version + 1]
    OBVIOUS
<1>1. /\ tokens[t].there /\ tokens[t].purpose = purpose /\ tokens[t].user = u
      /\ u \in Users /\ old \in User /\ purpose \in Purposes
    BY Owner DEF Purposes
<1>2. t \in LiveTokens(u, purpose)
    BY <1>1 DEF LiveTokens
<1>3. x \in User /\ x.there = old.there /\ x.email = old.email /\ x.verified = old.verified
    BY <1>1, NewVersion
<1>4. /\ users' = [users EXCEPT ![u] = x] /\ audit' = audit \cup {Event("PASSWORD_RESET", t, u)}
      /\ Answer(r, "ok") /\ UNCHANGED <<organizations, mailbox, clock>>
      /\ sessions' \subseteq sessions
    BY DEF Resets, UpdateUserPasswordAndIncrementVersion, RevokeAllUserSessions
<1>5. tokens' = InvalidatePreviousActionTokens(tokens, u, purpose)
    BY <1>1, <1>2, ConsumesOne DEF Resets
<1>6. UsersKept
    BY <1>1, <1>3, <1>4, UserMoves
<1>7. audit' \subseteq Events /\ EventsRight'
    <2> PICK event : event = IF purpose = "PASSWORD_RESET" THEN "PASSWORD_RESET" ELSE "EMAIL_VERIFIED"
        OBVIOUS
    <2>1. audit' = audit \cup {Event(event, t, u)}
        BY <1>1, <1>4
    <2>2. purpose # "EMAIL_VERIFICATION"
        OBVIOUS
    <2> QED
        BY <1>1, <1>2, <1>5, <1>6, <2>1, <2>2, EventAdded
<1> QED
    BY <1>1, <1>3, <1>4, <1>5, <1>7, SettleInv

LEMMA ResetPasswordInv ==
    ASSUME Inv, NEW r \in Requests, ResetPassword(r), UNCHANGED requireVerifiedEmail
    PROVE  Inv'
<1> PICK t : t = req[r].token
    OBVIOUS
<1>1. t \in Tokens
    BY DEF ResetPassword, Inv, RequestsFit, Fits
<1>2. PICK u \in LockActionTokenOwner(t, "PASSWORD_RESET") :
          \/ \E answer \in {"invalid", "expired", mapUserStatus(u)} : Refuse(r, answer)
          \/ ~tokens[t].consumed /\ ~Expired(t) /\ Resets(r, t, u)
    BY DEF ResetPassword, Resets
<1>3. users[u].status \in {"ACTIVE", "SUSPENDED"}
    BY <1>1, Owner
<1>4. {"invalid", "expired", mapUserStatus(u)} \subseteq Answers
    BY <1>3 DEF Answers, mapUserStatus
<1> QED
    BY <1>1, <1>2, <1>4, ResetsInv, RefuseInv

LEMMA ChangePasswordInv ==
    ASSUME Inv, NEW r \in Requests, ChangePassword(r), UNCHANGED requireVerifiedEmail
    PROVE  Inv'
<1> PICK u, purpose : u = req[r].user /\ purpose = "PASSWORD_RESET"
    OBVIOUS
<1> PICK old : old = users[u]
    OBVIOUS
<1> PICK x : x = [old EXCEPT !.version = old.version + 1]
    OBVIOUS
<1>1. u \in Users /\ purpose \in Purposes
    BY DEF ChangePassword, Inv, RequestsFit, Fits, Purposes
<1>2. old \in User
    BY <1>1 DEF Inv, TypeOK
<1>3. users[u].status \in {"ACTIVE", "SUSPENDED"}
    BY <1>2 DEF User
<1>4. CASE \E answer \in {"invalid", "error", mapUserStatus(u)} : Refuse(r, answer)
    <2>1. {"invalid", "error", mapUserStatus(u)} \subseteq Answers
        BY <1>3 DEF Answers, mapUserStatus
    <2> QED
        BY <1>4, <2>1, RefuseInv
<1>5. CASE ~\E answer \in {"invalid", "error", mapUserStatus(u)} : Refuse(r, answer)
    <2>1. /\ users' = UpdateUserPasswordAndIncrementVersion(u)
          /\ tokens' = InvalidatePreviousActionTokens(tokens, u, "PASSWORD_RESET")
          /\ sessions' = RevokeAllUserSessions(u)
          /\ Answer(r, "ok")
          /\ UNCHANGED <<organizations, audit, mailbox, clock>>
        BY <1>5 DEF ChangePassword
    <2>2. users' = [users EXCEPT ![u] = x] /\ sessions' \subseteq sessions
        BY <2>1 DEF UpdateUserPasswordAndIncrementVersion, RevokeAllUserSessions
    <2>3. x \in User /\ x.there = old.there /\ x.email = old.email /\ x.verified = old.verified
        BY <1>2, NewVersion
    <2>4. UsersKept
        BY <1>1, <2>2, <2>3, UserMoves
    <2>5. Consumes(LiveTokens(u, purpose))
        BY <1>1, <2>1, ConsumesThose
    <2>6. audit' \subseteq Events /\ EventsRight'
        <3>1. \A e \in audit : Witnessed(e)'
            BY <2>4, <2>5, TokensFrame
        <3> QED
            BY <2>1, <3>1 DEF Inv, TypeOK, EventsRight
    <2> QED
        BY <1>1, <2>1, <2>2, <2>3, <2>6, SettleInv
<1> QED
    BY <1>4, <1>5

-----------------------------------------------------------------------------
(* The invariant. *)

LEMMA InitInv == Init => Inv
<1> SUFFICES ASSUME Init
             PROVE  Inv
    OBVIOUS
<1>1. NoUser \in User /\ ~NoUser.there
    BY DEF NoUser, User
<1>2. NoToken \in Token /\ ~NoToken.there
    BY DEF NoToken, Token, Purposes
<1>3. TypeOK
    BY <1>1, <1>2, IdleType DEF Init, TypeOK
<1>4. \A u \in Users : ~users[u].there
    BY <1>1 DEF Init
<1>5. \A t \in Tokens : ~tokens[t].there
    BY <1>2 DEF Init
<1>6. UsersWhole
    BY <1>4 DEF UsersWhole, RegisteredWhole
<1>7. TokensWhole /\ LiveOnce /\ ResetsFresh
    BY <1>5 DEF TokensWhole, LiveOnce, ResetsFresh, Live
<1>8. EventsRight
    BY DEF Init, EventsRight
<1>9. RequestsFit
    BY IdleType DEF Init, RequestsFit, Fits
<1> QED
    BY <1>3, <1>6, <1>7, <1>8, <1>9 DEF Inv

LEMMA NextInv ==
    ASSUME Inv, [Next]_vars
    PROVE  Inv'
<1>1. ASSUME NEW r \in Requests, Arrival(r), UNCHANGED requireVerifiedEmail
      PROVE  Inv'
    BY <1>1, RegisterInv, AskInv, PresentInv, BeginChangeInv, BeginLoginInv DEF Arrival
<1>2. ASSUME NEW r \in Requests, Progress(r), UNCHANGED requireVerifiedEmail
      PROVE  Inv'
    BY <1>2, MailInv, AskedInv, VerifyEmailInv, ResetPasswordInv, ChangePasswordInv, LoginInv
    DEF Progress
<1>3. ASSUME NEW r \in Requests, Crash(r), UNCHANGED requireVerifiedEmail
      PROVE  Inv'
    BY <1>3, RefuseInv DEF Crash, Answers
<1>4. ASSUME NEW s \in sessions, NEW name \in Names, UpdateMe(s, name), UNCHANGED requireVerifiedEmail
      PROVE  Inv'
    BY <1>4, UpdateMeInv
<1>5. ASSUME NEW u \in Users, Suspend(u), UNCHANGED requireVerifiedEmail
      PROVE  Inv'
    BY <1>5, SuspendInv
<1>6. ASSUME Tick, UNCHANGED requireVerifiedEmail
      PROVE  Inv'
    BY <1>6, TickInv
<1>7. CASE UNCHANGED vars
    <2>1. UNCHANGED <<tables, mailbox, clock, req, requireVerifiedEmail>>
        BY <1>7 DEF vars
    <2>2. RequestsFit'
        BY <2>1, TablesFrame, RequestsStay
    <2> QED
        BY <2>1, <2>2, QuietInv DEF Inv, TypeOK
<1> QED
    BY <1>1, <1>2, <1>3, <1>4, <1>5, <1>6, <1>7 DEF Next

(* Users, tokens and the events about them agree at all times, whatever    *)
(* handlers wait for whose lock and wherever they die.                     *)
THEOREM AccountsInvariance == Spec => []Inv
<1>1. Init => Inv
    BY InitInv
<1>2. Inv /\ [Next]_vars => Inv'
    BY NextInv
<1> QED
    BY <1>1, <1>2, PTL DEF Spec

(* createActionTokenInTx consumes what was sent before: of all tokens that *)
(* a user asked for, one per purpose can be used.                          *)
THEOREM OneTokenCounts == Spec => []OneLiveToken
<1>1. Inv => OneLiveToken
    <2> SUFFICES ASSUME Inv, NEW u \in Users, NEW purpose \in Purposes
                 PROVE  Cardinality(LiveTokens(u, purpose)) <= 1
        BY DEF OneLiveToken
    <2> PICK S : S = LiveTokens(u, purpose)
        OBVIOUS
    <2>1. \A t, x \in S : t = x
        BY DEF Inv, LiveOnce, Live, LiveTokens
    <2>2. CASE S = {}
        BY <2>2, FS_EmptySet
    <2>3. CASE S # {}
        <3>1. PICK t \in S : TRUE
            BY <2>3
        <3>2. S = {t}
            BY <2>1, <3>1
        <3>3. Cardinality({t}) = 1
            BY FS_Singleton
        <3> QED
            BY <3>2, <3>3
    <2> QED
        BY <2>2, <2>3
<1> QED
    BY <1>1, AccountsInvariance, PTL

(* VerifyEmail and ResetPassword use a token once, in time and for its     *)
(* purpose, and no reset outlives the password it was asked for.           *)
THEOREM TokensAreUsedRightly == Spec => []TokensUsedRightly
<1>1. Inv => TokensUsedRightly
    BY DEF Inv, EventsRight, Witnessed, TokensUsedRightly
<1> QED
    BY <1>1, AccountsInvariance, PTL

(* Register commits a user with an organization or nothing, and no mailbox *)
(* has two accounts.                                                       *)
THEOREM RegistrationIsWhole == Spec => []RegisteredWhole
<1>1. Inv => RegisteredWhole
    BY DEF Inv, UsersWhole
<1> QED
    BY <1>1, AccountsInvariance, PTL
-----------------------------------------------------------------------------
(* Answers to verifications. *)

Moves(q) == \E x : req' = [req EXCEPT ![q] = x]

LEMMA RequestsMoveAlone ==
    ASSUME NEW q \in Requests, Arrival(q) \/ Progress(q) \/ Crash(q)
    PROVE  Moves(q)
<1>1. ASSUME NEW answer, Answer(q, answer) \/ Refuse(q, answer)
      PROVE  Moves(q)
    BY <1>1 DEF Moves, Answer, Refuse
<1>2. ASSUME NEW t, Mail(q, t)
      PROVE  Moves(q)
    BY <1>2 DEF Moves, Mail
<1>3. CASE \E u \in Users, email \in Addresses, slug \in Slugs, name \in Names, t \in Tokens :
              Register(q, u, email, slug, name, t)
    BY <1>1, <1>2, <1>3 DEF Register
<1>4. CASE \E email \in Addresses, purpose \in Purposes : AskForToken(q, email, purpose)
    BY <1>4 DEF AskForToken, Moves
<1>5. CASE \E t \in Tokens, genuine \in BOOLEAN, kind \in {"verify", "reset"} :
              Present(q, t, genuine, kind)
    BY <1>5 DEF Present, Moves
<1>6. CASE \E s \in sessions : BeginChange(q, s)
    BY <1>6 DEF BeginChange, Moves
<1>7. CASE \E email \in Addresses : GetUserByNormalizedEmail(q, email)
    BY <1>7 DEF GetUserByNormalizedEmail, Moves
<1>8. CASE Deliver(q) \/ LoseMail(q) \/ Crash(q)
    BY <1>1, <1>8 DEF Deliver, LoseMail, Crash
<1>9. CASE \E t \in Tokens : ResendVerification(q, t) \/ ForgotPassword(q, t)
    BY <1>1, <1>2, <1>9 DEF ResendVerification, ForgotPassword, createActionTokenInTx
<1>10. CASE VerifyEmail(q)
    BY <1>1, <1>10 DEF VerifyEmail
<1>11. CASE ResetPassword(q)
    BY <1>1, <1>11 DEF ResetPassword
<1>12. CASE ChangePassword(q) \/ Login(q)
    BY <1>1, <1>12 DEF ChangePassword, Login
<1> QED
    BY <1>3, <1>4, <1>5, <1>6, <1>7, <1>8, <1>9, <1>10, <1>11, <1>12 DEF Arrival, Progress

(* Only VerifyEmail answers a verification; a crash answers nothing. *)
LEMMA WhoAnswers ==
    ASSUME Inv, [Next]_vars, NEW r \in Requests, req[r].pc = "verify", req'[r].pc = "idle",
           req'[r].answer # "none"
    PROVE  VerifyEmail(r)
<1>1. req'[r] # req[r]
    OBVIOUS
<1>2. req \in [Requests -> Request]
    BY DEF Inv, TypeOK
<1>3. ~(UNCHANGED req)
    BY <1>1
<1>4. PICK q \in Requests : Arrival(q) \/ Progress(q) \/ Crash(q)
    BY <1>3 DEF Next, vars, UpdateMe, Suspend, Tick
<1>5. q = r
    <2>1. Moves(q)
        BY <1>4, RequestsMoveAlone
    <2> QED
        BY <1>1, <1>2, <2>1 DEF Moves
<1>6. ~Arrival(r)
    BY DEF Arrival, Register, AskForToken, Present, BeginChange, GetUserByNormalizedEmail
<1>7. ~Crash(r)
    <2> SUFFICES ASSUME Refuse(r, "none")
                 PROVE  FALSE
        BY DEF Crash
    <2>1. Answer(r, "none") /\ UNCHANGED tables
        BY DEF Refuse
    <2>2. req'[r].answer = "none"
        BY <2>1, TablesFrame, AnswerMoves DEF Answers
    <2> QED
        BY <2>2
<1>8. /\ ~Deliver(r) /\ ~LoseMail(r) /\ ~ResetPassword(r) /\ ~ChangePassword(r) /\ ~Login(r)
      /\ \A t \in Tokens : ~ResendVerification(r, t) /\ ~ForgotPassword(r, t)
    BY DEF Deliver, LoseMail, ResetPassword, ChangePassword, Login, ResendVerification, ForgotPassword
<1> QED
    BY <1>4, <1>5, <1>6, <1>7, <1>8 DEF Progress

VerifiedBy(t) == \E e \in audit : e.event = "EMAIL_VERIFIED" /\ e.token = t

LEMMA AnsweredAlike ==
    ASSUME Inv, NEW r \in Requests, req[r].genuine, VerifyEmail(r), NEW t, t = req[r].token
    PROVE  req'[r].answer = "ok" <=> VerifiedBy(t)'
<1>1. t \in Tokens
    BY VerifyCases
<1>2. PICK u \in LockActionTokenOwner(t, "EMAIL_VERIFICATION") :
          \/ tokens[t].consumed /\ Refuse(r, ConsumedAnswer(t, u))
          \/ ~tokens[t].consumed /\ Refuse(r, "expired")
          \/ ~tokens[t].consumed /\ mapUserStatus(u) # "ACTIVE" /\ Refuse(r, mapUserStatus(u))
          \/ ~tokens[t].consumed /\ Refuse(r, "invalid")
          \/ ~tokens[t].consumed /\ ~Expired(t) /\ Verifies(r, t, u)
    BY VerifyCases
<1>3. /\ tokens[t].user = u /\ u \in Users /\ users[u] \in User
      /\ mapUserStatus(u) \in {"ACTIVE", "SUSPENDED"}
    BY <1>1, Owner DEF mapUserStatus
<1>4. ASSUME NEW answer \in Answers, Refuse(r, answer)
      PROVE  req'[r].answer = answer /\ (VerifiedBy(t)' <=> VerifiedBy(t))
    <2>1. Answer(r, answer) /\ UNCHANGED tables /\ UNCHANGED audit
        BY <1>4 DEF Refuse, tables
    <2>2. req'[r].answer = answer
        BY <2>1, TablesFrame, AnswerMoves
    <2> QED
        BY <2>1, <2>2 DEF VerifiedBy
<1>5. VerifiedBy(t) => tokens[t].consumed /\ users[u].verified
    <2> SUFFICES ASSUME NEW e \in audit, e.event = "EMAIL_VERIFIED", e.token = t
                 PROVE  tokens[t].consumed /\ users[u].verified
        BY DEF VerifiedBy
    <2>1. Witnessed(e)
        BY DEF Inv, EventsRight
    <2> QED
        BY <1>3, <2>1 DEF Witnessed
<1>6. CASE tokens[t].consumed /\ Refuse(r, ConsumedAnswer(t, u))
    <2>2. ConsumedAnswer(t, u) = IF VerifiedBy(t) THEN "ok" ELSE "invalid"
        BY <1>5 DEF ConsumedAnswer, HasSecurityAuditEventForEntity, VerifiedBy
    <2>3. ConsumedAnswer(t, u) \in Answers
        BY <2>2 DEF Answers
    <2> QED
        BY <1>4, <1>6, <2>2, <2>3
<1>7. CASE ~tokens[t].consumed /\ \E answer \in {"expired", "SUSPENDED", "invalid"} : Refuse(r, answer)
    BY <1>4, <1>5, <1>7 DEF Answers
<1>8. CASE Verifies(r, t, u)
    <2> PICK e : e = [event |-> "EMAIL_VERIFIED", token |-> t, at |-> clock,
                      version |-> users[u].version]
        OBVIOUS
    <2>1. e \in audit' /\ Answer(r, "ok")
        BY <1>8 DEF Verifies, Event
    <2>2. VerifiedBy(t)'
        <3>1. e.event = "EMAIL_VERIFIED" /\ e.token = t
            OBVIOUS
        <3> QED
            BY <2>1, <3>1 DEF VerifiedBy
    <2>3. req'[r].answer = "ok"
        <3> PICK x : x = [Idle EXCEPT !.answer = "ok"]
            OBVIOUS
        <3>1. x.answer = "ok"
            BY DEF Idle
        <3>2. req'[r] = x
            BY <2>1 DEF Answer, Inv, TypeOK
        <3> QED
            BY <3>1, <3>2
    <2> QED
        BY <2>2, <2>3
<1> QED
    BY <1>2, <1>3, <1>6, <1>7, <1>8

(* A link that is opened twice is answered as the first time, by the audit *)
(* event that VerifyEmail looks up, and a link that a newer one replaced   *)
(* is never answered with success.                                         *)
THEOREM LinksAnsweredAlike == Spec => VerificationAnsweredAlike
<1>1. ASSUME Inv, [Next]_vars
      PROVE  \A r \in Requests :
                 /\ req[r].pc = "verify" /\ req[r].genuine /\ req'[r].pc = "idle"
                 /\ req'[r].answer # "none"
                 => (req'[r].answer = "ok" <=>
                        \E e \in audit' : e.event = "EMAIL_VERIFIED" /\ e.token = req[r].token)
    <2> SUFFICES ASSUME NEW r \in Requests, req[r].pc = "verify", req[r].genuine,
                        req'[r].pc = "idle", req'[r].answer # "none"
                 PROVE  req'[r].answer = "ok" <=>
                            \E e \in audit' : e.event = "EMAIL_VERIFIED" /\ e.token = req[r].token
        OBVIOUS
    <2> PICK t : t = req[r].token
        OBVIOUS
    <2>1. VerifyEmail(r)
        BY <1>1, WhoAnswers
    <2>2. req'[r].answer = "ok" <=> VerifiedBy(t)'
        BY <1>1, <2>1, AnsweredAlike
    <2> QED
        BY <2>2 DEF VerifiedBy
<1> QED
    BY <1>1, AccountsInvariance, PTL DEF Spec, VerificationAnsweredAlike
=============================================================================
