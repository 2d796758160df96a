------------------------------ MODULE Sessions ------------------------------
(***************************************************************************)
(* The signed-in sessions of users, SessionsService and what AuthService   *)
(* and UsersService do with it.  A session has one refresh token at a      *)
(* time, replaced whenever it is used.  No operation locks anything: each  *)
(* statement is an action, and between two of them the session may be used *)
(* by somebody else, revoked or expire, its user removed, and the process  *)
(* may die with the answer.                                                *)
(***************************************************************************)
EXTENDS Naturals

CONSTANTS User,
          Merchant,   \* what a session may be opened for
          NoMerchant, \* a session outside of any merchant
          Session,    \* rows of the table
          Request,    \* concurrent requests
          MaxTokens   \* bound: refresh tokens ever generated

ASSUME SessionsAssumption == MaxTokens \in Nat /\ NoMerchant \notin Merchant

VARIABLES
    token,    \* the token of each session, 0 while there is no such row
    owner,    \* whose session it is
    merchant, \* what it is opened for
    revoked,  \* the sessions that have a revokedAt
    expired,  \* the sessions whose expiresAt has passed
    removed,  \* the users that were deleted
    access,   \* which active memberships users have
    request,  \* what each request does next, and what it has read
    minted,   \* tokens generated so far
    known,    \* the refresh tokens clients were given
    signed,   \* the access tokens clients were given: a session, and the merchant
    parent    \* history: the token each token was given for, 0 at a login

rowVars == <<token, owner, merchant, revoked>>
worldVars == <<expired, removed, access>>
clientVars == <<known, signed>>
vars == <<rowVars, worldVars, request, minted, clientVars, parent>>

Token == 1 .. MaxTokens
Place == Merchant \cup {NoMerchant}
Idle == [pc |-> "idle"]
Rows == {s \in Session : token[s] # 0}
Usable(s) == s \in Rows /\ s \notin revoked /\ s \notin expired

SessionsTypeOK ==
    /\ token \in [Session -> 0 .. MaxTokens]
    /\ owner \in [Session -> User]
    /\ merchant \in [Session -> Place]
    /\ revoked \subseteq Session /\ expired \subseteq Session
    /\ removed \subseteq User
    /\ access \subseteq User \X Merchant
    /\ minted \in 0 .. MaxTokens
    /\ known \subseteq 1 .. minted
    /\ signed \subseteq Session \X Place
    /\ parent \in [Token -> 0 .. MaxTokens]

Init ==
    /\ token = [s \in Session |-> 0]
    /\ owner \in [Session -> User]
    /\ merchant = [s \in Session |-> NoMerchant]
    /\ revoked = {} /\ expired = {} /\ removed = {}
    /\ access \in SUBSET (User \X Merchant)
    /\ request = [q \in Request |-> Idle]
    /\ minted = 0 /\ known = {} /\ signed = {}
    /\ parent = [t \in Token |-> 0]

Goto(q, next) == request' = [request EXCEPT ![q] = next]
At(q, pc) == request[q].pc = pc

-----------------------------------------------------------------------------
\* login, with a password or through an identity provider: the user is read ...
BeginLogin(q, u) ==
    /\ At(q, "idle")
    /\ u \notin removed
    /\ \E m \in Place :
          /\ IF m = NoMerchant THEN \A n \in Merchant : <<u, n>> \notin access
                               ELSE <<u, m>> \in access
          /\ Goto(q, [pc |-> "creating", user |-> u, merchant |-> m])
    /\ UNCHANGED <<rowVars, worldVars, minted, clientVars, parent>>

\* ... and create inserts the session, without reading the user again.
Create(q, s) ==
    /\ At(q, "creating")
    /\ s \notin Rows
    /\ owner[s] = request[q].user
    /\ minted < MaxTokens
    /\ minted' = minted + 1
    /\ token' = [token EXCEPT ![s] = minted + 1]
    /\ merchant' = [merchant EXCEPT ![s] = request[q].merchant]
    /\ Goto(q, [pc |-> "greeting", session |-> s, token |-> minted + 1,
                    merchant |-> request[q].merchant])
    /\ UNCHANGED <<owner, revoked, worldVars, clientVars, parent>>

\* The client gets both tokens.
HandOut(q) ==
    /\ known' = known \cup {request[q].token}
    /\ signed' = signed \cup {<<request[q].session, request[q].merchant>>}
    /\ Goto(q, Idle)

Greet(q) ==
    /\ At(q, "greeting")
    /\ HandOut(q)
    /\ UNCHANGED <<rowVars, worldVars, minted, parent>>

-----------------------------------------------------------------------------
\* rotate: the session is found by the hash of the token it was given ...
BeginRotate(q, t) ==
    /\ At(q, "idle")
    /\ t \in known
    /\ \E s \in Session :
          /\ token[s] = t /\ Usable(s)
          /\ Goto(q, [pc |-> "rotating", session |-> s, token |-> t])
    /\ UNCHANGED <<rowVars, worldVars, minted, clientVars, parent>>

\* The statement of rotate that replaces the token, on a condition.
Replace(q, condition) ==
    LET s == request[q].session
    IN  /\ At(q, "rotating")
        /\ condition
        /\ minted < MaxTokens
        /\ minted' = minted + 1
        /\ token' = [token EXCEPT ![s] = minted + 1]
        /\ parent' = [parent EXCEPT ![minted + 1] = request[q].token]
        /\ Goto(q, [pc |-> "rereading", session |-> s, token |-> minted + 1])
        /\ UNCHANGED <<owner, merchant, revoked, worldVars, clientVars>>

\* Mutants: the row is updated by its id, whatever token it has by now; a session
\* that was revoked since it was found is rotated.
RotateById(q) == Replace(q, Usable(request[q].session))
RotateRevoked(q) == Replace(q, token[request[q].session] = request[q].token)

\* ... and its token replaced, if the session is still what was found.
Rotate(q) ==
    Replace(q, /\ token[request[q].session] = request[q].token
               /\ Usable(request[q].session))

\* updateMany counted no row: the token was used, revoked or expired meanwhile.
RotatedAlready(q) ==
    /\ At(q, "rotating")
    /\ token[request[q].session] # request[q].token \/ ~Usable(request[q].session)
    /\ Goto(q, Idle)
    /\ UNCHANGED <<rowVars, worldVars, minted, clientVars, parent>>

\* The session is read again, for what it is opened for by now.
Reread(q) ==
    LET asked == request[q]
    IN  /\ At(q, "rereading")
        /\ Goto(q, [pc |-> "checking", session |-> asked.session, token |-> asked.token,
                    merchant |-> merchant[asked.session]])
        /\ UNCHANGED <<rowVars, worldVars, minted, clientVars, parent>>

\* refresh reads the user; a session of a removed one is revoked.
CheckUser(q) ==
    LET asked == request[q]
    IN  /\ At(q, "checking")
        /\ Goto(q, IF owner[asked.session] \in removed
                   THEN [pc |-> "revoking", session |-> asked.session]
                   ELSE [pc |-> "answering", session |-> asked.session,
                         token |-> asked.token, merchant |-> asked.merchant])
        /\ UNCHANGED <<rowVars, worldVars, minted, clientVars, parent>>

\* authResponse reads the memberships; the answer, or the session is revoked.
Answer(q) ==
    LET asked == request[q]
    IN  /\ At(q, "answering")
        /\ IF asked.merchant = NoMerchant \/ <<owner[asked.session], asked.merchant>> \in access
           THEN HandOut(q)
           ELSE /\ Goto(q, [pc |-> "revoking", session |-> asked.session])
                /\ UNCHANGED clientVars
        /\ UNCHANGED <<rowVars, worldVars, minted, parent>>

-----------------------------------------------------------------------------
\* The guard of every signed-in request, JwtStrategy.validate: the access token
\* of a session, and the merchant it names if it names one.
Admitted(s) ==
    /\ Usable(s)
    /\ owner[s] \notin removed
    /\ \/ <<s, NoMerchant>> \in signed
       \/ <<s, merchant[s]>> \in signed /\ <<owner[s], merchant[s]>> \in access

\* logout and logoutAll, behind the guard.
BeginLogout(q, s) ==
    /\ At(q, "idle")
    /\ Admitted(s)
    /\ \E pc \in {"revoking", "revoking all"} : Goto(q, [pc |-> pc, session |-> s])
    /\ UNCHANGED <<rowVars, worldVars, minted, clientVars, parent>>

SessionsOf(u) == {s \in Rows : owner[s] = u}

\* revoke and revokeAll.
Revoke(q) ==
    /\ \/ At(q, "revoking") /\ revoked' = revoked \cup {request[q].session}
       \/ At(q, "revoking all")
          /\ revoked' = revoked \cup SessionsOf(owner[request[q].session])
    /\ Goto(q, Idle)
    /\ UNCHANGED <<token, owner, merchant, worldVars, minted, clientVars, parent>>

\* switchMerchant, behind the guard: the membership is read ...
BeginSwitch(q, s, m) ==
    /\ At(q, "idle")
    /\ Admitted(s)
    /\ <<owner[s], m>> \in access
    /\ Goto(q, [pc |-> "switching", session |-> s, merchant |-> m])
    /\ UNCHANGED <<rowVars, worldVars, minted, clientVars, parent>>

\* ... setMerchant changes the session unless it was revoked, and the client
\* gets an access token, or the process dies before it does.
Switch(q) ==
    LET s == request[q].session
    IN  /\ At(q, "switching")
        /\ \/ s \in revoked /\ UNCHANGED <<merchant, signed>>
           \/ /\ s \notin revoked
              /\ merchant' = [merchant EXCEPT ![s] = request[q].merchant]
              /\ signed' \in {signed, signed \cup {<<s, request[q].merchant>>}}
        /\ Goto(q, Idle)
        /\ UNCHANGED <<token, owner, revoked, worldVars, minted, known, parent>>

\* Mutant: the sessions of a removed user are left to the check of the user.
RemoveUserOnly(u) ==
    /\ u \notin removed
    /\ removed' = removed \cup {u}
    /\ UNCHANGED <<rowVars, expired, access, request, minted, clientVars, parent>>

\* remove of UsersService, one transaction.
RemoveUser(u) ==
    /\ u \notin removed
    /\ removed' = removed \cup {u}
    /\ revoked' = revoked \cup SessionsOf(u)
    /\ UNCHANGED <<token, owner, merchant, expired, access, request, minted, clientVars, parent>>

\* A membership, or its merchant, is made inactive or active.
ChangeAccess(a) ==
    /\ access' \in {access \ {a}, access \cup {a}}
    /\ UNCHANGED <<rowVars, expired, removed, request, minted, clientVars, parent>>

Expire(s) ==
    /\ s \in Rows
    /\ expired' = expired \cup {s}
    /\ UNCHANGED <<rowVars, removed, access, request, minted, clientVars, parent>>

\* The process dies or a statement fails, and the answer is lost.
Crash(q) ==
    /\ ~At(q, "idle")
    /\ Goto(q, Idle)
    /\ UNCHANGED <<rowVars, worldVars, minted, clientVars, parent>>

-----------------------------------------------------------------------------
RequestStep(q) ==
    \/ \E u \in User : BeginLogin(q, u)
    \/ \E s \in Session : Create(q, s) \/ BeginLogout(q, s)
    \/ \E s \in Session, m \in Merchant : BeginSwitch(q, s, m)
    \/ \E t \in Token : BeginRotate(q, t)
    \/ Rotate(q) \/ RotatedAlready(q) \/ Reread(q) \/ CheckUser(q) \/ Answer(q)
    \/ Greet(q) \/ Revoke(q) \/ Switch(q) \/ Crash(q)

Next ==
    \/ \E q \in Request : RequestStep(q)
    \/ \E u \in User : RemoveUser(u)
    \/ \E a \in User \X Merchant : ChangeAccess(a)
    \/ \E s \in Session : Expire(s)

Spec == Init /\ [][Next]_vars

-----------------------------------------------------------------------------
\* A refresh token is exchanged once: of two clients that use the same one at the
\* same time, or one after the other, at most one gets another for it.
ExchangedOnce ==
    \A t, u \in 1 .. minted : parent[t] = parent[u] /\ parent[t] # 0 => t = u

\* A session that was logged out or revoked is never changed again: a refresh or
\* a switch of the merchant that was under way does not bring it back.
RevokedIsFinal ==
    [][\A s \in revoked : /\ s \in revoked'
                          /\ token'[s] = token[s] /\ merchant'[s] = merchant[s]]_vars

\* A user who was removed gets no usable token out of a refresh, also not out of
\* one that had found the user active before.
RemovedStayOut ==
    [][\A t \in known' \ known :
          \A s \in Session : token[s] = t /\ parent[t] # 0 /\ owner[s] \in removed =>
             s \in revoked]_vars
=============================================================================
