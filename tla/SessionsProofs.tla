--------------------------- MODULE SessionsProofs ---------------------------
(***************************************************************************)
(* For any number of users, sessions, requests and tokens: a refresh token *)
(* is exchanged once, a revoked session is never changed again, and a      *)
(* refresh never lets a removed user back in.                              *)
(***************************************************************************)
EXTENDS Sessions, TLAPS

\* Tokens are given to one session each, and one that was exchanged is in none.
Chain ==
    /\ \A t \in Token : parent[t] <= minted /\ (t > minted => parent[t] = 0)
    /\ \A s \in Session : token[s] <= minted
    /\ \A s, r \in Session : token[s] = token[r] /\ token[s] # 0 => s = r
    /\ \A t \in Token, s \in Session : token[s] # 0 => parent[t] # token[s]
    /\ revoked \subseteq Rows

\* What a request carries from one statement to the next.
OnItsWay(q) ==
    /\ At(q, "creating") => request[q].merchant \in Place
    /\ At(q, "switching") => request[q].merchant \in Place
    /\ At(q, "greeting") \/ At(q, "checking") \/ At(q, "answering") =>
          request[q].merchant \in Place
    /\ At(q, "greeting") => request[q].token \in 1 .. minted /\ parent[request[q].token] = 0
    /\ (\/ At(q, "greeting") \/ At(q, "rotating") \/ At(q, "rereading") \/ At(q, "checking") \/ At(q, "answering")
        \/ At(q, "revoking") \/ At(q, "revoking all") \/ At(q, "switching"))
       => request[q].session \in Rows
    /\ At(q, "rotating") => request[q].token \in 1 .. minted
    /\ At(q, "rereading") \/ At(q, "checking") \/ At(q, "answering") =>
          /\ request[q].token \in 1 .. minted
          /\ \A s \in Session : token[s] = request[q].token => s = request[q].session
    /\ At(q, "answering") /\ owner[request[q].session] \in removed =>
          request[q].session \in revoked

SessionsInvariant ==
    /\ SessionsTypeOK
    /\ Chain
    /\ ExchangedOnce
    /\ DOMAIN request = Request
    /\ \A q \in Request : OnItsWay(q)

\* The initial states satisfy the invariant.
LEMMA SessionsInit == Init => SessionsInvariant
<1> SUFFICES ASSUME Init PROVE SessionsInvariant
  OBVIOUS
<1> USE SessionsAssumption DEF SessionsAssumption, Init
<1>1. SessionsTypeOK
  BY DEF SessionsTypeOK, Token, Place
<1>2. Chain /\ ExchangedOnce
  BY DEF Chain, ExchangedOnce, Rows, Token
<1>3. \A q \in Request : OnItsWay(q)
  BY DEF OnItsWay, At, Idle
<1> QED
  BY <1>1, <1>2, <1>3 DEF SessionsInvariant

-----------------------------------------------------------------------------
\* An idle request carries nothing.
LEMMA IdleCarriesNothing ==
    ASSUME NEW q, request'[q].pc = "idle" PROVE OnItsWay(q)'
  BY DEF OnItsWay, At

\* A step that changes no row, no token and no user keeps the invariant when the
\* request it moves is well on its way afterwards.
LEMMA RequestMoves ==
    ASSUME SessionsInvariant, NEW q \in Request, NEW next,
           Goto(q, next),
           UNCHANGED <<rowVars, worldVars, minted, parent>>,
           known' \subseteq 1 .. minted, signed' \subseteq Session \X Place,
           OnItsWay(q)'
    PROVE  SessionsInvariant'
<1> USE DEF SessionsInvariant, Goto, rowVars, worldVars
<1>1. SessionsTypeOK'
  BY DEF SessionsTypeOK
<1>2. (Chain /\ ExchangedOnce)'
  BY DEF Chain, ExchangedOnce, Rows
<1>3. ASSUME NEW r \in Request PROVE OnItsWay(r)'
  <2>1. CASE r = q
    BY <2>1
  <2>2. CASE r # q
    <3>1. request'[r] = request[r]
      BY <2>2
    <3> QED
      BY <3>1 DEF OnItsWay, At, Rows
  <2> QED
    BY <2>1, <2>2
<1> QED
  BY <1>1, <1>2, <1>3

\* So does the one that generates a token for a session: a new row, or a row
\* whose token it was is exchanged.
LEMMA TokenIsGiven ==
    ASSUME SessionsInvariant, NEW q \in Request, NEW s \in Session,
           minted < MaxTokens,
           minted' = minted + 1,
           token' = [token EXCEPT ![s] = minted + 1],
           merchant' \in [Session -> Place],
           \/ parent' = parent
           \/ s \in Rows /\ parent' = [parent EXCEPT ![minted + 1] = token[s]],
           UNCHANGED <<owner, revoked, worldVars, clientVars>>,
           DOMAIN request' = Request,
           \A r \in Request \ {q} : request'[r] = request[r],
           OnItsWay(q)'
    PROVE  SessionsInvariant'
<1> USE SessionsAssumption DEF SessionsAssumption, SessionsInvariant, worldVars, clientVars
<1>0. /\ minted \in Nat /\ minted + 1 \in Token
      /\ token \in [Session -> 0 .. MaxTokens] /\ parent \in [Token -> 0 .. MaxTokens]
      /\ known \subseteq 1 .. minted
  BY DEF SessionsTypeOK, Token
<1>1. /\ parent[minted + 1] = 0
      /\ \A r \in Session : token'[r] = IF r = s THEN minted + 1 ELSE token[r]
      /\ \A t \in Token : t # minted + 1 => parent'[t] = parent[t]
      /\ \/ parent'[minted + 1] = 0
         \/ s \in Rows /\ parent'[minted + 1] = token[s]
  BY <1>0 DEF Chain
<1>2. SessionsTypeOK'
  <2>1. /\ token' \in [Session -> 0 .. MaxTokens]
        /\ parent' \in [Token -> 0 .. MaxTokens]
        /\ minted' \in 0 .. MaxTokens
        /\ known' \subseteq 1 .. minted'
    BY <1>0
  <2> QED
    BY <2>1 DEF SessionsTypeOK, Place
<1>3. \A r \in Session, t \in Token : token[r] <= minted /\ parent[t] <= minted
  BY DEF Chain
<1>4. Rows \subseteq Rows' /\ token[s] # minted + 1
  BY <1>0, <1>1, <1>3 DEF Rows
<1>5. Chain'
  <2>1. \A t \in Token : parent'[t] <= minted' /\ (t > minted' => parent'[t] = 0)
    BY <1>0, <1>1, <1>3 DEF Chain, Token
  <2>2. \A r \in Session : token'[r] <= minted'
    BY <1>0, <1>1, <1>3
  <2>3. \A r, p \in Session : token'[r] = token'[p] /\ token'[r] # 0 => r = p
    BY <1>0, <1>1, <1>3 DEF Chain
  <2>4. ASSUME NEW t \in Token, NEW r \in Session, token'[r] # 0 PROVE parent'[t] # token'[r]
    <3>1. CASE t = minted + 1
      BY <1>0, <1>1, <1>3, <2>4, <3>1 DEF Chain, Rows
    <3>2. CASE t # minted + 1
      BY <1>0, <1>1, <1>3, <2>4, <3>2 DEF Chain
    <3> QED
      BY <3>1, <3>2
  <2>5. revoked' \subseteq Rows'
    BY <1>4 DEF Chain
  <2> QED
    BY <2>1, <2>2, <2>3, <2>4, <2>5 DEF Chain
<1>6. ExchangedOnce'
  <2> SUFFICES ASSUME NEW t \in 1 .. minted', NEW u \in 1 .. minted',
                      parent'[t] = parent'[u], parent'[t] # 0
               PROVE  t = u
    BY DEF ExchangedOnce
  <2>0. minted' = minted + 1 /\ t \in Token /\ u \in Token
    BY <1>0 DEF Token
  <2>1. CASE t # minted + 1 /\ u # minted + 1
    BY <1>0, <1>1, <2>0, <2>1 DEF ExchangedOnce
  <2>2. CASE t = minted + 1 /\ u # minted + 1
    BY <1>0, <1>1, <2>0, <2>2 DEF Chain, Rows
  <2>3. CASE t # minted + 1 /\ u = minted + 1
    BY <1>0, <1>1, <2>0, <2>3 DEF Chain, Rows
  <2> QED
    BY <2>1, <2>2, <2>3
<1>7. ASSUME NEW r \in Request PROVE OnItsWay(r)'
  <2>1. CASE r = q
    BY <2>1
  <2>2. CASE r # q
    <3>1. request'[r] = request[r] /\ OnItsWay(r)
      BY <2>2
    <3>2. ASSUME request[r].token \in 1 .. minted
          PROVE  /\ request[r].token \in 1 .. minted'
                 /\ parent[request[r].token] = 0 => parent'[request[r].token] = 0
                 /\ \A p \in Session : token'[p] = request[r].token => token[p] = request[r].token
      BY <1>0, <1>1, <3>2 DEF Token
    <3> QED
      BY <1>4, <3>1, <3>2 DEF OnItsWay, At
  <2> QED
    BY <2>1, <2>2
<1> QED
  BY <1>2, <1>5, <1>6, <1>7

\* And the one that revokes sessions: of a user who is removed, all of them.
LEMMA SessionsAreRevoked ==
    ASSUME SessionsInvariant, NEW S \in SUBSET Rows,
           revoked' = revoked \cup S,
           removed' \subseteq User,
           \A s \in Rows : owner[s] \in removed' \ removed => s \in S,
           UNCHANGED <<token, owner, merchant, expired, access, minted, clientVars, parent>>,
           DOMAIN request' = Request,
           \A r \in Request : request'[r] = request[r] \/ request'[r] = Idle
    PROVE  SessionsInvariant'
<1> USE DEF SessionsInvariant, clientVars
<1>1. SessionsTypeOK'
  BY DEF SessionsTypeOK, Rows
<1>2. Chain' /\ ExchangedOnce'
  BY DEF Chain, ExchangedOnce, Rows
<1>3. ASSUME NEW r \in Request PROVE OnItsWay(r)'
  <2>1. CASE request'[r] = Idle
    BY <2>1, IdleCarriesNothing DEF Idle
  <2>2. CASE request'[r] = request[r]
    <3>1. Rows' = Rows /\ OnItsWay(r)
      BY DEF Rows
    <3>2. ASSUME request[r].session \in Rows,
                 owner[request[r].session] \in removed => request[r].session \in revoked
          PROVE  owner[request[r].session] \in removed' => request[r].session \in revoked'
      BY <3>2
    <3> QED
      BY <2>2, <3>1, <3>2 DEF OnItsWay, At
  <2> QED
    BY <2>1, <2>2
<1> QED
  BY <1>1, <1>2, <1>3

-----------------------------------------------------------------------------
\* Every step of a request keeps the invariant.
LEMMA SessionsRequestStep ==
    ASSUME SessionsInvariant, NEW q \in Request, RequestStep(q)
    PROVE  SessionsInvariant'
<1> USE DEF SessionsInvariant, clientVars
<1>0. /\ known \subseteq 1 .. minted /\ signed \subseteq Session \X Place /\ OnItsWay(q)
      /\ merchant \in [Session -> Place]
  BY DEF SessionsTypeOK, Place
<1>1. ASSUME NEW u \in User, BeginLogin(q, u) PROVE SessionsInvariant'
  <2>1. PICK m \in Place : Goto(q, [pc |-> "creating", user |-> u, merchant |-> m])
    BY <1>1 DEF BeginLogin, Place
  <2>2. OnItsWay(q)'
    BY <2>1 DEF Goto, OnItsWay, At
  <2> QED
    BY <1>0, <1>1, <2>1, <2>2, RequestMoves DEF BeginLogin
<1>2. ASSUME NEW s \in Session, Create(q, s) PROVE SessionsInvariant'
  <2>1. merchant' \in [Session -> Place]
    BY <1>0, <1>2 DEF Create, OnItsWay
  <2>2. /\ minted \in Nat /\ minted + 1 \in Token /\ parent[minted + 1] = 0
        /\ parent' = parent /\ minted' = minted + 1
    BY <1>2, SessionsAssumption DEF Create, SessionsTypeOK, Chain, Token, SessionsAssumption
  <2>3. OnItsWay(q)'
    <3>1. request'[q] = [pc |-> "greeting", session |-> s, token |-> minted + 1,
                         merchant |-> request[q].merchant]
      BY <1>2 DEF Create, Goto
    <3>2. /\ minted + 1 \in 1 .. minted' /\ parent'[minted + 1] = 0
          /\ request[q].merchant \in Place /\ s \in Rows'
      <4>1. token'[s] = minted + 1
        BY <1>2 DEF Create, SessionsTypeOK
      <4>2. request[q].merchant \in Place
        BY <1>0, <1>2 DEF Create, OnItsWay
      <4>3. s \in Rows'
        BY <2>2, <4>1 DEF Rows, Token
      <4> QED
        BY <2>2, <4>2, <4>3 DEF Token
    <3>3. /\ request'[q].pc = "greeting" /\ request'[q].token = minted + 1
          /\ request'[q].session = s /\ request'[q].merchant = request[q].merchant
      BY <3>1
    <3> QED
      BY ONLY <3>2, <3>3 DEF OnItsWay, At
  <2> QED
    BY <1>2, <2>1, <2>3, TokenIsGiven DEF Create, Goto
<1>3. ASSUME NEW s \in Session, BeginLogout(q, s) PROVE SessionsInvariant'
  <2>1. PICK pc \in {"revoking", "revoking all"} : Goto(q, [pc |-> pc, session |-> s])
    BY <1>3 DEF BeginLogout
  <2>2. OnItsWay(q)'
    BY <1>3, <2>1 DEF BeginLogout, Admitted, Usable, Goto, OnItsWay, At, Rows, rowVars
  <2> QED
    BY <1>0, <1>3, <2>1, <2>2, RequestMoves DEF BeginLogout
<1>4. ASSUME NEW s \in Session, NEW m \in Merchant, BeginSwitch(q, s, m)
      PROVE  SessionsInvariant'
  <2>1. OnItsWay(q)'
    BY <1>4 DEF BeginSwitch, Admitted, Usable, Goto, OnItsWay, At, Rows, rowVars, Place
  <2> QED
    BY <1>0, <1>4, <2>1, RequestMoves DEF BeginSwitch
<1>5. ASSUME NEW t \in Token, BeginRotate(q, t) PROVE SessionsInvariant'
  <2>1. PICK s \in Session : /\ Usable(s)
                             /\ Goto(q, [pc |-> "rotating", session |-> s, token |-> t])
    BY <1>5 DEF BeginRotate
  <2>2. OnItsWay(q)'
    BY <1>0, <1>5, <2>1 DEF BeginRotate, Usable, Goto, OnItsWay, At, Rows, rowVars
  <2> QED
    BY <1>0, <1>5, <2>1, <2>2, RequestMoves DEF BeginRotate
<1>6. ASSUME Rotate(q) PROVE SessionsInvariant'
  <2> DEFINE s == request[q].session
  <2>1. /\ s \in Rows /\ token[s] = request[q].token
        /\ minted < MaxTokens /\ minted' = minted + 1
        /\ token' = [token EXCEPT ![s] = minted + 1]
        /\ parent' = [parent EXCEPT ![minted + 1] = token[s]]
        /\ Goto(q, [pc |-> "rereading", session |-> s, token |-> minted + 1])
        /\ UNCHANGED <<owner, merchant, revoked, worldVars, clientVars>>
    BY <1>6 DEF Rotate, Replace, Usable
  <2>2. /\ minted \in Nat /\ token \in [Session -> 0 .. MaxTokens]
        /\ \A r \in Session : token[r] <= minted
    BY SessionsAssumption DEF SessionsTypeOK, Chain, SessionsAssumption
  <2>3. \A r \in Session : token'[r] = minted + 1 => r = s
    BY <2>1, <2>2
  <2>4. s \in Session /\ token'[s] # 0
    BY <2>1, <2>2 DEF Rows
  <2>5. request'[q] = [pc |-> "rereading", session |-> s, token |-> minted + 1]
    BY <2>1 DEF Goto
  <2>6. OnItsWay(q)'
    <3>1. s \in Rows' /\ minted + 1 \in 1 .. minted'
      BY <2>1, <2>2, <2>4 DEF Rows
    <3>2. /\ request'[q].pc = "rereading" /\ request'[q].session = s
          /\ request'[q].token = minted + 1
      BY <2>5
    <3> QED
      BY ONLY <2>3, <3>1, <3>2 DEF OnItsWay, At
  <2> HIDE DEF s
  <2> QED
    BY <1>0, <2>1, <2>4, <2>6, TokenIsGiven DEF Goto
<1>7. ASSUME RotatedAlready(q) PROVE SessionsInvariant'
  <2>1. OnItsWay(q)'
    BY <1>7, IdleCarriesNothing DEF RotatedAlready, Goto, Idle
  <2> QED
    BY <1>0, <1>7, <2>1, RequestMoves DEF RotatedAlready
<1>8. ASSUME Reread(q) PROVE SessionsInvariant'
  <2>1. OnItsWay(q)'
    BY <1>0, <1>8 DEF Reread, Goto, OnItsWay, At, Rows, rowVars, worldVars
  <2> QED
    BY <1>0, <1>8, <2>1, RequestMoves DEF Reread
<1>9. ASSUME CheckUser(q) PROVE SessionsInvariant'
  <2>1. CASE owner[request[q].session] \in removed
    <3>1. OnItsWay(q)'
      BY <1>0, <1>9, <2>1 DEF CheckUser, Goto, OnItsWay, At, Rows, rowVars, worldVars
    <3> QED
      BY <1>0, <1>9, <2>1, <3>1, RequestMoves DEF CheckUser
  <2>2. CASE owner[request[q].session] \notin removed
    <3>1. /\ request'[q] = [pc |-> "answering", session |-> request[q].session,
                           token |-> request[q].token, merchant |-> request[q].merchant]
          /\ UNCHANGED <<rowVars, worldVars, minted, clientVars, parent>>
          /\ At(q, "checking")
      BY <1>9, <2>2 DEF CheckUser, Goto
    <3>2. /\ request[q].session \in Rows' /\ request[q].merchant \in Place
          /\ owner'[request[q].session] \notin removed'
          /\ request[q].token \in 1 .. minted'
          /\ \A s \in Session : token'[s] = request[q].token => s = request[q].session
      BY <1>0, <2>2, <3>1 DEF OnItsWay, Rows, rowVars, worldVars
    <3>3. /\ request'[q].pc = "answering" /\ request'[q].session = request[q].session
          /\ request'[q].token = request[q].token
          /\ request'[q].merchant = request[q].merchant
      BY <3>1
    <3>4. OnItsWay(q)'
      BY ONLY <3>2, <3>3 DEF OnItsWay, At
    <3> QED
      BY <1>0, <1>9, <2>2, <3>4, RequestMoves DEF CheckUser
  <2> QED
    BY <2>1, <2>2
<1>a. ASSUME HandOut(q), UNCHANGED <<rowVars, worldVars, minted, parent>>,
             At(q, "answering") \/ At(q, "greeting")
      PROVE  SessionsInvariant'
  <2>1. /\ request[q].token \in 1 .. minted
        /\ request[q].session \in Session /\ request[q].merchant \in Place
    BY <1>0, <1>a DEF OnItsWay, Rows
  <2>2. known' \subseteq 1 .. minted /\ signed' \subseteq Session \X Place
    <3>1. /\ minted' = minted /\ known' = known \cup {request[q].token}
          /\ signed' = signed \cup {<<request[q].session, request[q].merchant>>}
      BY <1>a DEF HandOut
    <3>2. <<request[q].session, request[q].merchant>> \in Session \X Place
      BY <2>1
    <3>3. signed' \subseteq Session \X Place
      BY ONLY <1>0, <3>1, <3>2, Zenon
    <3>4. known' \subseteq 1 .. minted
      BY ONLY <1>0, <2>1, <3>1
    <3> QED
      BY <3>3, <3>4
  <2>3. OnItsWay(q)'
    BY <1>a, IdleCarriesNothing DEF HandOut, Goto, Idle
  <2> QED
    BY <1>a, <2>2, <2>3, RequestMoves DEF HandOut
<1>10. ASSUME Answer(q) PROVE SessionsInvariant'
  <2>1. CASE HandOut(q)
    BY <1>10, <1>a, <2>1 DEF Answer
  <2>2. CASE /\ Goto(q, [pc |-> "revoking", session |-> request[q].session])
             /\ UNCHANGED clientVars
    <3>1. OnItsWay(q)'
      BY <1>0, <1>10, <2>2 DEF Answer, Goto, OnItsWay, At, Rows, rowVars
    <3> QED
      BY <1>0, <1>10, <2>2, <3>1, RequestMoves DEF Answer
  <2> QED
    BY <1>10, <2>1, <2>2 DEF Answer
<1>11. ASSUME Greet(q) PROVE SessionsInvariant'
  BY <1>11, <1>a DEF Greet
<1>12. ASSUME Revoke(q) PROVE SessionsInvariant'
  <2>1. PICK S \in SUBSET Rows : revoked' = revoked \cup S
    <3>1. CASE At(q, "revoking") /\ revoked' = revoked \cup {request[q].session}
      <4>1. {request[q].session} \in SUBSET Rows
        BY <1>0, <3>1 DEF OnItsWay
      <4> QED
        BY <3>1, <4>1
    <3>2. CASE revoked' = revoked \cup SessionsOf(owner[request[q].session])
      BY <3>2 DEF SessionsOf
    <3> QED
      BY <1>12, <3>1, <3>2 DEF Revoke
  <2>2. /\ removed' = removed /\ removed \subseteq User
        /\ DOMAIN request' = Request
        /\ \A r \in Request : request'[r] = request[r] \/ request'[r] = Idle
        /\ UNCHANGED <<token, owner, merchant, expired, access, minted, clientVars, parent>>
    BY <1>12 DEF Revoke, Goto, worldVars, SessionsTypeOK
  <2> QED
    BY <2>1, <2>2, SessionsAreRevoked
<1>13. ASSUME Switch(q) PROVE SessionsInvariant'
  <2>1. /\ merchant' \in [Session -> Place]
        /\ DOMAIN request' = Request
        /\ \A r \in Request : request'[r] = IF r = q THEN Idle ELSE request[r]
        /\ signed' \subseteq Session \X Place
        /\ UNCHANGED <<token, owner, revoked, worldVars, minted, known, parent>>
    <3>1. request[q].session \in Session /\ request[q].merchant \in Place
      BY <1>0, <1>13 DEF Switch, OnItsWay, Rows
    <3> QED
      BY <1>0, <1>13, <3>1 DEF Switch, Goto
  <2>2. SessionsTypeOK'
    BY <2>1 DEF SessionsTypeOK, Place, worldVars
  <2>3. (Chain /\ ExchangedOnce)'
    BY <2>1 DEF Chain, ExchangedOnce, Rows
  <2>4. ASSUME NEW r \in Request PROVE OnItsWay(r)'
    <3>1. CASE r = q
      BY <2>1, <3>1, IdleCarriesNothing DEF Idle
    <3>2. CASE r # q
      <4>1. request'[r] = request[r] /\ OnItsWay(r)
        BY <2>1, <3>2
      <4> QED
        BY <2>1, <4>1 DEF OnItsWay, At, Rows, worldVars
    <3> QED
      BY <3>1, <3>2
  <2> QED
    BY <2>1, <2>2, <2>3, <2>4
<1>14. ASSUME Crash(q) PROVE SessionsInvariant'
  <2>1. OnItsWay(q)'
    BY <1>14, IdleCarriesNothing DEF Crash, Goto, Idle
  <2> QED
    BY <1>0, <1>14, <2>1, RequestMoves DEF Crash
<1> QED
  BY <1>1, <1>2, <1>3, <1>4, <1>5, <1>6, <1>7, <1>8, <1>9, <1>10, <1>11, <1>12, <1>13, <1>14
  DEF RequestStep

\* Every step keeps the invariant.
LEMMA SessionsStep == SessionsInvariant /\ [Next]_vars => SessionsInvariant'
<1> USE DEF clientVars
<1> SUFFICES ASSUME SessionsInvariant, [Next]_vars PROVE SessionsInvariant'
  OBVIOUS
<1>1. CASE UNCHANGED vars
  BY <1>1 DEF vars, rowVars, worldVars, SessionsInvariant, SessionsTypeOK, Chain,
              ExchangedOnce, OnItsWay, At, Rows
<1>2. ASSUME NEW q \in Request, RequestStep(q) PROVE SessionsInvariant'
  BY <1>2, SessionsRequestStep
<1>3. ASSUME NEW u \in User, RemoveUser(u) PROVE SessionsInvariant'
  <2>1. /\ SessionsOf(u) \in SUBSET Rows
        /\ removed' \subseteq User
        /\ \A s \in Rows : owner[s] \in removed' \ removed => s \in SessionsOf(u)
        /\ request' = request /\ DOMAIN request = Request
    BY <1>3 DEF RemoveUser, SessionsOf, SessionsInvariant, SessionsTypeOK
  <2> QED
    BY <1>3, <2>1, SessionsAreRevoked DEF RemoveUser
<1>4. ASSUME NEW a \in User \X Merchant, ChangeAccess(a) PROVE SessionsInvariant'
  BY <1>4 DEF ChangeAccess, rowVars, SessionsInvariant, SessionsTypeOK, Chain,
              ExchangedOnce, OnItsWay, At, Rows
<1>5. ASSUME NEW s \in Session, Expire(s) PROVE SessionsInvariant'
  BY <1>5 DEF Expire, rowVars, SessionsInvariant, SessionsTypeOK, Chain,
              ExchangedOnce, OnItsWay, At, Rows
<1> QED
  BY <1>1, <1>2, <1>3, <1>4, <1>5 DEF Next

\* The invariant holds in every reachable state.
THEOREM SessionsInvariantHolds == Spec => []SessionsInvariant
  BY SessionsInit, SessionsStep, PTL DEF Spec

\* Every variable keeps its type.
THEOREM SessionsTypeCorrect == Spec => []SessionsTypeOK
<1>1. SessionsInvariant => SessionsTypeOK
  BY DEF SessionsInvariant
<1> QED
  BY <1>1, SessionsInvariantHolds, PTL

\* Of all clients that use a refresh token, at most one gets another for it.
THEOREM TokensAreExchangedOnce == Spec => []ExchangedOnce
<1>1. SessionsInvariant => ExchangedOnce
  BY DEF SessionsInvariant
<1> QED
  BY <1>1, SessionsInvariantHolds, PTL

\* A revoked session is never changed again.
THEOREM RevokedSessionsAreFinal == Spec => RevokedIsFinal
<1> USE DEF clientVars, HandOut
<1>1. SessionsInvariant /\ [Next]_vars =>
         [\A s \in revoked : /\ s \in revoked'
                             /\ token'[s] = token[s] /\ merchant'[s] = merchant[s]]_vars
  <2> SUFFICES ASSUME SessionsInvariant, Next, NEW s \in revoked
               PROVE  /\ s \in revoked'
                      /\ token'[s] = token[s] /\ merchant'[s] = merchant[s]
    OBVIOUS
  <2>1. /\ s \in Rows /\ s \in Session
        /\ token \in [Session -> 0 .. MaxTokens]
        /\ merchant \in [Session -> Place]
    BY DEF SessionsInvariant, Chain, Rows, SessionsTypeOK
  <2>2. ASSUME NEW q \in Request, RequestStep(q)
        PROVE  /\ s \in revoked'
               /\ token'[s] = token[s] /\ merchant'[s] = merchant[s]
    <3> USE DEF rowVars
    <3>1. CASE Rotate(q)
      BY <2>1, <3>1 DEF Rotate, Replace, Usable
    <3>2. ASSUME NEW r \in Session, Create(q, r)
          PROVE  /\ s \in revoked'
                 /\ token'[s] = token[s] /\ merchant'[s] = merchant[s]
      BY <2>1, <3>2 DEF Create
    <3>3. CASE Switch(q)
      BY <2>1, <3>3 DEF Switch
    <3>4. CASE Revoke(q)
      BY <3>4 DEF Revoke
    <3> QED
      BY <2>2, <3>1, <3>2, <3>3, <3>4
      DEF RequestStep, BeginLogin, BeginLogout, BeginSwitch, BeginRotate, RotatedAlready,
          Reread, CheckUser, Answer, Greet, Crash
  <2> QED
    BY <2>2 DEF Next, RemoveUser, ChangeAccess, Expire, rowVars
<1> QED
  BY <1>1, SessionsInvariantHolds, PTL DEF Spec, RevokedIsFinal

\* A refresh never gives a removed user a token of a session that still lives.
THEOREM RemovedUsersStayOut == Spec => RemovedStayOut
<1> USE DEF clientVars, HandOut
<1>1. SessionsInvariant /\ [Next]_vars =>
         [\A t \in known' \ known :
             \A s \in Session : token[s] = t /\ parent[t] # 0 /\ owner[s] \in removed =>
                s \in revoked]_vars
  <2> SUFFICES ASSUME SessionsInvariant, Next, NEW t \in known' \ known, NEW s \in Session,
                      token[s] = t, parent[t] # 0, owner[s] \in removed
               PROVE  s \in revoked
    OBVIOUS
  <2>1. PICK q \in Request : Greet(q) \/ Answer(q)
    BY DEF Next, RequestStep, BeginLogin, Create, BeginLogout, BeginSwitch, BeginRotate,
           Rotate, Replace, RotatedAlready, Reread, CheckUser, Revoke, Switch, Crash,
           RemoveUser, ChangeAccess, Expire
  <2>2. OnItsWay(q)
    BY DEF SessionsInvariant
  <2>3. ~Greet(q)
    BY <2>2 DEF Greet, HandOut, OnItsWay
  <2>4. At(q, "answering") /\ t = request[q].token
    BY <2>1, <2>3 DEF Answer
  <2> QED
    BY <2>2, <2>4 DEF OnItsWay
<1> QED
  BY <1>1, SessionsInvariantHolds, PTL DEF Spec, RemovedStayOut
=============================================================================
