---------------------------- MODULE StaffProofs ----------------------------
(***************************************************************************)
(* Theorems about Staff and the sessions below it, for every set of        *)
(* workers and every bound.                                                *)
(***************************************************************************)
EXTENDS Staff, SumLemmas, SequenceTheorems

Request == SessionRequest \cup StaffRequest

\* The requests that stand on a refresh token, a link or an invitation.
OnToken == {"epoch", "claim", "reissue", "retire"}
OnInvite == {"withdraw", "accept"}

Stands(r, tokenRows, linkRows, inviteRows) ==
  /\ r.pc \in OnToken => r.token \in tokenRows
  /\ r.pc = "select" => r.token \in {0} \cup tokenRows
  /\ r.pc = "redeem" => r.link \in linkRows
  /\ r.pc \in OnInvite => r.invite \in inviteRows

\* What a request names is there: nothing is ever deleted under it.
RequestsStandOnRows ==
  \A w \in Worker : Stands(req[w], DOMAIN tokens, DOMAIN links, DOMAIN invites)

Typed == TypeOK /\ RequestsStandOnRows

\* What a request in the middle of an operation carries.
LEMMA RequestShapes ==
  ASSUME NEW r \in Request
  PROVE  /\ r.pc = "claims" => r.family \in Time \cup {None}
         /\ r.pc = "mint" => r.family \in Time \cup {None} /\ r.scoped \in BOOLEAN
         /\ r.pc = "insert" =>
              r.family \in Time /\ r.created \in Time /\ r.scoped \in BOOLEAN
         /\ r.pc \in {"epoch", "claim"} => r.since \in Time \cup {None}
         /\ r.pc = "refuse" => r.family \in Time
         /\ r.pc = "everywhere" => r.at \in Time
         /\ r.pc = "link" => r.kind \in LinkKind
         /\ r.pc = "join" => r \in [pc : {"join"}, iat : Time, raced : BOOLEAN]
         /\ r.pc = "clock" => r.event \in Event
         /\ r.pc = "idle" <=> r = Idle
  BY DEF Request, SessionRequest, StaffRequest, Idle

\* Every record that a handler goes on with is a request.
LEMMA RequestsAreMade ==
  /\ Idle \in Request
  /\ [pc |-> "sweep"] \in Request /\ [pc |-> "notify"] \in Request
  /\ [pc |-> "invite"] \in Request
  /\ \A f \in Time \cup {None} : [pc |-> "claims", family |-> f] \in Request
  /\ \A f \in Time \cup {None}, b \in BOOLEAN :
       [pc |-> "mint", family |-> f, scoped |-> b] \in Request
  /\ \A f, t \in Time, b \in BOOLEAN :
       [pc |-> "insert", family |-> f, created |-> t, scoped |-> b] \in Request
  /\ \A i \in Nat \ {0}, t \in Time \cup {None} :
       /\ [pc |-> "epoch", token |-> i, since |-> t] \in Request
       /\ [pc |-> "claim", token |-> i, since |-> t] \in Request
  /\ \A f \in Time : [pc |-> "refuse", family |-> f] \in Request
  /\ \A i \in Nat : [pc |-> "select", token |-> i] \in Request
  /\ \A i \in Nat \ {0} :
       /\ [pc |-> "reissue", token |-> i] \in Request
       /\ [pc |-> "retire", token |-> i] \in Request
       /\ [pc |-> "redeem", link |-> i] \in Request
       /\ [pc |-> "withdraw", invite |-> i] \in Request
       /\ [pc |-> "accept", invite |-> i] \in Request
  /\ \A t \in Time : [pc |-> "everywhere", at |-> t] \in Request
  /\ \A k \in LinkKind : [pc |-> "link", kind |-> k] \in Request
  /\ \A t \in Time, b \in BOOLEAN : [pc |-> "join", iat |-> t, raced |-> b] \in Request
  /\ \A e \in Event : [pc |-> "clock", event |-> e] \in Request
  BY DEF Request, SessionRequest, StaffRequest, Idle

\* A row of a table has its type, and its place in the table is a number.
LEMMA Rows ==
  ASSUME NEW T, NEW s \in Seq(T), NEW i \in DOMAIN s
  PROVE  s[i] \in T /\ i \in Nat \ {0}
  BY ElementOfSeq, LenProperties

\* A table with other rows in the same places is a table.
LEMMA SameLength ==
  ASSUME NEW T, NEW s \in Seq(T), NEW t \in [DOMAIN s -> T]
  PROVE  t \in Seq(T) /\ DOMAIN t = DOMAIN s
  <1>1. DOMAIN s = 1 .. Len(s) /\ Len(s) \in Nat
    BY LenProperties
  <1>2. t = [i \in 1 .. Len(s) |-> t[i]] /\ \A i \in 1 .. Len(s) : t[i] \in T
    BY <1>1
  <1>3. t \in Seq(T)
    BY <1>1, <1>2, IsASeq
  <1> QED BY <1>1, <1>3, LenProperties

\* A table with one more row is a table that keeps the others.
LEMMA OneMore ==
  ASSUME NEW T, NEW s \in Seq(T), NEW x \in T
  PROVE  /\ Append(s, x) \in Seq(T)
         /\ DOMAIN Append(s, x) = DOMAIN s \cup {Len(s) + 1}
         /\ Len(s) + 1 \notin DOMAIN s
         /\ \A i \in DOMAIN s : Append(s, x)[i] = s[i]
         /\ Append(s, x)[Len(s) + 1] = x
  <1>1. DOMAIN s = 1 .. Len(s) /\ Len(s) \in Nat
    BY LenProperties
  <1>2. Append(s, x) \in Seq(T) /\ Len(Append(s, x)) = Len(s) + 1
    BY AppendProperties
  <1>3. DOMAIN Append(s, x) = 1 .. Len(s) + 1
    BY <1>2, LenProperties
  <1> QED BY <1>1, <1>2, <1>3, AppendProperties

\* Revoking changes nothing else (the conditional updates of TokenService).
LEMMA RevokedRows ==
  ASSUME tokens \in Seq(Token), NEW chosen
  PROVE  /\ Revoked(chosen) \in Seq(Token)
         /\ DOMAIN Revoked(chosen) = DOMAIN tokens
         /\ \A i \in DOMAIN tokens :
              /\ Revoked(chosen)[i].family = tokens[i].family
              /\ Revoked(chosen)[i].created = tokens[i].created
              /\ Revoked(chosen)[i].revoked = (tokens[i].revoked \/ i \in chosen)
  <1>1. \A i \in DOMAIN tokens : tokens[i] \in Token
    BY Rows
  <1>2. Revoked(chosen) \in [DOMAIN tokens -> Token]
    BY <1>1 DEF Revoked, Token
  <1>3. Revoked(chosen) \in Seq(Token) /\ DOMAIN Revoked(chosen) = DOMAIN tokens
    BY <1>2, SameLength
  <1> QED BY <1>1, <1>3 DEF Revoked, Token

\* A request goes on as r; the tables keep their rows.
LEMMA GoingOn ==
  ASSUME Typed, NEW w \in Worker, NEW r \in Request, req' = [req EXCEPT ![w] = r],
         Stands(r, DOMAIN tokens', DOMAIN links', DOMAIN invites'),
         tokens' \in Seq(Token), DOMAIN tokens \subseteq DOMAIN tokens',
         links' \in Seq(Link), DOMAIN links \subseteq DOMAIN links',
         invites' \in Seq(Invite), DOMAIN invites \subseteq DOMAIN invites',
         account' \in BOOLEAN, member' \in {"NONE", "ACTIVE", "INACTIVE"},
         validFrom' \in Time \cup {None}, access' \subseteq Access,
         sockets' \subseteq Socket, now' \in Time, regressed' \in BOOLEAN,
         forked' \subseteq Time, sent' \in 0 .. MaxRequests, attendance' \subseteq Event
  PROVE  Typed'
  <1>1. req' \in [Worker -> Request]
    BY DEF Typed, TypeOK, Request
  <1>2. TypeOK'
    BY <1>1 DEF TypeOK, Request
  <1>3. ASSUME NEW v \in Worker
        PROVE  Stands(req'[v], DOMAIN tokens', DOMAIN links', DOMAIN invites')
    <2>1. CASE v = w
      BY <2>1 DEF Typed, TypeOK
    <2>2. CASE v # w
      <3>1. req'[v] = req[v] /\ Stands(req[v], DOMAIN tokens, DOMAIN links, DOMAIN invites)
        BY <2>2 DEF Typed, TypeOK, RequestsStandOnRows
      <3> QED BY <3>1 DEF Stands
    <2> QED BY <2>1, <2>2
  <1> QED BY <1>2, <1>3 DEF Typed, RequestsStandOnRows

\* ... and nothing but the clock and the requests changes.
LEMMA OnlyTheRequest ==
  ASSUME Typed, NEW w \in Worker, NEW r \in Request, req' = [req EXCEPT ![w] = r],
         Stands(r, DOMAIN tokens, DOMAIN links, DOMAIN invites),
         UNCHANGED <<person, session, sockets, links, staff>>,
         now' \in Time, sent' \in 0 .. MaxRequests
  PROVE  Typed'
  BY GoingOn DEF Typed, TypeOK, person, session, staff

\* A stamp is a time.
LEMMA StampTyped == ASSUME now \in Time, Stamp PROVE now' \in Time
  BY SessionsAssumption DEF Stamp, Time

\* An arrival counts as sent and starts the worker.
LEMMA SentTyped ==
  ASSUME sent \in 0 .. MaxRequests, NEW w, NEW k, NEW r, Arrive(w, k, r)
  PROVE  sent' \in 0 .. MaxRequests /\ req' = [req EXCEPT ![w] = r]
  BY SessionsAssumption DEF Arrive

\* The tables are empty at first.
LEMMA TypedInit == Init => Typed
  <1> SUFFICES ASSUME Init PROVE Typed
    OBVIOUS
  <1>1. tokens \in Seq(Token) /\ links \in Seq(Link) /\ invites \in Seq(Invite)
    BY DEF Init, SessionInit
  <1>2. req \in [Worker -> Request]
    BY RequestsAreMade DEF Init, SessionInit
  <1>3. 0 \in Time /\ 0 \in 0 .. MaxRequests
    BY SessionsAssumption DEF Time
  <1>5. /\ access = {} /\ sockets = {} /\ forked = {} /\ attendance = {}
        /\ account = FALSE /\ member = "NONE" /\ regressed = FALSE
        /\ now = 0 /\ sent = 0 /\ validFrom = None
    BY DEF Init, SessionInit
  <1>6. TypeOK
    BY <1>1, <1>2, <1>3, <1>5 DEF TypeOK, Request
  <1>4. RequestsStandOnRows
    BY DEF Init, SessionInit, Idle, RequestsStandOnRows, Stands, OnToken, OnInvite
  <1> QED BY <1>6, <1>4 DEF Typed

\* The refresh token a request names is a row (rotate, rotateForReissue).
LEMMA NamedTokens ==
  ASSUME Typed, NEW w \in Worker
  PROVE  /\ req[w].pc \in OnToken =>
              /\ req[w].token \in DOMAIN tokens /\ req[w].token \in Nat \ {0}
              /\ tokens[req[w].token] \in Token
         /\ req[w].pc = "select" => req[w].token \in Nat
  <1>1. /\ req[w].pc \in OnToken => req[w].token \in DOMAIN tokens
        /\ req[w].pc = "select" => req[w].token \in {0} \cup DOMAIN tokens
    BY DEF Typed, RequestsStandOnRows, Stands
  <1>2. \A i \in DOMAIN tokens : tokens[i] \in Token /\ i \in Nat \ {0}
    BY Rows DEF Typed, TypeOK
  <1> QED BY <1>1, <1>2

\* Requests that go on and change nothing else.
LEMMA OnlyRequestSteps ==
  ASSUME Typed, UNCHANGED staff, NEW w \in Worker,
         \/ Abort(w) \/ Claims(w) \/ Mint(w) \/ Epoch(w) \/ SelectMember(w) \/ Reissue(w)
         \/ Sweep(w)
  PROVE  Typed'
  <1>0. /\ req[w] \in Request /\ Stands(req[w], DOMAIN tokens, DOMAIN links, DOMAIN invites)
        /\ now \in Time /\ validFrom \in Time \cup {None} /\ sent \in 0 .. MaxRequests
        /\ req \in [Worker -> Request]
    BY DEF Typed, TypeOK, Request, RequestsStandOnRows
  <1>1. CASE Abort(w)
    <2> DEFINE r == Idle
    <2>1. r \in Request
      BY <1>0, <1>1, RequestShapes, RequestsAreMade DEF Abort, End, Goto
    <2>2. Stands(r, DOMAIN tokens, DOMAIN links, DOMAIN invites)
      BY <1>0, <1>1 DEF Abort, End, Goto, Stands, OnToken, OnInvite, Idle
    <2>3. req' = [req EXCEPT ![w] = r]
      BY <1>1 DEF Abort, End, Goto
    <2> HIDE DEF r
    <2> QED BY <1>1, <2>1, <2>2, <2>3, <1>0, OnlyTheRequest DEF Abort, End, Goto
  <1>2. CASE Claims(w)
    <2> DEFINE r == [pc |-> "mint", family |-> req[w].family, scoped |-> member = "ACTIVE"]
    <2>1. r \in Request
      BY <1>0, <1>2, RequestShapes, RequestsAreMade DEF Claims, Goto
    <2>2. Stands(r, DOMAIN tokens, DOMAIN links, DOMAIN invites)
      BY <1>0, <1>2 DEF Claims, Goto, Stands, OnToken, OnInvite, Idle
    <2>3. req' = [req EXCEPT ![w] = r]
      BY <1>2 DEF Claims, Goto
    <2> HIDE DEF r
    <2> QED BY <1>2, <2>1, <2>2, <2>3, <1>0, OnlyTheRequest DEF Claims, Goto
  <1>3. CASE Mint(w)
    <2> DEFINE r == [pc |-> "insert", family |-> FamilyOf(req[w]), created |-> now',
                   scoped |-> req[w].scoped]
    <2>1. r \in Request
      BY <1>0, <1>3, RequestShapes, RequestsAreMade, StampTyped DEF Mint, Goto, FamilyOf
    <2>2. Stands(r, DOMAIN tokens, DOMAIN links, DOMAIN invites)
      BY <1>0, <1>3 DEF Mint, Goto, FamilyOf, Stands, OnToken, OnInvite, Idle
    <2>3. req' = [req EXCEPT ![w] = r]
      BY <1>3 DEF Mint, Goto, FamilyOf
    <2> HIDE DEF r
    <2> QED BY <1>3, <2>1, <2>2, <2>3, <1>0, StampTyped, OnlyTheRequest DEF Mint, Goto, FamilyOf
  <1>4. CASE Epoch(w)
    <2> DEFINE r == IF validFrom # None /\ Began(req[w].token, validFrom)
                   THEN [pc |-> "refuse", family |-> tokens[req[w].token].family]
                   ELSE [pc |-> "claim", token |-> req[w].token, since |-> req[w].since]
    <2>1. r \in Request
      BY <1>0, <1>4, RequestShapes, RequestsAreMade, NamedTokens DEF Epoch, Goto, OnToken, Token
    <2>2. Stands(r, DOMAIN tokens, DOMAIN links, DOMAIN invites)
      BY <1>0, <1>4 DEF Epoch, Goto, Stands, OnToken, OnInvite, Idle
    <2>3. req' = [req EXCEPT ![w] = r]
      BY <1>4 DEF Epoch, Goto
    <2> HIDE DEF r
    <2> QED BY <1>4, <2>1, <2>2, <2>3, <1>0, OnlyTheRequest DEF Epoch, Goto
  <1>5. CASE SelectMember(w)
    <2> DEFINE r == IF member # "ACTIVE" THEN Idle
                   ELSE IF req[w].token = 0
                        THEN [pc |-> "mint", family |-> None, scoped |-> TRUE]
                        ELSE [pc |-> "reissue", token |-> req[w].token]
    <2>1. r \in Request
      BY <1>0, <1>5, RequestShapes, RequestsAreMade, NamedTokens DEF SelectMember, End, Goto
    <2>2. Stands(r, DOMAIN tokens, DOMAIN links, DOMAIN invites)
      BY <1>0, <1>5 DEF SelectMember, End, Goto, Stands, OnToken, OnInvite, Idle
    <2>3. req' = [req EXCEPT ![w] = r]
      BY <1>5 DEF SelectMember, End, Goto
    <2> HIDE DEF r
    <2> QED BY <1>5, <2>1, <2>2, <2>3, <1>0, OnlyTheRequest DEF SelectMember, End, Goto
  <1>6. CASE Reissue(w)
    <2> DEFINE r == IF tokens[req[w].token].revoked
                   THEN [pc |-> "mint", family |-> None, scoped |-> TRUE]
                   ELSE [pc |-> "retire", token |-> req[w].token]
    <2>1. r \in Request
      BY <1>0, <1>6, RequestShapes, RequestsAreMade, NamedTokens DEF Reissue, Goto, OnToken, Token
    <2>2. Stands(r, DOMAIN tokens, DOMAIN links, DOMAIN invites)
      BY <1>0, <1>6 DEF Reissue, Goto, Stands, OnToken, OnInvite, Idle
    <2>3. req' = [req EXCEPT ![w] = r]
      BY <1>6 DEF Reissue, Goto
    <2> HIDE DEF r
    <2> QED BY <1>6, <2>1, <2>2, <2>3, <1>0, OnlyTheRequest DEF Reissue, Goto
  <1>7. CASE Sweep(w)
    <2> DEFINE r == [pc |-> "everywhere", at |-> now']
    <2>1. r \in Request
      BY <1>0, <1>7, RequestShapes, RequestsAreMade, StampTyped DEF Sweep, Goto
    <2>2. Stands(r, DOMAIN tokens, DOMAIN links, DOMAIN invites)
      BY <1>0, <1>7 DEF Sweep, Goto, Stands, OnToken, OnInvite, Idle
    <2>3. req' = [req EXCEPT ![w] = r]
      BY <1>7 DEF Sweep, Goto
    <2> HIDE DEF r
    <2> QED BY <1>7, <2>1, <2>2, <2>3, <1>0, StampTyped, OnlyTheRequest DEF Sweep, Goto
  <1> QED BY <1>1, <1>2, <1>3, <1>4, <1>5, <1>6, <1>7

\* Requests that come in and change nothing else.
LEMMA ArrivalsTyped ==
  ASSUME Typed, NEW w \in Worker,
         \/ UNCHANGED staff /\ (Register(w) \/ Login(w) \/ LogoutAll(w))
         \/ UNCHANGED staff /\ \E i \in DOMAIN tokens : Refresh(w, i)
         \/ UNCHANGED staff /\ \E a \in access, i \in {0} \cup DOMAIN tokens : Select(w, a, i)
         \/ UNCHANGED staff /\ \E i \in DOMAIN links : UseLink(w, i)
         \/ UNCHANGED staff /\ \E a \in access : Connect(w, a)
         \/ InviteRead(w) \/ Deactivate(w) \/ Reactivate(w)
         \/ \E i \in DOMAIN invites : WithdrawRead(w, i) \/ AcceptRead(w, i)
         \/ \E type \in ClockType : Clock(w, type)
         \/ \E type \in ClockType, at \in Backdated : ClockBack(w, type, at)
  PROVE  Typed'
  <1> USE DEF Stands, OnToken, OnInvite, Idle
  <1>0. /\ now \in Time /\ validFrom \in Time \cup {None} /\ sent \in 0 .. MaxRequests
        /\ tokens \in Seq(Token) /\ links \in Seq(Link) /\ invites \in Seq(Invite)
        /\ access \subseteq Access
    BY DEF Typed, TypeOK
  <1>1. CASE UNCHANGED staff /\ Register(w)
    <2> DEFINE r == [pc |-> "mint", family |-> None, scoped |-> FALSE]
    <2>1. r \in Request /\ Stands(r, DOMAIN tokens, DOMAIN links, DOMAIN invites)
      BY RequestsAreMade
    <2>2. Arrive(w, "register", r)
      BY <1>1 DEF Register
    <2> HIDE DEF r
    <2>3. sent' \in 0 .. MaxRequests /\ req' = [req EXCEPT ![w] = r]
      BY <1>0, <2>2, SentTyped
    <2> QED BY <1>0, <1>1, <2>1, <2>3, GoingOn
            DEF Register, Typed, TypeOK, person, session, staff
  <1>2. CASE UNCHANGED staff /\ Login(w)
    <2> DEFINE r == [pc |-> "claims", family |-> None]
    <2>1. r \in Request /\ Stands(r, DOMAIN tokens, DOMAIN links, DOMAIN invites)
      BY RequestsAreMade
    <2>2. Arrive(w, "login", r)
      BY <1>2 DEF Login
    <2> HIDE DEF r
    <2>3. sent' \in 0 .. MaxRequests /\ req' = [req EXCEPT ![w] = r]
      BY <1>0, <2>2, SentTyped
    <2> QED BY <1>0, <1>2, <2>1, <2>3, OnlyTheRequest DEF Login
  <1>3. CASE UNCHANGED staff /\ LogoutAll(w)
    <2> DEFINE r == [pc |-> "sweep"]
    <2>1. r \in Request /\ Stands(r, DOMAIN tokens, DOMAIN links, DOMAIN invites)
      BY RequestsAreMade
    <2>2. Arrive(w, "everywhere", r)
      BY <1>3 DEF LogoutAll
    <2> HIDE DEF r
    <2>3. sent' \in 0 .. MaxRequests /\ req' = [req EXCEPT ![w] = r]
      BY <1>0, <2>2, SentTyped
    <2> QED BY <1>0, <1>3, <2>1, <2>3, OnlyTheRequest DEF LogoutAll
  <1>4. CASE InviteRead(w)
    <2> DEFINE r == [pc |-> "invite"]
    <2>1. r \in Request /\ Stands(r, DOMAIN tokens, DOMAIN links, DOMAIN invites)
      BY RequestsAreMade
    <2>2. Arrive(w, "invite", r)
      BY <1>4 DEF InviteRead
    <2> HIDE DEF r
    <2>3. sent' \in 0 .. MaxRequests /\ req' = [req EXCEPT ![w] = r]
      BY <1>0, <2>2, SentTyped
    <2> QED BY <1>0, <1>4, <2>1, <2>3, OnlyTheRequest DEF InviteRead
  <1>5. CASE Deactivate(w)
    <2> DEFINE r == [pc |-> "sweep"]
    <2>1. r \in Request /\ Stands(r, DOMAIN tokens, DOMAIN links, DOMAIN invites)
      BY RequestsAreMade
    <2>2. Arrive(w, "member", r)
      BY <1>5 DEF Deactivate
    <2> HIDE DEF r
    <2>3. sent' \in 0 .. MaxRequests /\ req' = [req EXCEPT ![w] = r]
      BY <1>0, <2>2, SentTyped
    <2> QED BY <1>0, <1>5, <2>1, <2>3, GoingOn
            DEF Deactivate, Typed, TypeOK, person, session, staff
  <1>6. CASE Reactivate(w)
    <2> DEFINE r == Idle
    <2>1. r \in Request /\ Stands(r, DOMAIN tokens, DOMAIN links, DOMAIN invites)
      BY RequestsAreMade
    <2>2. Arrive(w, "member", r)
      BY <1>6 DEF Reactivate
    <2> HIDE DEF r
    <2>3. sent' \in 0 .. MaxRequests /\ req' = [req EXCEPT ![w] = r]
      BY <1>0, <2>2, SentTyped
    <2> QED BY <1>0, <1>6, <2>1, <2>3, GoingOn
            DEF Reactivate, Typed, TypeOK, person, session, staff
  <1>7. CASE UNCHANGED staff /\ \E i \in DOMAIN tokens : Refresh(w, i)
    <2> PICK i \in DOMAIN tokens : Refresh(w, i)
      BY <1>7
    <2> DEFINE r == IF tokens[i].revoked THEN [pc |-> "refuse", family |-> tokens[i].family]
                   ELSE [pc |-> "epoch", token |-> i, since |-> validFrom]
    <2>5. tokens[i] \in Token /\ i \in Nat \ {0}
      BY <1>0, Rows
    <2>6. tokens[i].family \in Time
      BY <2>5 DEF Token
    <2>1. r \in Request
      BY <1>0, <2>5, <2>6, RequestsAreMade
    <2>4. Stands(r, DOMAIN tokens, DOMAIN links, DOMAIN invites)
      OBVIOUS
    <2>2. Arrive(w, "refresh", r)
      BY DEF Refresh, Token
    <2> HIDE DEF r
    <2>3. sent' \in 0 .. MaxRequests /\ req' = [req EXCEPT ![w] = r]
      BY <1>0, <2>2, SentTyped
    <2> QED BY <1>0, <1>7, <2>1, <2>3, <2>4, OnlyTheRequest DEF Refresh, Token, staff
  <1>8. CASE UNCHANGED staff /\ \E a \in access, i \in {0} \cup DOMAIN tokens : Select(w, a, i)
    <2> PICK a \in access, i \in {0} \cup DOMAIN tokens : Select(w, a, i)
      BY <1>8
    <2> DEFINE r == [pc |-> "select", token |-> i]
    <2>5. \A j \in DOMAIN tokens : j \in Nat
      BY <1>0, Rows
    <2>6. i \in Nat
      BY <2>5
    <2>1. r \in Request
      BY <2>6, RequestsAreMade
    <2>4. Stands(r, DOMAIN tokens, DOMAIN links, DOMAIN invites)
      OBVIOUS
    <2>2. Arrive(w, "select", r)
      BY DEF Select
    <2> HIDE DEF r
    <2>3. sent' \in 0 .. MaxRequests /\ req' = [req EXCEPT ![w] = r]
      BY <1>0, <2>2, SentTyped
    <2> QED BY <1>0, <1>8, <2>1, <2>3, <2>4, OnlyTheRequest DEF Select, staff
  <1>9. CASE UNCHANGED staff /\ \E i \in DOMAIN links : UseLink(w, i)
    <2> PICK i \in DOMAIN links : UseLink(w, i)
      BY <1>9
    <2> DEFINE r == [pc |-> "redeem", link |-> i]
    <2>1. r \in Request
      BY <1>0, RequestsAreMade, Rows DEF UseLink
    <2>4. Stands(r, DOMAIN tokens, DOMAIN links, DOMAIN invites)
      OBVIOUS
    <2>2. Arrive(w, links[i].kind, r)
      BY DEF UseLink
    <2> HIDE DEF r
    <2>3. sent' \in 0 .. MaxRequests /\ req' = [req EXCEPT ![w] = r]
      BY <1>0, <2>2, SentTyped
    <2> QED BY <1>0, <1>9, <2>1, <2>3, <2>4, OnlyTheRequest DEF UseLink, staff
  <1>10. CASE UNCHANGED staff /\ \E a \in access : Connect(w, a)
    <2> PICK a \in access : Connect(w, a)
      BY <1>10
    <2> DEFINE r == [pc |-> "join", iat |-> a.iat, raced |-> FALSE]
    <2>1. r \in Request
      BY <1>0, RequestsAreMade DEF Connect, Access
    <2>4. Stands(r, DOMAIN tokens, DOMAIN links, DOMAIN invites)
      OBVIOUS
    <2>2. Arrive(w, "socket", r)
      BY DEF Connect, Access
    <2> HIDE DEF r
    <2>3. sent' \in 0 .. MaxRequests /\ req' = [req EXCEPT ![w] = r]
      BY <1>0, <2>2, SentTyped
    <2> QED BY <1>0, <1>10, <2>1, <2>3, <2>4, OnlyTheRequest DEF Connect, Access, staff
  <1>11. CASE \E i \in DOMAIN invites : WithdrawRead(w, i)
    <2> PICK i \in DOMAIN invites : WithdrawRead(w, i)
      BY <1>11
    <2> DEFINE r == [pc |-> "withdraw", invite |-> i]
    <2>1. r \in Request
      BY <1>0, RequestsAreMade, Rows DEF WithdrawRead
    <2>4. Stands(r, DOMAIN tokens, DOMAIN links, DOMAIN invites)
      OBVIOUS
    <2>2. Arrive(w, "invite", r)
      BY DEF WithdrawRead
    <2> HIDE DEF r
    <2>3. sent' \in 0 .. MaxRequests /\ req' = [req EXCEPT ![w] = r]
      BY <1>0, <2>2, SentTyped
    <2> QED BY <1>0, <1>11, <2>1, <2>3, <2>4, OnlyTheRequest DEF WithdrawRead
  <1>12. CASE \E i \in DOMAIN invites : AcceptRead(w, i)
    <2> PICK i \in DOMAIN invites : AcceptRead(w, i)
      BY <1>12
    <2> DEFINE r == [pc |-> "accept", invite |-> i]
    <2>1. r \in Request
      BY <1>0, RequestsAreMade, Rows DEF AcceptRead
    <2>4. Stands(r, DOMAIN tokens, DOMAIN links, DOMAIN invites)
      OBVIOUS
    <2>2. Arrive(w, "invite", r)
      BY DEF AcceptRead
    <2> HIDE DEF r
    <2>3. sent' \in 0 .. MaxRequests /\ req' = [req EXCEPT ![w] = r]
      BY <1>0, <2>2, SentTyped
    <2> QED BY <1>0, <1>12, <2>1, <2>3, <2>4, OnlyTheRequest DEF AcceptRead
  <1>13. CASE \/ \E type \in ClockType : Clock(w, type)
             \/ \E type \in ClockType, at \in Backdated : ClockBack(w, type, at)
    <2>0. PICK type \in ClockType, at \in Time : ClockRead(w, type, at) /\ now' \in Time
      BY <1>0, <1>13, StampTyped, StaffAssumption DEF Clock, ClockBack
    <2> DEFINE r == [pc |-> "clock", event |-> [type |-> type, at |-> at]]
    <2>1. r \in Request /\ Stands(r, DOMAIN tokens, DOMAIN links, DOMAIN invites)
      BY RequestsAreMade DEF Event
    <2>2. Arrive(w, "clock", r)
      BY <2>0 DEF ClockRead
    <2> HIDE DEF r
    <2>3. sent' \in 0 .. MaxRequests /\ req' = [req EXCEPT ![w] = r]
      BY <1>0, <2>2, SentTyped
    <2> QED BY <1>0, <2>0, <2>1, <2>3, OnlyTheRequest DEF ClockRead
  <1> QED BY <1>1, <1>2, <1>3, <1>4, <1>5, <1>6, <1>7, <1>8, <1>9, <1>10, <1>11, <1>12, <1>13

\* The second of a stamp is not after it (the iat of an access token).
LEMMA SecondBelow ==
  ASSUME NEW t \in Time
  PROVE  Second(t) \in Time /\ Second(t) <= t
  <1> DEFINE n == t \div SecondLength
  <1>1. t \in Nat /\ t <= MaxTime /\ SecondLength \in Nat \ {0} /\ MaxTime \in Nat
    BY SessionsAssumption DEF Time
  <1>2. n \in Nat /\ n * SecondLength <= t
    BY <1>1
  <1>3. n * SecondLength \in Nat
    BY <1>1, <1>2
  <1> QED BY <1>1, <1>2, <1>3 DEF Second, Time

\* Requests that write to a table of the sessions.
LEMMA TableSteps ==
  ASSUME Typed, UNCHANGED staff, NEW w \in Worker,
         \/ Insert(w) \/ Refuse(w) \/ Claim(w) \/ Retire(w) \/ Everywhere(w) \/ Notify(w)
         \/ \E i \in DOMAIN tokens : Logout(w, i)
         \/ \E kind \in LinkKind : RequestLink(w, kind)
         \/ CreateLink(w) \/ Redeem(w) \/ Join(w)
  PROVE  Typed'
  <1> USE DEF Stands, OnToken, OnInvite, Idle
  <1>0. /\ req[w] \in Request /\ req \in [Worker -> Request]
        /\ account \in BOOLEAN /\ member \in {"NONE", "ACTIVE", "INACTIVE"}
        /\ validFrom \in Time \cup {None} /\ now \in Time /\ sent \in 0 .. MaxRequests
        /\ tokens \in Seq(Token) /\ links \in Seq(Link) /\ invites \in Seq(Invite)
        /\ access \subseteq Access /\ sockets \subseteq Socket
        /\ regressed \in BOOLEAN /\ forked \subseteq Time /\ attendance \subseteq Event
    BY DEF Typed, TypeOK, Request
  <1>a. \A chosen : Revoked(chosen) \in Seq(Token) /\ DOMAIN Revoked(chosen) = DOMAIN tokens
    BY <1>0, RevokedRows
  <1>1. CASE Insert(w)
    <2> DEFINE t == [family |-> req[w].family, created |-> req[w].created, revoked |-> FALSE]
    <2>1. t \in Token /\ req[w].created \in Time /\ req[w].scoped \in BOOLEAN
      BY <1>0, <1>1, RequestShapes DEF Insert, Token
    <2>2. Second(req[w].created) \in Time
      BY <2>1, SecondBelow
    <2>3. access' \subseteq Access
      BY <1>0, <1>1, <2>1, <2>2 DEF Insert, Access
    <2>4. tokens' = Append(tokens, t) /\ req' = [req EXCEPT ![w] = Idle]
      BY <1>1 DEF Insert, End, Goto
    <2> HIDE DEF t
    <2>5. tokens' \in Seq(Token) /\ DOMAIN tokens \subseteq DOMAIN tokens'
      BY <1>0, <2>1, <2>4, OneMore
    <2> QED BY <1>0, <1>1, <2>3, <2>4, <2>5, RequestsAreMade, GoingOn
            DEF Insert, End, Goto, person, staff
  <1>2. CASE Refuse(w)
    <2>1. req' = [req EXCEPT ![w] = Idle] /\ tokens' \in Seq(Token) /\ DOMAIN tokens' = DOMAIN tokens
      BY <1>a, <1>2 DEF Refuse, End, Goto
    <2> QED BY <1>0, <1>2, <2>1, RequestsAreMade, GoingOn DEF Refuse, End, Goto, person, staff
  <1>3. CASE Claim(w)
    <2>1. tokens' \in Seq(Token) /\ DOMAIN tokens' = DOMAIN tokens
      BY <1>0, <1>a, <1>3 DEF Claim
    <2>2. tokens[req[w].token].family \in Time
      BY <1>3, NamedTokens DEF Claim, Token
    <2> DEFINE r == IF Claimable(req[w].token)
                    THEN [pc |-> "claims", family |-> tokens[req[w].token].family] ELSE Idle
    <2>3. r \in Request /\ Stands(r, DOMAIN tokens', DOMAIN links', DOMAIN invites')
      BY <2>2, RequestsAreMade
    <2>4. req' = [req EXCEPT ![w] = r]
      BY <1>3 DEF Claim, End, Goto
    <2> HIDE DEF r
    <2> QED BY <1>0, <1>3, <2>1, <2>3, <2>4, GoingOn DEF Claim, End, Goto, person, staff
  <1>4. CASE Retire(w)
    <2>1. tokens' \in Seq(Token) /\ DOMAIN tokens' = DOMAIN tokens
      BY <1>a, <1>4 DEF Retire
    <2>2. tokens[req[w].token].family \in Time
      BY <1>4, NamedTokens DEF Retire, Token
    <2> DEFINE r == [pc |-> "mint", family |-> tokens[req[w].token].family, scoped |-> TRUE]
    <2>3. r \in Request /\ Stands(r, DOMAIN tokens', DOMAIN links', DOMAIN invites')
      BY <2>2, RequestsAreMade
    <2>4. req' = [req EXCEPT ![w] = r]
      BY <1>4 DEF Retire, Goto
    <2>5. forked' \subseteq Time
      BY <1>0, <1>4, <2>2 DEF Retire
    <2> HIDE DEF r
    <2> QED BY <1>0, <1>4, <2>1, <2>3, <2>4, <2>5, GoingOn DEF Retire, Goto, person, staff
  <1>5. CASE Everywhere(w)
    <2>1. tokens' \in Seq(Token) /\ DOMAIN tokens' = DOMAIN tokens
      BY <1>a, <1>5 DEF Everywhere
    <2>2. validFrom' \in Time /\ regressed' \in BOOLEAN
      BY <1>0, <1>5, RequestShapes DEF Everywhere
    <2>3. req' = [req EXCEPT ![w] = [pc |-> "notify"]]
      BY <1>5 DEF Everywhere, Goto
    <2> QED BY <1>0, <1>5, <2>1, <2>2, <2>3, RequestsAreMade, GoingOn
            DEF Everywhere, Goto, person, staff
  <1>6. CASE Notify(w)
    <2> DEFINE raced(v) == [req[v] EXCEPT !.raced = TRUE]
    <2>1. ASSUME NEW v \in Worker PROVE req'[v] \in Request
      <3>1. CASE v = w
        BY <1>6, <3>1, RequestsAreMade DEF Notify
      <3>2. CASE v # w /\ req[v].pc = "join"
        <4>1. req'[v] = [req[v] EXCEPT !.raced = TRUE]
          BY <1>6, <3>2 DEF Notify
        <4>2. req[v] \in [pc : {"join"}, iat : Time, raced : BOOLEAN]
          BY <1>0, <3>2, RequestShapes
        <4> QED BY <4>1, <4>2 DEF Request, SessionRequest
      <3>3. CASE v # w /\ req[v].pc # "join"
        BY <1>0, <1>6, <3>3 DEF Notify
      <3> QED BY <3>1, <3>2, <3>3
    <2>2. DOMAIN req' = Worker /\ req' = [v \in Worker |-> req'[v]]
      BY <1>6 DEF Notify
    <2>3. req' \in [Worker -> Request]
      BY <2>1, <2>2
    <2>4. ASSUME NEW v \in Worker
          PROVE  Stands(req'[v], DOMAIN tokens, DOMAIN links, DOMAIN invites)
      <3>1. Stands(req[v], DOMAIN tokens, DOMAIN links, DOMAIN invites)
        BY DEF Typed, RequestsStandOnRows
      <3>2. CASE v = w
        BY <1>6, <3>2 DEF Notify
      <3>3. CASE v # w /\ req[v].pc = "join"
        <4>1. req'[v] = [req[v] EXCEPT !.raced = TRUE]
          BY <1>6, <3>3 DEF Notify
        <4>2. req[v] \in [pc : {"join"}, iat : Time, raced : BOOLEAN]
          BY <1>0, <3>3, RequestShapes
        <4> QED BY <4>1, <4>2
      <3>4. CASE v # w /\ req[v].pc # "join"
        BY <1>6, <3>1, <3>4 DEF Notify
      <3> QED BY <3>2, <3>3, <3>4
    <2>5. RequestsStandOnRows'
      BY <1>6, <2>4 DEF Notify, RequestsStandOnRows, session, staff
    <2>6. TypeOK'
      BY <1>0, <1>6, <2>3 DEF Notify, TypeOK, person, session, staff, Request
    <2> QED BY <2>5, <2>6 DEF Typed
  <1>7. CASE \E i \in DOMAIN tokens : Logout(w, i)
    <2> PICK i \in DOMAIN tokens : Logout(w, i)
      BY <1>7
    <2>1. tokens' \in Seq(Token) /\ DOMAIN tokens' = DOMAIN tokens
      BY <1>a DEF Logout
    <2>2. Arrive(w, "logout", Idle)
      BY DEF Logout
    <2>3. sent' \in 0 .. MaxRequests /\ req' = [req EXCEPT ![w] = Idle]
      BY <1>0, <2>2, SentTyped
    <2> QED BY <1>0, <2>1, <2>3, RequestsAreMade, GoingOn DEF Logout, person, staff
  <1>8. CASE \E kind \in LinkKind : RequestLink(w, kind)
    <2> PICK kind \in LinkKind : RequestLink(w, kind)
      BY <1>8
    <2> DEFINE r == [pc |-> "link", kind |-> kind]
    <2>1. r \in Request /\ Stands(r, DOMAIN tokens, DOMAIN links, DOMAIN invites)
      BY RequestsAreMade
    <2>2. Arrive(w, kind, r)
      BY DEF RequestLink
    <2>3. \A i \in DOMAIN links : links[i] \in Link
      BY <1>0, Rows
    <2>4. links' \in [DOMAIN links -> Link]
      BY <2>3 DEF RequestLink, Link
    <2>5. links' \in Seq(Link) /\ DOMAIN links' = DOMAIN links
      BY <1>0, <2>4, SameLength
    <2> HIDE DEF r
    <2>6. sent' \in 0 .. MaxRequests /\ req' = [req EXCEPT ![w] = r]
      BY <1>0, <2>2, SentTyped
    <2>7. UNCHANGED <<person, session, sockets, now, staff>>
      BY DEF RequestLink
    <2>8. Stands(r, DOMAIN tokens', DOMAIN links', DOMAIN invites')
      BY <2>1, <2>5, <2>7 DEF session, staff
    <2> QED BY <1>0, <2>1, <2>5, <2>6, <2>7, <2>8, GoingOn DEF person, session, staff
  <1>9. CASE CreateLink(w)
    <2> DEFINE l == [kind |-> req[w].kind, used |-> FALSE, effects |-> 0]
    <2>1. l \in Link
      BY <1>0, <1>9, RequestShapes DEF CreateLink, Link
    <2>2. links' = Append(links, l) /\ req' = [req EXCEPT ![w] = Idle]
      BY <1>9 DEF CreateLink, End, Goto
    <2> HIDE DEF l
    <2>3. links' \in Seq(Link) /\ DOMAIN links \subseteq DOMAIN links'
      BY <1>0, <2>1, <2>2, OneMore
    <2> QED BY <1>0, <1>9, <2>2, <2>3, RequestsAreMade, GoingOn
            DEF CreateLink, End, Goto, person, session, staff
  <1>10. CASE Redeem(w)
    <2> DEFINE i == req[w].link
    <2>1. i \in DOMAIN links
      BY <1>10 DEF Typed, RequestsStandOnRows, Redeem
    <2>2. links[i] \in Link
      BY <1>0, <2>1, Rows
    <2>3. links' \in [DOMAIN links -> Link]
      <3>1. \A j \in DOMAIN links : links[j] \in Link
        BY <1>0, Rows
      <3>2. links = [j \in DOMAIN links |-> links[j]]
        BY <1>0, LenProperties
      <3> HIDE DEF i
      <3>3. CASE Redeemable(i)
        <4>1. links' = [links EXCEPT ![i] = [kind |-> links[i].kind, used |-> TRUE,
                                              effects |-> links[i].effects + 1]]
          BY <1>10, <3>3 DEF Redeem, i
        <4>2. [kind |-> links[i].kind, used |-> TRUE, effects |-> links[i].effects + 1] \in Link
          BY <2>2 DEF Link
        <4> QED BY <3>1, <3>2, <4>1, <4>2
      <3>4. CASE ~Redeemable(i)
        BY <1>10, <3>1, <3>2, <3>4 DEF Redeem, i
      <3> QED BY <3>3, <3>4
    <2>4. links' \in Seq(Link) /\ DOMAIN links' = DOMAIN links
      BY <1>0, <2>3, SameLength
    <2> DEFINE r == IF Redeemable(i) /\ links[i].kind = "reset" THEN [pc |-> "sweep"] ELSE Idle
    <2>5. r \in Request /\ Stands(r, DOMAIN tokens', DOMAIN links', DOMAIN invites')
      BY RequestsAreMade
    <2>6. req' = [req EXCEPT ![w] = r] /\ UNCHANGED sent
      BY <1>10 DEF Redeem, End, Goto
    <2>7. UNCHANGED <<person, session, sockets, now>>
      BY <1>10 DEF Redeem
    <2> HIDE DEF r, i
    <2> QED BY <1>0, <2>4, <2>5, <2>6, <2>7, GoingOn DEF person, session, staff
  <1>11. CASE Join(w)
    <2>1. req[w] \in [pc : {"join"}, iat : Time, raced : BOOLEAN]
      BY <1>0, <1>11, RequestShapes DEF Join
    <2>2. sockets' \subseteq Socket
      BY <1>0, <1>11, <2>1 DEF Join, Socket
    <2>3. req' = [req EXCEPT ![w] = Idle]
      BY <1>11 DEF Join, End, Goto
    <2> QED BY <1>0, <1>11, <2>2, <2>3, RequestsAreMade, GoingOn
            DEF Join, End, Goto, person, session, staff
  <1> QED BY <1>1, <1>2, <1>3, <1>4, <1>5, <1>6, <1>7, <1>8, <1>9, <1>10, <1>11

\* Steps of the invitations and the hours that write.
LEMMA StaffSteps ==
  ASSUME Typed, NEW w \in Worker, StaffStep(w)
  PROVE  Typed'
  <1> USE DEF Stands, OnToken, OnInvite, Idle
  <1>0. /\ req[w] \in Request /\ req \in [Worker -> Request]
        /\ account \in BOOLEAN /\ member \in {"NONE", "ACTIVE", "INACTIVE"}
        /\ validFrom \in Time \cup {None} /\ now \in Time /\ sent \in 0 .. MaxRequests
        /\ tokens \in Seq(Token) /\ links \in Seq(Link) /\ invites \in Seq(Invite)
        /\ access \subseteq Access /\ sockets \subseteq Socket
        /\ regressed \in BOOLEAN /\ forked \subseteq Time /\ attendance \subseteq Event
    BY DEF Typed, TypeOK, Request
  <1>b. /\ invites = [j \in DOMAIN invites |-> invites[j]]
        /\ \A j \in DOMAIN invites : invites[j] \in Invite
    BY <1>0, Rows, LenProperties
  <1>1. CASE InviteWrite(w)
    <2> DEFINE x == [accepted |-> FALSE, revoked |-> FALSE, admitted |-> FALSE]
    <2>1. x \in Invite
      BY DEF Invite
    <2>2. invites' = invites \/ invites' = Append(invites, x)
      BY <1>1 DEF InviteWrite
    <2> HIDE DEF x
    <2>3. invites' \in Seq(Invite) /\ DOMAIN invites \subseteq DOMAIN invites'
      <3>1. CASE invites' = invites
        BY <1>0, <3>1
      <3>2. CASE invites' = Append(invites, x)
        BY <1>0, <2>1, <3>2, OneMore
      <3> QED BY <2>2, <3>1, <3>2
    <2>4. req' = [req EXCEPT ![w] = Idle]
      BY <1>1 DEF InviteWrite, End, Goto
    <2> QED BY <1>0, <1>1, <2>3, <2>4, RequestsAreMade, GoingOn
            DEF InviteWrite, End, Goto, person, session
  <1>2. CASE WithdrawWrite(w)
    <2> DEFINE i == req[w].invite
    <2>1. i \in DOMAIN invites
      BY <1>2 DEF Typed, RequestsStandOnRows, WithdrawWrite
    <2>2. invites' \in [DOMAIN invites -> Invite]
      BY <1>b, <1>2, <2>1 DEF WithdrawWrite, Invite
    <2>3. invites' \in Seq(Invite) /\ DOMAIN invites' = DOMAIN invites
      BY <1>0, <2>2, SameLength
    <2>4. req' = [req EXCEPT ![w] = Idle]
      BY <1>2 DEF WithdrawWrite, End, Goto
    <2> QED BY <1>0, <1>2, <2>3, <2>4, RequestsAreMade, GoingOn
            DEF WithdrawWrite, End, Goto, person, session
  <1>3. CASE AcceptWrite(w)
    <2> DEFINE i == req[w].invite
    <2>1. i \in DOMAIN invites
      BY <1>3 DEF Typed, RequestsStandOnRows, AcceptWrite
    <2>2. invites' \in [DOMAIN invites -> Invite]
      <3> HIDE DEF i
      <3>1. CASE Pending(i) /\ ~account
        <4>1. invites' = [invites EXCEPT ![i] = [accepted |-> TRUE,
                                                  revoked |-> invites[i].revoked,
                                                  admitted |-> TRUE]]
          BY <1>3, <3>1 DEF AcceptWrite, i
        <4>2. [accepted |-> TRUE, revoked |-> invites[i].revoked, admitted |-> TRUE] \in Invite
          BY <1>b, <2>1 DEF Invite
        <4> QED BY <1>b, <4>1, <4>2
      <3>2. CASE ~(Pending(i) /\ ~account)
        BY <1>b, <1>3, <3>2 DEF AcceptWrite, i
      <3> QED BY <3>1, <3>2
    <2>3. invites' \in Seq(Invite) /\ DOMAIN invites' = DOMAIN invites
      BY <1>0, <2>2, SameLength
    <2> DEFINE r == IF Pending(i) /\ ~account
                    THEN [pc |-> "mint", family |-> None, scoped |-> TRUE] ELSE Idle
    <2>4. r \in Request /\ Stands(r, DOMAIN tokens', DOMAIN links', DOMAIN invites')
      BY RequestsAreMade
    <2>5. req' = [req EXCEPT ![w] = r] /\ UNCHANGED sent
      BY <1>3 DEF AcceptWrite, End, Goto
    <2>6. account' \in BOOLEAN /\ member' \in {"NONE", "ACTIVE", "INACTIVE"}
      BY <1>0, <1>3 DEF AcceptWrite, person
    <2>7. UNCHANGED <<session, sockets, links, now, attendance>>
      BY <1>3 DEF AcceptWrite
    <2> HIDE DEF r, i
    <2> QED BY <1>0, <2>3, <2>4, <2>5, <2>6, <2>7, GoingOn DEF session
  <1>4. CASE ClockWrite(w)
    <2>1. attendance' \subseteq Event
      BY <1>0, <1>4, RequestShapes DEF ClockWrite
    <2>2. req' = [req EXCEPT ![w] = Idle]
      BY <1>4 DEF ClockWrite, End, Goto
    <2> QED BY <1>0, <1>4, <2>1, <2>2, RequestsAreMade, GoingOn
            DEF ClockWrite, End, Goto, person, session
  <1> QED BY <1>1, <1>2, <1>3, <1>4 DEF StaffStep

\* The process dies, or a socket closes.
LEMMA FailureSteps ==
  ASSUME Typed, UNCHANGED staff, Crash \/ \E s \in sockets : Disconnect(s)
  PROVE  Typed'
  <1>1. CASE Crash
    <2>1. req' \in [Worker -> Request] /\ \A w \in Worker : req'[w] = Idle
      BY <1>1, RequestsAreMade DEF Crash
    <2>2. TypeOK'
      BY <1>1, <2>1 DEF Crash, Typed, TypeOK, person, session, staff, Request
    <2>3. RequestsStandOnRows'
      BY <2>1 DEF RequestsStandOnRows, Stands, Idle, OnToken, OnInvite
    <2> QED BY <2>2, <2>3 DEF Typed
  <1>2. CASE \E s \in sockets : Disconnect(s)
    BY <1>2 DEF Disconnect, Typed, TypeOK, RequestsStandOnRows, person, session, staff
  <1> QED BY <1>1, <1>2

\* Every step keeps the types, and the rows that requests name.
LEMMA TypedStep == Typed /\ [Next]_vars => Typed'
  <1> SUFFICES ASSUME Typed, [Next]_vars PROVE Typed'
    OBVIOUS
  <1>1. CASE UNCHANGED vars
    BY <1>1 DEF vars, sessionVars, Typed, TypeOK, RequestsStandOnRows
  <1>2. CASE SessionNext /\ UNCHANGED staff
    <2>1. ASSUME NEW w \in Worker, SessionStep(w) PROVE Typed'
      BY <1>2, <2>1, OnlyRequestSteps, TableSteps DEF SessionStep
    <2>2. ASSUME NEW w \in Worker, SessionArrival(w) PROVE Typed'
      BY <1>2, <2>2, ArrivalsTyped, TableSteps DEF SessionArrival
    <2> QED BY <1>2, <2>1, <2>2, FailureSteps DEF SessionNext
  <1>3. ASSUME NEW w \in Worker, StaffStep(w) \/ StaffArrival(w) PROVE Typed'
    BY <1>3, StaffSteps, ArrivalsTyped DEF StaffArrival
  <1> QED BY <1>1, <1>2, <1>3 DEF Next

\* Every table and every request of the accounts keeps its type.
THEOREM Typing == Spec => []TypeOK
  <1>1. Typed => TypeOK
    BY DEF Typed
  <1> QED BY <1>1, TypedInit, TypedStep, PTL DEF Spec

-----------------------------------------------------------------------------
(***************************************************************************)
(* Families                                                                *)
(***************************************************************************)

HasRow(rows, f) == \E j \in DOMAIN rows : rows[j].family = f

\* A family is known by the stamp of its first token.  Every family has that
\* token in the table, and so has the family of every renewal on its way,
\* unless that renewal is the family's first.
Roots ==
  /\ \A i \in DOMAIN tokens :
       /\ tokens[i].family <= tokens[i].created /\ tokens[i].created <= now
       /\ \E j \in DOMAIN tokens : /\ tokens[j].family = tokens[i].family
                                   /\ tokens[j].created = tokens[i].family
  /\ \A w \in Worker :
       req[w].pc = "insert" =>
         /\ req[w].family <= req[w].created /\ req[w].created <= now
         /\ req[w].family = req[w].created \/ HasRow(tokens, req[w].family)
  /\ \A w \in Worker :
       req[w].pc \in {"claims", "mint"} /\ req[w].family # None => HasRow(tokens, req[w].family)

\* No sign-out has been overtaken: what a refresh has seen of the epoch is
\* still so, and what passed the check began after it.
Epochs ==
  ~regressed =>
    \A w \in Worker :
      req[w].pc \in {"epoch", "claim"} /\ req[w].since # None =>
        /\ validFrom # None /\ req[w].since <= validFrom
        /\ req[w].pc = "claim" => req[w].since <= tokens[req[w].token].family

\* The sockets on their way in, too, are fresh, raced, or about to be dropped.
Joining ==
  \A w \in Worker :
    req[w].pc = "join" /\ ~req[w].raced /\ validFrom # None /\ req[w].iat < validFrom =>
      \E v \in Worker : req[v].pc = "notify"

\* What a step leaves alone that concerns neither a family nor a socket.
Aside(w) ==
  /\ now <= now' /\ UNCHANGED <<validFrom, tokens, forked, regressed, sockets>>
  /\ req[w].pc # "notify"
  /\ \A v \in Worker \ {w} : req'[v] = req[v]
  /\ req'[w].pc \notin {"insert", "epoch", "claim", "join"}
  /\ req'[w].pc \in {"claims", "mint"} =>
       \/ req'[w].family = None
       \/ req[w].pc = "claims" /\ req'[w].family = req[w].family

\* The clock does not run backwards.
LEMMA Later == ASSUME now \in Time, Stamp PROVE now' = now + 1 /\ now <= now'
  BY SessionsAssumption DEF Stamp, Time

\* What a request goes on with is what its worker is in the middle of.
LEMMA GoneTo ==
  ASSUME req \in [Worker -> Request], NEW w \in Worker, NEW r, Goto(w, r)
  PROVE  req'[w] = r /\ \A v \in Worker \ {w} : req'[v] = req[v]
  BY DEF Goto

\* So is what it arrives with, at a worker that had nothing to do.
LEMMA Arrived ==
  ASSUME req \in [Worker -> Request], NEW w \in Worker, NEW kind, NEW r, Arrive(w, kind, r)
  PROVE  req[w].pc = "idle" /\ req'[w] = r /\ \A v \in Worker \ {w} : req'[v] = req[v]
  BY DEF Arrive, Idle

\* Requests that go on, aside from families and sockets.
LEMMA StepsAside ==
  ASSUME Typed, NEW w \in Worker,
         \/ Abort(w) \/ Claims(w) \/ SelectMember(w) \/ Reissue(w) \/ Sweep(w)
         \/ CreateLink(w) \/ Redeem(w)
         \/ InviteWrite(w) \/ WithdrawWrite(w) \/ AcceptWrite(w) \/ ClockWrite(w)
  PROVE  Aside(w)
  <1> USE DEF Aside, session, End
  <1>0. req \in [Worker -> Request] /\ now \in Time /\ now <= now
    BY SessionsAssumption DEF Typed, TypeOK, Request, Time
  <1>1. CASE Abort(w)
    BY <1>0, <1>1, GoneTo DEF Abort, Idle
  <1>2. CASE Claims(w)
    BY <1>0, <1>2, GoneTo DEF Claims, Idle
  <1>3. CASE SelectMember(w)
    BY <1>0, <1>3, GoneTo DEF SelectMember, Idle
  <1>4. CASE Reissue(w)
    BY <1>0, <1>4, GoneTo DEF Reissue, Idle
  <1>5. CASE Sweep(w)
    BY <1>0, <1>5, GoneTo, Later DEF Sweep, Idle
  <1>6. CASE CreateLink(w)
    BY <1>0, <1>6, GoneTo DEF CreateLink, Idle
  <1>7. CASE Redeem(w)
    BY <1>0, <1>7, GoneTo DEF Redeem, Idle
  <1>8. CASE InviteWrite(w)
    BY <1>0, <1>8, GoneTo DEF InviteWrite, Idle
  <1>9. CASE WithdrawWrite(w)
    BY <1>0, <1>9, GoneTo DEF WithdrawWrite, Idle
  <1>10. CASE AcceptWrite(w)
    BY <1>0, <1>10, GoneTo DEF AcceptWrite, Idle
  <1>11. CASE ClockWrite(w)
    BY <1>0, <1>11, GoneTo DEF ClockWrite, Idle
  <1> QED BY <1>1, <1>2, <1>3, <1>4, <1>5, <1>6, <1>7, <1>8, <1>9, <1>10, <1>11

\* Requests that come in, aside from families and sockets.
LEMMA ArrivalsAside ==
  ASSUME Typed, NEW w \in Worker,
         \/ Register(w) \/ Login(w) \/ LogoutAll(w)
         \/ \E a \in access, i \in {0} \cup DOMAIN tokens : Select(w, a, i)
         \/ \E kind \in LinkKind : RequestLink(w, kind)
         \/ \E i \in DOMAIN links : UseLink(w, i)
         \/ StaffArrival(w)
  PROVE  Aside(w)
  <1> USE DEF Aside, session
  <1>0. req \in [Worker -> Request] /\ now \in Time /\ now <= now
    BY SessionsAssumption DEF Typed, TypeOK, Request, Time
  <1>1. CASE Register(w)
    BY <1>0, <1>1, Arrived DEF Register, Idle
  <1>2. CASE Login(w)
    BY <1>0, <1>2, Arrived DEF Login, Idle
  <1>3. CASE LogoutAll(w)
    BY <1>0, <1>3, Arrived DEF LogoutAll, Idle
  <1>4. CASE \E a \in access, i \in {0} \cup DOMAIN tokens : Select(w, a, i)
    BY <1>0, <1>4, Arrived DEF Select, Idle
  <1>5. CASE \E kind \in LinkKind : RequestLink(w, kind)
    BY <1>0, <1>5, Arrived DEF RequestLink, Idle
  <1>6. CASE \E i \in DOMAIN links : UseLink(w, i)
    BY <1>0, <1>6, Arrived DEF UseLink, Idle
  <1>7. CASE InviteRead(w)
    BY <1>0, <1>7, Arrived DEF InviteRead, Idle
  <1>8. CASE \E i \in DOMAIN invites : WithdrawRead(w, i)
    BY <1>0, <1>8, Arrived DEF WithdrawRead, Idle
  <1>9. CASE \E i \in DOMAIN invites : AcceptRead(w, i)
    BY <1>0, <1>9, Arrived DEF AcceptRead, Idle
  <1>10. CASE Deactivate(w)
    BY <1>0, <1>10, Arrived DEF Deactivate, Idle
  <1>11. CASE Reactivate(w)
    BY <1>0, <1>11, Arrived DEF Reactivate, Idle
  <1>12. CASE \E type \in ClockType : Clock(w, type)
    BY <1>0, <1>12, Arrived, Later DEF Clock, ClockRead, Idle
  <1>13. CASE \E type \in ClockType, at \in Backdated : ClockBack(w, type, at)
    BY <1>0, <1>13, Arrived DEF ClockBack, ClockRead, Idle
  <1> QED BY <1>1, <1>2, <1>3, <1>4, <1>5, <1>6, <1>7, <1>8, <1>9, <1>10, <1>11, <1>12, <1>13 DEF StaffArrival

\* Every step is aside, or one of those that are not.
LEMMA Steps ==
  ASSUME Typed, [Next]_vars
  PROVE  \/ UNCHANGED vars
         \/ Crash \/ \E s \in sockets : Disconnect(s)
         \/ \E w \in Worker :
              \/ Aside(w)
              \/ Mint(w) \/ Insert(w)
              \/ Epoch(w) \/ Refuse(w) \/ Claim(w) \/ Retire(w)
              \/ Everywhere(w) \/ Notify(w) \/ Join(w)
              \/ \E i \in DOMAIN tokens : Refresh(w, i) \/ Logout(w, i)
              \/ \E a \in access : Connect(w, a)
  <1>1. ASSUME NEW w \in Worker, SessionStep(w)
        PROVE  \/ Aside(w) \/ Mint(w) \/ Insert(w)
               \/ Epoch(w) \/ Refuse(w) \/ Claim(w) \/ Retire(w)
               \/ Everywhere(w) \/ Notify(w) \/ Join(w)
    BY <1>1, StepsAside DEF SessionStep
  <1>2. ASSUME NEW w \in Worker, SessionArrival(w)
        PROVE  \/ Aside(w) \/ \E i \in DOMAIN tokens : Refresh(w, i) \/ Logout(w, i)
               \/ \E a \in access : Connect(w, a)
    BY <1>2, ArrivalsAside DEF SessionArrival
  <1>3. ASSUME NEW w \in Worker, StaffStep(w) \/ StaffArrival(w) PROVE Aside(w)
    BY <1>3, StepsAside, ArrivalsAside DEF StaffStep
  <1> QED BY <1>1, <1>2, <1>3 DEF Next, SessionNext

\* The rows of the refresh tokens only get revoked, at most.
Kept ==
  /\ DOMAIN tokens' = DOMAIN tokens
  /\ \A i \in DOMAIN tokens :
       /\ tokens'[i].family = tokens[i].family /\ tokens'[i].created = tokens[i].created
       /\ tokens[i].revoked => tokens'[i].revoked

\* Revoking tokens changes nothing about them but that they are revoked.
LEMMA RevokingKeeps ==
  ASSUME Typed, UNCHANGED tokens \/ \E chosen : tokens' = Revoked(chosen)
  PROVE  Kept
  <1>1. CASE UNCHANGED tokens
    BY <1>1 DEF Kept
  <1>2. CASE \E chosen : tokens' = Revoked(chosen)
    <2> PICK chosen : tokens' = Revoked(chosen)
      BY <1>2
    <2>1. tokens \in Seq(Token)
      BY DEF Typed, TypeOK
    <2> QED BY <2>1, RevokedRows DEF Kept
  <1> QED BY <1>1, <1>2

\* No new row, and no renewal of a family that has none.
LEMMA RootsStay ==
  ASSUME Typed, Typed', Roots, Kept, now <= now',
         \A v \in Worker :
           /\ req'[v].pc = "insert" => req'[v] = req[v]
           /\ req'[v].pc \in {"claims", "mint"} /\ req'[v].family # None =>
                HasRow(tokens, req'[v].family)
  PROVE  Roots'
  <1>0. /\ now \in Nat /\ now' \in Nat
        /\ \A i \in DOMAIN tokens : tokens[i] \in Token
        /\ req \in [Worker -> Request]
    BY Rows, SessionsAssumption DEF Typed, TypeOK, Time, Request
  <1>1. \A f : HasRow(tokens, f) => HasRow(tokens', f)
    BY DEF HasRow, Kept
  <1>2. \A i \in DOMAIN tokens' :
          /\ tokens'[i].family <= tokens'[i].created /\ tokens'[i].created <= now'
          /\ \E j \in DOMAIN tokens' : /\ tokens'[j].family = tokens'[i].family
                                       /\ tokens'[j].created = tokens'[i].family
    BY <1>0, SessionsAssumption DEF Roots, Kept, Token, Time
  <1>3. ASSUME NEW w \in Worker, req'[w].pc = "insert"
        PROVE  /\ req'[w].family <= req'[w].created /\ req'[w].created <= now'
               /\ req'[w].family = req'[w].created \/ HasRow(tokens', req'[w].family)
    <2>1. req'[w] = req[w] /\ req[w].pc = "insert"
      BY <1>3
    <2>2. req[w].created \in Nat /\ req[w].family \in Nat
      BY <1>0, <2>1, RequestShapes, SessionsAssumption DEF Time
    <2>3. HasRow(tokens, req[w].family) => HasRow(tokens', req'[w].family)
      BY <1>1, <2>1
    <2> QED BY <1>0, <2>1, <2>2, <2>3 DEF Roots
  <1>4. ASSUME NEW w \in Worker, req'[w].pc \in {"claims", "mint"}, req'[w].family # None
        PROVE  HasRow(tokens', req'[w].family)
    <2>1. HasRow(tokens, req'[w].family)
      BY <1>4
    <2> QED BY <2>1 DEF HasRow, Kept
  <1> QED BY <1>2, <1>3, <1>4 DEF Roots

\* Every session keeps its root.
LEMMA RootsStep ==
  ASSUME Typed, Typed', Roots, [Next]_vars
  PROVE  Roots'
  <1>0. /\ req \in [Worker -> Request] /\ now \in Time /\ now \in Nat /\ now <= now
        /\ tokens \in Seq(Token) /\ \A i \in DOMAIN tokens : tokens[i] \in Token
    BY Rows, SessionsAssumption DEF Typed, TypeOK, Request, Time
  <1>h. \A v \in Worker :
          req[v].pc \in {"claims", "mint"} /\ req[v].family # None => HasRow(tokens, req[v].family)
    BY DEF Roots
  <1>1. CASE UNCHANGED vars
    <2>1. Kept
      BY <1>1 DEF Kept, vars, sessionVars
    <2> QED BY <1>0, <1>1, <1>h, <2>1, RootsStay DEF vars, sessionVars
  <1>2. CASE Crash \/ \E s \in sockets : Disconnect(s)
    <2>1. Kept /\ now' = now
      BY <1>2 DEF Kept, Crash, Disconnect, session
    <2>2. \A v \in Worker : req'[v] = req[v] \/ req'[v] = Idle
      BY <1>2 DEF Crash, Disconnect
    <2> QED BY <1>0, <1>h, <2>1, <2>2, RootsStay DEF Idle
  <1>3. ASSUME NEW w \in Worker, Aside(w) PROVE Roots'
    <2>1. Kept /\ now <= now'
      BY <1>3 DEF Kept, Aside
    <2>2. ASSUME NEW v \in Worker
          PROVE  /\ req'[v].pc = "insert" => req'[v] = req[v]
                 /\ req'[v].pc \in {"claims", "mint"} /\ req'[v].family # None =>
                      HasRow(tokens, req'[v].family)
      BY <1>3, <1>h DEF Aside
    <2> QED BY <2>1, <2>2, RootsStay
  <1>4. ASSUME NEW w \in Worker,
               \/ Epoch(w) \/ Refuse(w) \/ Everywhere(w) \/ Notify(w) \/ Join(w)
               \/ \E i \in DOMAIN tokens : Refresh(w, i) \/ Logout(w, i)
               \/ \E a \in access : Connect(w, a)
        PROVE  Roots'
    <2>1. now' = now /\ (UNCHANGED tokens \/ \E chosen : tokens' = Revoked(chosen))
      BY <1>4 DEF Epoch, Refuse, Everywhere, Notify, Join, Refresh, Logout, Connect, session
    <2>2. ASSUME NEW v \in Worker
          PROVE  \/ req'[v] = req[v]
                 \/ req'[v].pc \notin {"claims", "mint", "insert"}
      <3>1. CASE Epoch(w) \/ Refuse(w) \/ Everywhere(w) \/ Join(w)
        BY <1>0, <3>1, GoneTo DEF Epoch, Refuse, Everywhere, Join, End, Idle
      <3>2. CASE Notify(w)
        <4>1. CASE v = w
          BY <3>2, <4>1 DEF Notify, Idle
        <4>2. CASE v # w /\ req[v].pc = "join"
          <5>1. req[v] \in [pc : {"join"}, iat : Time, raced : BOOLEAN]
            BY <1>0, <4>2, RequestShapes
          <5>2. req'[v] = [req[v] EXCEPT !.raced = TRUE]
            BY <3>2, <4>2 DEF Notify
          <5> QED BY <5>1, <5>2
        <4>3. CASE v # w /\ req[v].pc # "join"
          BY <3>2, <4>3 DEF Notify
        <4> QED BY <4>1, <4>2, <4>3
      <3>3. CASE \E i \in DOMAIN tokens : Refresh(w, i) \/ Logout(w, i)
        BY <1>0, <3>3, Arrived DEF Refresh, Logout, Idle
      <3>4. CASE \E a \in access : Connect(w, a)
        BY <1>0, <3>4, Arrived DEF Connect
      <3> QED BY <1>4, <3>1, <3>2, <3>3, <3>4
    <2> QED BY <1>0, <1>h, <2>1, <2>2, RevokingKeeps, RootsStay
  <1>5. ASSUME NEW w \in Worker, Claim(w) \/ Retire(w) PROVE Roots'
    <2>1. now' = now /\ (UNCHANGED tokens \/ \E chosen : tokens' = Revoked(chosen))
      BY <1>5 DEF Claim, Retire
    <2>2. req[w].token \in DOMAIN tokens
      BY <1>5, NamedTokens DEF Claim, Retire, OnToken
    <2>3. HasRow(tokens, tokens[req[w].token].family)
      BY <2>2 DEF HasRow
    <2>4. ASSUME NEW v \in Worker
          PROVE  \/ req'[v] = req[v]
                 \/ /\ req'[v].pc # "insert"
                    /\ req'[v].pc \in {"claims", "mint"} =>
                         req'[v].family = tokens[req[w].token].family
      BY <1>0, <1>5, GoneTo DEF Claim, Retire, End, Idle
    <2> QED BY <1>0, <1>h, <2>1, <2>3, <2>4, RevokingKeeps, RootsStay
  <1>6. ASSUME NEW w \in Worker, Mint(w) PROVE Roots'
    <2> DEFINE f == FamilyOf(req[w])
    <2>1. now' = now + 1 /\ now <= now' /\ tokens' = tokens
      BY <1>0, <1>6, Later DEF Mint, session
    <2>2. /\ req'[w] = [pc |-> "insert", family |-> f, created |-> now',
                        scoped |-> req[w].scoped]
          /\ \A v \in Worker \ {w} : req'[v] = req[v]
      BY <1>0, <1>6, GoneTo DEF Mint
    <2>3. f <= now' /\ (f = now' \/ HasRow(tokens, f))
      <3>1. CASE req[w].family = None
        BY <1>0, <2>1, <3>1 DEF FamilyOf
      <3>2. CASE req[w].family # None
        <4>1. HasRow(tokens, req[w].family)
          BY <1>6, <1>h, <3>2 DEF Mint
        <4>2. PICK j \in DOMAIN tokens : tokens[j].family = req[w].family
          BY <4>1 DEF HasRow
        <4>3. tokens[j].family <= tokens[j].created /\ tokens[j].created <= now
              /\ tokens[j].family \in Nat /\ tokens[j].created \in Nat
          BY <1>0, SessionsAssumption DEF Roots, Token, Time
        <4> QED BY <1>0, <2>1, <3>2, <4>1, <4>2, <4>3 DEF FamilyOf
      <3> QED BY <3>1, <3>2
    <2>4. \A i \in DOMAIN tokens' :
            /\ tokens'[i].family <= tokens'[i].created /\ tokens'[i].created <= now'
            /\ \E j \in DOMAIN tokens' : /\ tokens'[j].family = tokens'[i].family
                                         /\ tokens'[j].created = tokens'[i].family
      <3>1. \A i \in DOMAIN tokens : tokens[i].created \in Nat
        BY <1>0, SessionsAssumption DEF Token, Time
      <3>2. \A i \in DOMAIN tokens : tokens[i].created <= now => tokens[i].created <= now'
        BY <1>0, <2>1, <3>1
      <3> QED BY <2>1, <3>2 DEF Roots
    <2> HIDE DEF f
    <2>5. ASSUME NEW v \in Worker, req'[v].pc = "insert"
          PROVE  /\ req'[v].family <= req'[v].created /\ req'[v].created <= now'
                 /\ req'[v].family = req'[v].created \/ HasRow(tokens', req'[v].family)
      <3>1. CASE v = w
        BY <1>0, <2>1, <2>2, <2>3, <3>1 DEF HasRow
      <3>2. CASE v # w
        <4>1. req'[v] = req[v] /\ req[v].pc = "insert"
          BY <2>2, <2>5, <3>2
        <4>2. req[v].created \in Nat /\ req[v].family \in Nat
          BY <1>0, <4>1, RequestShapes, SessionsAssumption DEF Time
        <4> QED BY <1>0, <2>1, <4>1, <4>2 DEF Roots, HasRow
      <3> QED BY <3>1, <3>2
    <2>6. ASSUME NEW v \in Worker, req'[v].pc \in {"claims", "mint"}, req'[v].family # None
          PROVE  HasRow(tokens', req'[v].family)
      BY <1>h, <2>1, <2>2, <2>6 DEF HasRow
    <2> QED BY <2>4, <2>5, <2>6 DEF Roots
  <1>7. ASSUME NEW w \in Worker, Insert(w) PROVE Roots'
    <2> DEFINE t == [family |-> req[w].family, created |-> req[w].created, revoked |-> FALSE]
    <2>1. req[w].family \in Time /\ req[w].created \in Time
      BY <1>0, <1>7, RequestShapes DEF Insert
    <2>2. t \in Token /\ t.family = req[w].family /\ t.created = req[w].created
      BY <2>1 DEF Token
    <2>3. tokens' = Append(tokens, t) /\ now' = now
      BY <1>7 DEF Insert
    <2>4. req'[w] = Idle /\ \A v \in Worker \ {w} : req'[v] = req[v]
      BY <1>0, <1>7, GoneTo DEF Insert, End
    <2>5. /\ t.family <= t.created /\ t.created <= now
          /\ t.family = t.created \/ HasRow(tokens, t.family)
      BY <1>7, <2>2 DEF Insert, Roots
    <2> HIDE DEF t
    <2>6. /\ DOMAIN tokens' = DOMAIN tokens \cup {Len(tokens) + 1}
          /\ \A i \in DOMAIN tokens : tokens'[i] = tokens[i]
          /\ tokens'[Len(tokens) + 1] = t
      BY <1>0, <2>2, <2>3, OneMore
    <2>7. ASSUME NEW i \in DOMAIN tokens'
          PROVE  /\ tokens'[i].family <= tokens'[i].created /\ tokens'[i].created <= now'
                 /\ \E j \in DOMAIN tokens' : /\ tokens'[j].family = tokens'[i].family
                                              /\ tokens'[j].created = tokens'[i].family
      <3>1. CASE i \in DOMAIN tokens
        BY <2>3, <2>6, <3>1 DEF Roots
      <3>2. CASE i = Len(tokens) + 1 /\ t.family = t.created
        BY <2>3, <2>5, <2>6, <3>2
      <3>3. CASE i = Len(tokens) + 1 /\ HasRow(tokens, t.family)
        <4>1. PICK j \in DOMAIN tokens : tokens[j].family = t.family
          BY <3>3 DEF HasRow
        <4>2. PICK k \in DOMAIN tokens : /\ tokens[k].family = tokens[j].family
                                         /\ tokens[k].created = tokens[j].family
          BY DEF Roots
        <4> QED BY <2>3, <2>5, <2>6, <3>3, <4>1, <4>2
      <3> QED BY <2>5, <2>6, <3>1, <3>2, <3>3
    <2>8. \A f : HasRow(tokens, f) => HasRow(tokens', f)
      BY <2>6 DEF HasRow
    <2>9. ASSUME NEW v \in Worker, req'[v].pc = "insert"
          PROVE  /\ req'[v].family <= req'[v].created /\ req'[v].created <= now'
                 /\ req'[v].family = req'[v].created \/ HasRow(tokens', req'[v].family)
      <3>1. req'[v] = req[v] /\ req[v].pc = "insert"
        BY <2>4, <2>9 DEF Idle
      <3>2. HasRow(tokens, req[v].family) => HasRow(tokens', req'[v].family)
        BY <2>6, <3>1 DEF HasRow
      <3> QED BY <2>3, <3>1, <3>2 DEF Roots
    <2>10. ASSUME NEW v \in Worker, req'[v].pc \in {"claims", "mint"}, req'[v].family # None
           PROVE  HasRow(tokens', req'[v].family)
      <3>1. req'[v] = req[v]
        BY <2>4, <2>10 DEF Idle
      <3>2. HasRow(tokens, req'[v].family)
        BY <1>h, <2>10, <3>1
      <3> QED BY <2>6, <3>2 DEF HasRow
    <2> QED BY <2>7, <2>9, <2>10 DEF Roots
  <1> QED BY <1>1, <1>2, <1>3, <1>4, <1>5, <1>6, <1>7, Steps

\* What a refresh saw of the epoch stays so, until a sign-out is overtaken.
LEMMA EpochsStay ==
  ASSUME Typed, Epochs, UNCHANGED <<validFrom, regressed>>,
         \A i \in DOMAIN tokens : tokens'[i].family = tokens[i].family,
         \A v \in Worker : req'[v].pc \in {"epoch", "claim"} => req'[v] = req[v]
  PROVE  Epochs'
  <1> SUFFICES ASSUME ~regressed, NEW w \in Worker,
                      req'[w].pc \in {"epoch", "claim"}, req'[w].since # None
               PROVE  /\ validFrom # None /\ req[w].since <= validFrom
                      /\ req[w].pc = "claim" =>
                           req[w].since <= tokens'[req[w].token].family
    BY DEF Epochs
  <1>1. req'[w] = req[w]
    OBVIOUS
  <1>2. req[w].pc = "claim" => req[w].token \in DOMAIN tokens
    BY NamedTokens DEF OnToken
  <1> QED BY <1>1, <1>2 DEF Epochs

\* Every step keeps what refreshes have seen of the epoch.
LEMMA EpochsStep ==
  ASSUME Typed, Roots, Epochs, [Next]_vars
  PROVE  Epochs'
  <1>0. /\ req \in [Worker -> Request] /\ validFrom \in Time \cup {None}
        /\ tokens \in Seq(Token) /\ \A i \in DOMAIN tokens : tokens[i] \in Token
        /\ None \notin Time /\ Time \subseteq Nat
    BY Rows, SessionsAssumption DEF Typed, TypeOK, Request, Time
  <1>1. CASE UNCHANGED vars
    BY <1>1, EpochsStay DEF vars, sessionVars
  <1>2. CASE Crash \/ \E s \in sockets : Disconnect(s)
    <2>1. \A v \in Worker : req'[v] = req[v] \/ req'[v] = Idle
      BY <1>2 DEF Crash, Disconnect
    <2> QED BY <1>2, <2>1, EpochsStay DEF Crash, Disconnect, session, Idle
  <1>3. ASSUME NEW w \in Worker, Aside(w) PROVE Epochs'
    <2>1. UNCHANGED <<validFrom, tokens, regressed>>
      BY <1>3 DEF Aside
    <2>2. \A v \in Worker : req'[v].pc \in {"epoch", "claim"} => req'[v] = req[v]
      BY <1>3 DEF Aside
    <2> QED BY <2>1, <2>2, EpochsStay
  <1>4. ASSUME NEW w \in Worker,
               Mint(w) \/ Refuse(w) \/ Claim(w) \/ Retire(w) \/ Notify(w) \/ Join(w)
               \/ (\E i \in DOMAIN tokens : Logout(w, i)) \/ \E a \in access : Connect(w, a)
        PROVE  Epochs'
    <2>1. /\ UNCHANGED <<validFrom, regressed>>
          /\ UNCHANGED tokens \/ \E chosen : tokens' = Revoked(chosen)
      BY <1>4 DEF Mint, Refuse, Claim, Retire, Notify, Join, Logout, Connect, session
    <2>2. \A i \in DOMAIN tokens : tokens'[i].family = tokens[i].family
      BY <2>1, RevokingKeeps DEF Kept
    <2>3. ASSUME NEW v \in Worker
          PROVE  req'[v].pc \in {"epoch", "claim"} => req'[v] = req[v]
      <3>1. CASE Mint(w) \/ Refuse(w) \/ Claim(w) \/ Retire(w) \/ Join(w)
        BY <1>0, <3>1, GoneTo DEF Mint, Refuse, Claim, Retire, Join, End, Idle
      <3>2. CASE Notify(w)
        <4>1. CASE v = w
          BY <3>2, <4>1 DEF Notify, Idle
        <4>2. CASE v # w /\ req[v].pc = "join"
          <5>1. req[v] \in [pc : {"join"}, iat : Time, raced : BOOLEAN]
            BY <1>0, <4>2, RequestShapes
          <5>2. req'[v] = [req[v] EXCEPT !.raced = TRUE]
            BY <3>2, <4>2 DEF Notify
          <5> QED BY <5>1, <5>2
        <4>3. CASE v # w /\ req[v].pc # "join"
          BY <3>2, <4>3 DEF Notify
        <4> QED BY <4>1, <4>2, <4>3
      <3>3. CASE \E i \in DOMAIN tokens : Logout(w, i)
        BY <1>0, <3>3, Arrived DEF Logout, Idle
      <3>4. CASE \E a \in access : Connect(w, a)
        BY <1>0, <3>4, Arrived DEF Connect
      <3> QED BY <1>4, <3>1, <3>2, <3>3, <3>4
    <2> QED BY <2>1, <2>2, <2>3, EpochsStay
  <1>5. ASSUME NEW w \in Worker, Insert(w) PROVE Epochs'
    <2> DEFINE t == [family |-> req[w].family, created |-> req[w].created, revoked |-> FALSE]
    <2>1. t \in Token
      BY <1>0, <1>5, RequestShapes DEF Insert, Token
    <2>2. tokens' = Append(tokens, t) /\ UNCHANGED <<validFrom, regressed>>
      BY <1>5 DEF Insert
    <2> HIDE DEF t
    <2>3. \A i \in DOMAIN tokens : tokens'[i].family = tokens[i].family
      BY <1>0, <2>1, <2>2, OneMore
    <2>4. \A v \in Worker : req'[v].pc \in {"epoch", "claim"} => req'[v] = req[v]
      BY <1>0, <1>5, GoneTo DEF Insert, End, Idle
    <2> QED BY <2>2, <2>3, <2>4, EpochsStay
  <1>6. ASSUME NEW w \in Worker, NEW i \in DOMAIN tokens, Refresh(w, i) PROVE Epochs'
    <2>1. /\ req'[w] = IF tokens[i].revoked
                       THEN [pc |-> "refuse", family |-> tokens[i].family]
                       ELSE [pc |-> "epoch", token |-> i, since |-> validFrom]
          /\ \A v \in Worker \ {w} : req'[v] = req[v]
      BY <1>0, <1>6, Arrived DEF Refresh
    <2>2. UNCHANGED <<validFrom, regressed, tokens>>
      BY <1>6 DEF Refresh, session
    <2>3. \A v \in Worker \ {w} : req'[v].pc \in {"epoch", "claim"} => req'[v] = req[v]
      BY <2>1
    <2>4. req'[w].pc \in {"epoch", "claim"} => req'[w].pc = "epoch" /\ req'[w].since = validFrom
      BY <2>1
    <2>5. validFrom # None => validFrom <= validFrom
      BY <1>0
    <2> QED BY <2>1, <2>2, <2>4, <2>5 DEF Epochs
  <1>7. ASSUME NEW w \in Worker, Epoch(w) PROVE Epochs'
    <2> DEFINE i == req[w].token
    <2>1. /\ req'[w] = IF validFrom # None /\ Began(i, validFrom)
                       THEN [pc |-> "refuse", family |-> tokens[i].family]
                       ELSE [pc |-> "claim", token |-> i, since |-> req[w].since]
          /\ \A v \in Worker \ {w} : req'[v] = req[v]
      BY <1>0, <1>7, GoneTo DEF Epoch
    <2>2. UNCHANGED <<validFrom, regressed, tokens>>
      BY <1>7 DEF Epoch, session
    <2>3. i \in DOMAIN tokens /\ req[w].since \in Time \cup {None}
      BY <1>0, <1>7, NamedTokens, RequestShapes DEF Epoch, OnToken
    <2> HIDE DEF i
    <2>4. ASSUME ~regressed, req'[w].pc = "claim", req'[w].since # None
          PROVE  /\ validFrom # None /\ req'[w].since <= validFrom
                 /\ req'[w].since <= tokens[i].family
      <3>1. req'[w].since = req[w].since /\ ~(validFrom # None /\ Began(i, validFrom))
        BY <2>1, <2>4
      <3>2. validFrom # None /\ req[w].since <= validFrom
        BY <1>7, <2>4, <3>1 DEF Epoch, Epochs
      <3>3. PICK j \in DOMAIN tokens : /\ tokens[j].family = tokens[i].family
                                       /\ tokens[j].created = tokens[i].family
        BY <2>3 DEF Roots
      <3>4. ~(tokens[j].created < validFrom)
        BY <3>1, <3>2, <3>3 DEF Began
      <3>5. tokens[j].created \in Nat /\ validFrom \in Nat /\ req[w].since \in Nat
        BY <1>0, <2>3, <2>4, <3>1, <3>2 DEF Token
      <3> QED BY <3>1, <3>2, <3>3, <3>4, <3>5
    <2>5. req'[w].pc = "claim" => req'[w].token = i
      BY <2>1
    <2>6. req'[w].pc # "epoch"
      BY <2>1
    <2> QED BY <2>1, <2>2, <2>4, <2>5, <2>6 DEF Epochs
  <1>8. ASSUME NEW w \in Worker, Everywhere(w) PROVE Epochs'
    <2>1. /\ validFrom' = req[w].at
          /\ regressed' = (regressed \/ (validFrom # None /\ req[w].at < validFrom))
          /\ tokens' = Revoked(DOMAIN tokens)
          /\ req'[w] = [pc |-> "notify"] /\ \A v \in Worker \ {w} : req'[v] = req[v]
      BY <1>0, <1>8, GoneTo DEF Everywhere
    <2>2. \A i \in DOMAIN tokens : tokens'[i].family = tokens[i].family
      BY <2>1, RevokingKeeps DEF Kept
    <2>3. req[w].at \in Time
      BY <1>0, <1>8, RequestShapes DEF Everywhere
    <2>4. ASSUME ~regressed', NEW v \in Worker,
                 req'[v].pc \in {"epoch", "claim"}, req'[v].since # None
          PROVE  /\ validFrom' # None /\ req'[v].since <= validFrom'
                 /\ req'[v].pc = "claim" => req'[v].since <= tokens'[req'[v].token].family
      <3>1. v # w /\ req'[v] = req[v]
        BY <2>1, <2>4
      <3>2. /\ validFrom # None /\ req[v].since <= validFrom
            /\ req[v].pc = "claim" => req[v].since <= tokens[req[v].token].family
        BY <2>1, <2>4, <3>1 DEF Epochs
      <3>3. ~(req[w].at < validFrom)
        BY <2>1, <2>4, <3>2
      <3>4. req[v].since \in Nat /\ validFrom \in Nat /\ req[w].at \in Nat
        BY <1>0, <2>3, <2>4, <3>1, <3>2, RequestShapes
      <3>5. req[v].pc = "claim" => req[v].token \in DOMAIN tokens
        BY NamedTokens DEF OnToken
      <3> QED BY <1>0, <2>1, <2>2, <2>3, <3>1, <3>2, <3>3, <3>4, <3>5
    <2> QED BY <2>4 DEF Epochs
  <1> QED BY <1>1, <1>2, <1>3, <1>4, <1>5, <1>6, <1>7, <1>8, Steps

\* A refresh under an epoch renews no session that began before it: the root
\* of its family is not older (assertSessionNotRevoked).
THEOREM SigningOut == Spec => []SignedOutStaysOut
  <1> DEFINE IInv == Typed /\ Roots /\ Epochs
  <1>1. Init => IInv
    <2>1. Init => Roots /\ Epochs
      BY DEF Init, SessionInit, Roots, Epochs, Idle
    <2> QED BY <2>1, TypedInit
  <1>2. IInv /\ [Next]_vars => IInv'
    BY TypedStep, RootsStep, EpochsStep
  <1>3. IInv => SignedOutStaysOut
    <2> SUFFICES ASSUME IInv, ~regressed, NEW w \in Worker,
                        req[w].pc = "claim", req[w].since # None,
                        NEW i \in DOMAIN tokens,
                        tokens[i].family = tokens[req[w].token].family
                 PROVE  tokens[i].created >= req[w].since
      BY DEF SignedOutStaysOut
    <2>1. req[w].since <= tokens[i].family /\ tokens[i].family <= tokens[i].created
      BY DEF Epochs, Roots
    <2>2. tokens \in Seq(Token) /\ req[w] \in Request
      BY DEF Typed, TypeOK, Request
    <2>3. tokens[i] \in Token /\ req[w].since \in Time
      BY <2>2, Rows, RequestShapes
    <2>4. tokens[i].created \in Nat /\ tokens[i].family \in Nat /\ req[w].since \in Nat
      BY <2>3, SessionsAssumption DEF Token, Time
    <2> QED BY <2>1, <2>4
  <1> HIDE DEF IInv
  <1> QED BY <1>1, <1>2, <1>3, PTL DEF Spec

\* Revoking rows and dropping renewals leaves every family single.
LEMMA SingleStays ==
  ASSUME FamilyStaysSingle, forked' = forked, Kept,
         \A v \in Worker, f \in Time : Renews(v, f)' => Renews(v, f)
  PROVE  FamilyStaysSingle'
  <1>1. \A i, f : Live(i, f)' => Live(i, f)
    BY DEF Live, Kept
  <1>2. DOMAIN tokens' = DOMAIN tokens
    BY DEF Kept
  <1> QED BY <1>1, <1>2 DEF FamilyStaysSingle

\* A live token that is consumed makes room for its one renewal.
LEMMA SingleConsumed ==
  ASSUME Typed, FamilyStaysSingle, NEW w \in Worker, NEW i \in DOMAIN tokens,
         tokens' = Revoked({i}), ~tokens[i].revoked, forked' = forked,
         \A f \in Time : Renews(w, f)' => f = tokens[i].family,
         \A v \in Worker \ {w}, f \in Time : Renews(v, f)' => Renews(v, f)
  PROVE  FamilyStaysSingle'
  <1>0. tokens \in Seq(Token)
    BY DEF Typed, TypeOK
  <1>1. /\ DOMAIN tokens' = DOMAIN tokens
        /\ \A j \in DOMAIN tokens :
             /\ tokens'[j].family = tokens[j].family
             /\ tokens'[j].revoked = (tokens[j].revoked \/ j \in {i})
    BY <1>0, RevokedRows
  <1>2. \A j, f : Live(j, f)' => Live(j, f) /\ j # i
    BY <1>1 DEF Live
  <1>3. Live(i, tokens[i].family)
    BY DEF Live
  <1> SUFFICES ASSUME NEW f \in Time \ forked
               PROVE  /\ \A j, k \in DOMAIN tokens' : Live(j, f)' /\ Live(k, f)' => j = k
                      /\ \A u, v \in Worker : Renews(u, f)' /\ Renews(v, f)' => u = v
                      /\ \A j \in DOMAIN tokens', v \in Worker : ~(Live(j, f)' /\ Renews(v, f)')
    BY DEF FamilyStaysSingle
  <1>4. CASE f = tokens[i].family
    <2>1. \A j : ~Live(j, f)'
      <3>1. ASSUME NEW j, Live(j, f)' PROVE FALSE
        <4>1. Live(j, f) /\ j # i /\ Live(i, f) /\ j \in DOMAIN tokens
          BY <1>2, <1>3, <1>4, <3>1 DEF Live
        <4> QED BY <4>1 DEF FamilyStaysSingle
      <3> QED BY <3>1
    <2>2. \A v \in Worker \ {w} : ~Renews(v, f)'
      BY <1>3, <1>4 DEF FamilyStaysSingle
    <2> QED BY <2>1, <2>2
  <1>5. CASE f # tokens[i].family
    <2>1. \A v \in Worker : Renews(v, f)' => Renews(v, f)
      BY <1>5
    <2> QED BY <1>1, <1>2, <2>1 DEF FamilyStaysSingle
  <1> QED BY <1>4, <1>5

\* Every step leaves a session one live token, or one on its way, at most.
LEMMA SingleStep ==
  ASSUME Typed, Typed', Roots, FamilyStaysSingle, [Next]_vars
  PROVE  FamilyStaysSingle'
  <1>0. /\ req \in [Worker -> Request] /\ now \in Time
        /\ tokens \in Seq(Token) /\ \A i \in DOMAIN tokens : tokens[i] \in Token
        /\ None \notin Time /\ Time \subseteq Nat
    BY Rows, SessionsAssumption DEF Typed, TypeOK, Request, Time
  <1>1. CASE UNCHANGED vars
    <2>1. Kept
      BY <1>1 DEF Kept, vars, sessionVars
    <2> QED BY <1>1, <2>1, SingleStays DEF Renews, vars, sessionVars
  <1>2. CASE Crash \/ \E s \in sockets : Disconnect(s)
    <2>1. Kept /\ forked' = forked
      BY <1>2 DEF Kept, Crash, Disconnect, session
    <2>2. \A v \in Worker : req'[v] = req[v] \/ req'[v] = Idle
      BY <1>2 DEF Crash, Disconnect
    <2> QED BY <2>1, <2>2, SingleStays DEF Renews, Idle
  <1>3. ASSUME NEW w \in Worker, Aside(w) PROVE FamilyStaysSingle'
    <2>1. Kept /\ forked' = forked
      BY <1>3 DEF Kept, Aside
    <2>2. \A v \in Worker, f \in Time : Renews(v, f)' => Renews(v, f)
      BY <1>0, <1>3 DEF Aside, Renews
    <2> QED BY <2>1, <2>2, SingleStays
  <1>4. ASSUME NEW w \in Worker,
               \/ Epoch(w) \/ Refuse(w) \/ Everywhere(w) \/ Notify(w) \/ Join(w)
               \/ \E i \in DOMAIN tokens : Refresh(w, i) \/ Logout(w, i)
               \/ \E a \in access : Connect(w, a)
        PROVE  FamilyStaysSingle'
    <2>1. forked' = forked /\ (UNCHANGED tokens \/ \E chosen : tokens' = Revoked(chosen))
      BY <1>4 DEF Epoch, Refuse, Everywhere, Notify, Join, Refresh, Logout, Connect, session
    <2>2. ASSUME NEW v \in Worker
          PROVE  \/ req'[v] = req[v]
                 \/ req'[v].pc \notin {"claims", "mint", "insert"}
      <3>1. CASE Epoch(w) \/ Refuse(w) \/ Everywhere(w) \/ Join(w)
        BY <1>0, <3>1, GoneTo DEF Epoch, Refuse, Everywhere, Join, End, Idle
      <3>2. CASE Notify(w)
        <4>1. CASE v = w
          BY <3>2, <4>1 DEF Notify, Idle
        <4>2. CASE v # w /\ req[v].pc = "join"
          <5>1. req[v] \in [pc : {"join"}, iat : Time, raced : BOOLEAN]
            BY <1>0, <4>2, RequestShapes
          <5>2. req'[v] = [req[v] EXCEPT !.raced = TRUE]
            BY <3>2, <4>2 DEF Notify
          <5> QED BY <5>1, <5>2
        <4>3. CASE v # w /\ req[v].pc # "join"
          BY <3>2, <4>3 DEF Notify
        <4> QED BY <4>1, <4>2, <4>3
      <3>3. CASE \E i \in DOMAIN tokens : Refresh(w, i) \/ Logout(w, i)
        BY <1>0, <3>3, Arrived DEF Refresh, Logout, Idle
      <3>4. CASE \E a \in access : Connect(w, a)
        BY <1>0, <3>4, Arrived DEF Connect
      <3> QED BY <1>4, <3>1, <3>2, <3>3, <3>4
    <2>3. \A v \in Worker, f \in Time : Renews(v, f)' => Renews(v, f)
      BY <2>2 DEF Renews
    <2> QED BY <2>1, <2>3, RevokingKeeps, SingleStays
  <1>5. ASSUME NEW w \in Worker, Claim(w) PROVE FamilyStaysSingle'
    <2> DEFINE i == req[w].token
    <2>0. i \in DOMAIN tokens
      BY <1>5, NamedTokens DEF Claim, OnToken
    <2>1. CASE tokens[i].revoked
      <3>1. /\ UNCHANGED tokens /\ forked' = forked
            /\ req'[w] = Idle /\ \A v \in Worker \ {w} : req'[v] = req[v]
        BY <1>0, <1>5, <2>1, GoneTo DEF Claim, Claimable, End
      <3>2. \A v \in Worker, f \in Time : Renews(v, f)' => Renews(v, f)
        BY <3>1 DEF Renews, Idle
      <3> QED BY <3>1, <3>2, RevokingKeeps, SingleStays
    <2>2. CASE ~tokens[i].revoked
      <3>1. /\ tokens' = Revoked({i}) /\ forked' = forked
            /\ req'[w] = [pc |-> "claims", family |-> tokens[i].family]
            /\ \A v \in Worker \ {w} : req'[v] = req[v]
        BY <1>0, <1>5, <2>2, GoneTo DEF Claim, Claimable
      <3> HIDE DEF i
      <3>2. /\ \A f \in Time : Renews(w, f)' => f = tokens[i].family
            /\ \A v \in Worker \ {w}, f \in Time : Renews(v, f)' => Renews(v, f)
        BY <3>1 DEF Renews
      <3> QED BY <2>0, <2>2, <3>1, <3>2, SingleConsumed
    <2> QED BY <2>1, <2>2
  <1>6. ASSUME NEW w \in Worker, Retire(w) PROVE FamilyStaysSingle'
    <2> DEFINE i == req[w].token
    <2>0. i \in DOMAIN tokens
      BY <1>6, NamedTokens DEF Retire, OnToken
    <2>1. /\ tokens' = Revoked({i})
          /\ forked' = IF tokens[i].revoked THEN forked \cup {tokens[i].family} ELSE forked
          /\ req'[w] = [pc |-> "mint", family |-> tokens[i].family, scoped |-> TRUE]
          /\ \A v \in Worker \ {w} : req'[v] = req[v]
      BY <1>0, <1>6, GoneTo DEF Retire
    <2> HIDE DEF i
    <2>2. /\ \A f \in Time : Renews(w, f)' => f = tokens[i].family
          /\ \A v \in Worker \ {w}, f \in Time : Renews(v, f)' => Renews(v, f)
      BY <2>1 DEF Renews
    <2>3. CASE ~tokens[i].revoked
      BY <2>0, <2>1, <2>2, <2>3, SingleConsumed
    <2>4. CASE tokens[i].revoked
      <3>1. Kept
        BY <2>1, RevokingKeeps
      <3>2. \A j, f : Live(j, f)' => Live(j, f)
        BY <3>1 DEF Live, Kept
      <3>3. \A f \in Time \ forked', v \in Worker : Renews(v, f)' => Renews(v, f)
        BY <2>1, <2>2, <2>4
      <3> QED BY <2>1, <2>4, <3>1, <3>2, <3>3 DEF FamilyStaysSingle, Kept
    <2> QED BY <2>3, <2>4
  <1>7. ASSUME NEW w \in Worker, Mint(w) PROVE FamilyStaysSingle'
    <2> DEFINE g == FamilyOf(req[w])
    <2>1. now' = now + 1 /\ tokens' = tokens /\ forked' = forked
      BY <1>0, <1>7, Later DEF Mint, session
    <2>2. /\ req'[w] = [pc |-> "insert", family |-> g, created |-> now',
                        scoped |-> req[w].scoped]
          /\ \A v \in Worker \ {w} : req'[v] = req[v]
      BY <1>0, <1>7, GoneTo DEF Mint
    <2>3. CASE req[w].family # None
      <3>1. \A v \in Worker, f \in Time : Renews(v, f)' => Renews(v, f)
        BY <1>7, <2>2, <2>3 DEF Mint, Renews, FamilyOf
      <3> QED BY <2>1, <3>1, RevokingKeeps, SingleStays
    <2>4. CASE req[w].family = None
      <3> PICK n \in Time : n = now'
        BY DEF Typed, TypeOK
      <3>1. g = n
        BY <2>4 DEF FamilyOf
      <3> HIDE DEF g
      <3>2. \A i \in DOMAIN tokens : tokens[i].family <= now
        <4>1. \A i \in DOMAIN tokens : tokens[i].family \in Nat /\ tokens[i].created \in Nat
          BY <1>0 DEF Token
        <4> QED BY <1>0, <4>1 DEF Roots
      <3>3. ASSUME NEW v \in Worker \ {w} PROVE ~Renews(v, n)'
        <4> SUFFICES ASSUME req[v].pc \in {"claims", "mint", "insert"},
                            req[v].family = n
                     PROVE  FALSE
          BY <2>2 DEF Renews
        <4>1. CASE req[v].pc = "insert"
          <5>1. req[v].family \in Nat /\ req[v].created \in Nat
            BY <1>0, <4>1, RequestShapes
          <5> QED BY <1>0, <2>1, <4>1, <5>1 DEF Roots
        <4>2. CASE req[v].pc \in {"claims", "mint"}
          <5>1. req[v].family # None
            BY <1>0, <2>1, SessionsAssumption
          <5>2. PICK i \in DOMAIN tokens : tokens[i].family = req[v].family
            BY <4>2, <5>1 DEF Roots, HasRow
          <5>3. tokens[i].family = now + 1 /\ tokens[i].family <= now
            BY <2>1, <3>2, <5>2
          <5> QED BY <1>0, <5>3
        <4> QED BY <4>1, <4>2
      <3>4. \A i : ~Live(i, n)'
        BY <1>0, <2>1, <3>2 DEF Live
      <3>5. /\ \A f \in Time : Renews(w, f)' => f = n
            /\ \A v \in Worker \ {w}, f \in Time : Renews(v, f)' => Renews(v, f)
        BY <2>2, <3>1 DEF Renews
      <3>6. \A i, f : Live(i, f)' <=> Live(i, f)
        BY <2>1 DEF Live
      <3> SUFFICES ASSUME NEW f \in Time \ forked
                   PROVE  /\ \A j, k \in DOMAIN tokens' : Live(j, f)' /\ Live(k, f)' => j = k
                          /\ \A u, v \in Worker : Renews(u, f)' /\ Renews(v, f)' => u = v
                          /\ \A j \in DOMAIN tokens', v \in Worker :
                               ~(Live(j, f)' /\ Renews(v, f)')
        BY <2>1 DEF FamilyStaysSingle
      <3>7. CASE f = n
        BY <3>3, <3>4, <3>7
      <3>8. CASE f # n
        <4>1. \A v \in Worker : Renews(v, f)' => Renews(v, f)
          BY <3>5, <3>8
        <4> QED BY <2>1, <3>6, <4>1 DEF FamilyStaysSingle
      <3> QED BY <3>7, <3>8
    <2> QED BY <2>3, <2>4
  <1>8. ASSUME NEW w \in Worker, Insert(w) PROVE FamilyStaysSingle'
    <2> DEFINE g == req[w].family
               t == [family |-> g, created |-> req[w].created, revoked |-> FALSE]
               n == Len(tokens) + 1
    <2>1. g \in Time /\ t \in Token /\ t.family = g
      BY <1>0, <1>8, RequestShapes DEF Insert, Token
    <2>2. tokens' = Append(tokens, t) /\ forked' = forked
      BY <1>8 DEF Insert
    <2>3. req'[w] = Idle /\ \A v \in Worker \ {w} : req'[v] = req[v]
      BY <1>0, <1>8, GoneTo DEF Insert, End
    <2>4. Renews(w, g)
      BY <1>8 DEF Insert, Renews
    <2> HIDE DEF g, t
    <2>5. /\ DOMAIN tokens' = DOMAIN tokens \cup {n}
          /\ \A i \in DOMAIN tokens : tokens'[i] = tokens[i]
          /\ tokens'[n] = t
      BY <1>0, <2>1, <2>2, OneMore
    <2> HIDE DEF n
    <2>6. \A i, f : Live(i, f)' => (i = n /\ f = g) \/ Live(i, f)
      BY <2>1, <2>5 DEF Live
    <2>7. \A v \in Worker : \A f : Renews(v, f)' => Renews(v, f) /\ v # w
      BY <2>3 DEF Renews, Idle
    <2> SUFFICES ASSUME NEW f \in Time \ forked
                 PROVE  /\ \A j, k \in DOMAIN tokens' : Live(j, f)' /\ Live(k, f)' => j = k
                        /\ \A u, v \in Worker : Renews(u, f)' /\ Renews(v, f)' => u = v
                        /\ \A j \in DOMAIN tokens', v \in Worker :
                             ~(Live(j, f)' /\ Renews(v, f)')
      BY <2>2 DEF FamilyStaysSingle
    <2>8. CASE f = g
      <3>1. \A v \in Worker : ~Renews(v, f)'
        BY <2>4, <2>7, <2>8 DEF FamilyStaysSingle
      <3>2. \A i \in DOMAIN tokens : ~Live(i, f)
        BY <2>4, <2>8 DEF FamilyStaysSingle
      <3>3. \A i : Live(i, f)' => i = n
        BY <2>6, <3>2 DEF Live
      <3> QED BY <3>1, <3>3
    <2>9. CASE f # g
      <3>1. \A i : Live(i, f)' => Live(i, f) /\ i \in DOMAIN tokens
        BY <2>6, <2>9 DEF Live
      <3> QED BY <2>7, <3>1 DEF FamilyStaysSingle
    <2> QED BY <2>8, <2>9
  <1> QED BY <1>1, <1>2, <1>3, <1>4, <1>5, <1>6, <1>7, <1>8, Steps

\* Of requests that renew one session at the same time, one wins: at most one
\* token of a family is live or on its way (rotate).
THEOREM OneWinner == Spec => []FamilyStaysSingle
  <1> DEFINE IInv == Typed /\ Roots /\ FamilyStaysSingle
  <1>1. Init => IInv
    <2>1. Init => Roots /\ FamilyStaysSingle
      BY DEF Init, SessionInit, Roots, FamilyStaysSingle, Live, Renews, Idle
    <2> QED BY <2>1, TypedInit
  <1>2. IInv /\ [Next]_vars => IInv'
    BY TypedStep, RootsStep, SingleStep
  <1>3. IInv => FamilyStaysSingle
    OBVIOUS
  <1> HIDE DEF IInv
  <1> QED BY <1>1, <1>2, <1>3, PTL DEF Spec

-----------------------------------------------------------------------------
(***************************************************************************)
(* Sockets                                                                 *)
(***************************************************************************)

\* Every step leaves a stale socket, or one on its way, raced or about to be
\* dropped.
LEMMA SocketsStep ==
  ASSUME Typed, StaleSocketsWereJoining, Joining, [Next]_vars
  PROVE  StaleSocketsWereJoining' /\ Joining'
  <1> USE DEF StaleSocketsWereJoining, Joining
  <1>0. req \in [Worker -> Request]
    BY DEF Typed, TypeOK, Request
  <1>1. CASE UNCHANGED vars
    BY <1>1 DEF vars, sessionVars
  <1>2. CASE Crash
    BY <1>2 DEF Crash, Idle
  <1>3. CASE \E s \in sockets : Disconnect(s)
    BY <1>3 DEF Disconnect, session
  <1>s. ASSUME NEW w \in Worker, UNCHANGED <<validFrom, sockets>>, req[w].pc # "notify",
               req'[w].pc # "join", \A v \in Worker \ {w} : req'[v] = req[v]
        PROVE  StaleSocketsWereJoining' /\ Joining'
    <2>1. \A v \in Worker : req[v].pc = "notify" => req'[v].pc = "notify"
      BY <1>s
    <2>2. \A v \in Worker : req'[v].pc = "join" => req'[v] = req[v]
      BY <1>s
    <2> QED BY <1>s, <2>1, <2>2
  <1>4. ASSUME NEW w \in Worker,
               \/ Aside(w) \/ Mint(w) \/ Insert(w)
               \/ Epoch(w) \/ Refuse(w) \/ Claim(w) \/ Retire(w)
               \/ \E i \in DOMAIN tokens : Refresh(w, i) \/ Logout(w, i)
        PROVE  StaleSocketsWereJoining' /\ Joining'
    <2>1. CASE Aside(w)
      BY <1>s, <2>1 DEF Aside
    <2>2. CASE Mint(w) \/ Insert(w) \/ Epoch(w) \/ Refuse(w) \/ Claim(w) \/ Retire(w)
      <3>1. /\ UNCHANGED <<validFrom, sockets>> /\ req[w].pc # "notify" /\ req'[w].pc # "join"
            /\ \A v \in Worker \ {w} : req'[v] = req[v]
        BY <1>0, <2>2, GoneTo
           DEF Mint, Insert, Epoch, Refuse, Claim, Retire, End, Idle, session
      <3> QED BY <1>s, <3>1
    <2>3. CASE \E i \in DOMAIN tokens : Refresh(w, i) \/ Logout(w, i)
      <3>1. /\ UNCHANGED <<validFrom, sockets>> /\ req[w].pc # "notify" /\ req'[w].pc # "join"
            /\ \A v \in Worker \ {w} : req'[v] = req[v]
        BY <1>0, <2>3, Arrived DEF Refresh, Logout, Idle, session
      <3> QED BY <1>s, <3>1
    <2> QED BY <1>4, <2>1, <2>2, <2>3
  <1>5. ASSUME NEW w \in Worker, Everywhere(w)
        PROVE  StaleSocketsWereJoining' /\ Joining'
    <2>1. req'[w].pc = "notify"
      BY <1>0, <1>5, GoneTo DEF Everywhere
    <2> QED BY <2>1
  <1>6. ASSUME NEW w \in Worker, Notify(w)
        PROVE  StaleSocketsWereJoining' /\ Joining'
    <2>1. sockets' = {}
      BY <1>6 DEF Notify
    <2>2. ASSUME NEW v \in Worker, req'[v].pc = "join" PROVE req'[v].raced
      <3>1. CASE v = w
        BY <1>6, <2>2, <3>1 DEF Notify, Idle
      <3>2. CASE v # w /\ req[v].pc = "join"
        <4>1. req[v] \in [pc : {"join"}, iat : Time, raced : BOOLEAN]
          BY <1>0, <3>2, RequestShapes
        <4>2. req'[v] = [req[v] EXCEPT !.raced = TRUE]
          BY <1>6, <3>2 DEF Notify
        <4> QED BY <4>1, <4>2
      <3>3. CASE v # w /\ req[v].pc # "join"
        BY <1>6, <2>2, <3>3 DEF Notify
      <3> QED BY <3>1, <3>2, <3>3
    <2> QED BY <2>1, <2>2
  <1>7. ASSUME NEW w \in Worker, Join(w)
        PROVE  StaleSocketsWereJoining' /\ Joining'
    <2>1. /\ sockets' = sockets \cup {[iat |-> req[w].iat, raced |-> req[w].raced]}
          /\ req[w].pc = "join" /\ validFrom' = validFrom
          /\ req'[w] = Idle /\ \A v \in Worker \ {w} : req'[v] = req[v]
      BY <1>0, <1>7, GoneTo DEF Join, End, session
    <2>2. \A v \in Worker : req[v].pc = "notify" => req'[v].pc = "notify"
      BY <2>1
    <2>3. \A v \in Worker : req'[v].pc = "join" => req'[v] = req[v]
      BY <2>1 DEF Idle
    <2>4. StaleSocketsWereJoining'
      BY <2>1, <2>2
    <2>5. Joining'
      BY <2>1, <2>2, <2>3
    <2> QED BY <2>4, <2>5
  <1>8. ASSUME NEW w \in Worker, NEW a \in access, Connect(w, a)
        PROVE  StaleSocketsWereJoining' /\ Joining'
    <2>1. /\ UNCHANGED <<validFrom, sockets>> /\ req[w].pc = "idle"
          /\ req'[w] = [pc |-> "join", iat |-> a.iat, raced |-> FALSE]
          /\ \A v \in Worker \ {w} : req'[v] = req[v]
      BY <1>0, <1>8, Arrived DEF Connect, session
    <2>2. validFrom # None => a.iat >= validFrom
      BY <1>8 DEF Connect, Fresh
    <2>3. validFrom # None => ~(a.iat < validFrom)
      <3>1. a.iat \in Int /\ validFrom \in Time \cup {None}
        BY SessionsAssumption DEF Typed, TypeOK, Access, Time
      <3>2. validFrom # None => validFrom \in Int
        BY <3>1, SessionsAssumption DEF Time
      <3> QED BY <2>2, <3>1, <3>2
    <2>4. \A v \in Worker : req[v].pc = "notify" => req'[v].pc = "notify"
      BY <2>1
    <2>5. StaleSocketsWereJoining'
      BY <2>1, <2>4
    <2>6. \A v \in Worker \ {w} : req'[v].pc = "join" => req'[v] = req[v]
      BY <2>1
    <2>7. Joining'
      BY <2>1, <2>3, <2>4, <2>6
    <2> QED BY <2>5, <2>7
  <1> QED BY <1>1, <1>2, <1>3, <1>4, <1>5, <1>6, <1>7, <1>8, Steps

\* What still streams on an older sign-in was joining when the gateway was
\* told (onSessionsRevoked): nothing that was in the room is missed.
THEOREM SocketsDropped == Spec => []StaleSocketsWereJoining
  <1> DEFINE IInv == Typed /\ StaleSocketsWereJoining /\ Joining
  <1>1. Init => IInv
    <2>1. Init => StaleSocketsWereJoining /\ Joining
      BY DEF Init, SessionInit, StaleSocketsWereJoining, Joining, Idle
    <2> QED BY <2>1, TypedInit
  <1>2. IInv /\ [Next]_vars => IInv'
    BY TypedStep, SocketsStep
  <1>3. IInv => StaleSocketsWereJoining
    OBVIOUS
  <1> HIDE DEF IInv
  <1> QED BY <1>1, <1>2, <1>3, PTL DEF Spec

-----------------------------------------------------------------------------
(***************************************************************************)
(* Links and invitations                                                   *)
(***************************************************************************)

LinksOnce ==
  \A i \in DOMAIN links :
    links'[i].effects # links[i].effects => ~links[i].used /\ links'[i].used

InvitesOnce ==
  \A i \in DOMAIN invites :
    invites'[i].admitted # invites[i].admitted => Pending(i) /\ ~account

\* A link takes effect only while it is unused, and is used then.
LEMMA LinksStep == ASSUME Typed, [Next]_vars PROVE LinksOnce
  <1>0. /\ links \in Seq(Link) /\ \A i \in DOMAIN links : links[i] \in Link
        /\ req \in [Worker -> Request]
    BY Rows DEF Typed, TypeOK, Request
  <1>1. CASE UNCHANGED links
    BY <1>1 DEF LinksOnce
  <1>2. ASSUME NEW w \in Worker, NEW kind \in LinkKind, RequestLink(w, kind) PROVE LinksOnce
    BY <1>0, <1>2 DEF RequestLink, LinksOnce, Link
  <1>3. ASSUME NEW w \in Worker, CreateLink(w) PROVE LinksOnce
    <2> DEFINE l == [kind |-> req[w].kind, used |-> FALSE, effects |-> 0]
    <2>1. l \in Link
      BY <1>0, <1>3, RequestShapes DEF CreateLink, Link
    <2>2. links' = Append(links, l)
      BY <1>3 DEF CreateLink
    <2> HIDE DEF l
    <2>3. \A i \in DOMAIN links : links'[i] = links[i]
      BY <1>0, <2>1, <2>2, OneMore
    <2> QED BY <2>3 DEF LinksOnce
  <1>4. ASSUME NEW w \in Worker, Redeem(w), links' # links PROVE LinksOnce
    <2> DEFINE k == req[w].link
    <2>1. Redeemable(k) /\
          links' = [links EXCEPT ![k] = [kind |-> links[k].kind, used |-> TRUE,
                                         effects |-> links[k].effects + 1]]
      BY <1>4 DEF Redeem
    <2> HIDE DEF k
    <2>2. ASSUME NEW i \in DOMAIN links, links'[i].effects # links[i].effects
          PROVE  ~links[i].used /\ links'[i].used
      <3>1. i = k
        BY <2>1, <2>2
      <3> QED BY <2>1, <3>1 DEF Redeemable
    <2> QED BY <2>2 DEF LinksOnce
  <1>5. ASSUME NEW w \in Worker, SessionStep(w) PROVE LinksOnce
    <2>1. UNCHANGED links \/ CreateLink(w) \/ Redeem(w)
      BY <1>5 DEF SessionStep, Abort, Claims, Mint, Insert, Epoch, Refuse, Claim, SelectMember,
                  Reissue, Retire, Sweep, Everywhere, Notify, Join
    <2> QED BY <1>1, <1>3, <1>4, <2>1
  <1>6. ASSUME NEW w \in Worker, SessionArrival(w) PROVE LinksOnce
    <2>1. UNCHANGED links \/ \E kind \in LinkKind : RequestLink(w, kind)
      BY <1>6 DEF SessionArrival, Register, Login, LogoutAll, Refresh, Logout, Select, UseLink,
                  Connect
    <2> QED BY <1>1, <1>2, <2>1
  <1>7. ASSUME NEW w \in Worker, StaffStep(w) \/ StaffArrival(w) PROVE UNCHANGED links
    BY <1>7 DEF StaffStep, StaffArrival, InviteWrite, WithdrawWrite, AcceptWrite, ClockWrite,
                InviteRead, WithdrawRead, AcceptRead, Deactivate, Reactivate, Clock, ClockBack,
                ClockRead
  <1>8. Crash \/ (\E s \in sockets : Disconnect(s)) \/ UNCHANGED vars => UNCHANGED links
    BY DEF Crash, Disconnect, vars, sessionVars
  <1> QED BY <1>1, <1>5, <1>6, <1>7, <1>8 DEF Next, SessionNext

\* An invitation admits the person only while it is pending, and they have no
\* account.
LEMMA InvitesStep == ASSUME Typed, [Next]_vars PROVE InvitesOnce
  <1>0. /\ invites \in Seq(Invite) /\ \A i \in DOMAIN invites : invites[i] \in Invite
        /\ req \in [Worker -> Request]
    BY Rows DEF Typed, TypeOK, Request
  <1>1. CASE UNCHANGED invites
    BY <1>1 DEF InvitesOnce
  <1>2. ASSUME NEW w \in Worker, InviteWrite(w), invites' # invites PROVE InvitesOnce
    <2> DEFINE x == [accepted |-> FALSE, revoked |-> FALSE, admitted |-> FALSE]
    <2>1. x \in Invite /\ invites' = Append(invites, x)
      BY <1>2 DEF InviteWrite, Invite
    <2> HIDE DEF x
    <2>2. \A i \in DOMAIN invites : invites'[i] = invites[i]
      BY <1>0, <2>1, OneMore
    <2> QED BY <2>2 DEF InvitesOnce
  <1>3. ASSUME NEW w \in Worker, WithdrawWrite(w) PROVE InvitesOnce
    <2>1. \A i \in DOMAIN invites : invites'[i].admitted = invites[i].admitted
      BY <1>0, <1>3 DEF WithdrawWrite, Invite
    <2> QED BY <2>1 DEF InvitesOnce
  <1>4. ASSUME NEW w \in Worker, AcceptWrite(w), invites' # invites PROVE InvitesOnce
    <2> DEFINE k == req[w].invite
    <2>1. Pending(k) /\ ~account /\
          invites' = [invites EXCEPT ![k] = [accepted |-> TRUE, revoked |-> invites[k].revoked,
                                             admitted |-> TRUE]]
      BY <1>4 DEF AcceptWrite
    <2> HIDE DEF k
    <2>2. \A i \in DOMAIN invites : i # k => invites'[i] = invites[i]
      BY <2>1
    <2> QED BY <2>1, <2>2 DEF InvitesOnce
  <1>5. ASSUME NEW w \in Worker, StaffStep(w) PROVE InvitesOnce
    <2>1. ClockWrite(w) => UNCHANGED invites
      BY DEF ClockWrite
    <2> QED BY <1>1, <1>2, <1>3, <1>4, <1>5, <2>1 DEF StaffStep
  <1>6. ASSUME NEW w \in Worker, StaffArrival(w) PROVE UNCHANGED invites
    BY <1>6 DEF StaffArrival, InviteRead, WithdrawRead, AcceptRead, Deactivate, Reactivate,
                Clock, ClockBack, ClockRead, staff
  <1>7. UNCHANGED staff \/ UNCHANGED vars => UNCHANGED invites
    BY DEF staff, vars
  <1> QED BY <1>1, <1>5, <1>6, <1>7 DEF Next

\* A grant that was used, replaced or withdrawn does not work again (the
\* conditional updates of resetPassword, verifyEmail and acceptInvite).
THEOREM Once == Spec => GrantsWorkOnce
  <1>1. Typed /\ [Next]_vars =>
          [/\ \A i \in DOMAIN links :
                links'[i].effects # links[i].effects => ~links[i].used /\ links'[i].used
           /\ \A i \in DOMAIN invites :
                invites'[i].admitted # invites[i].admitted => Pending(i) /\ ~account]_vars
    BY LinksStep, InvitesStep DEF LinksOnce, InvitesOnce
  <1> QED BY <1>1, TypedInit, TypedStep, PTL DEF Spec, GrantsWorkOnce

-----------------------------------------------------------------------------
(***************************************************************************)
(* Hours.  A timesheet is a function that is defined by its own values at  *)
(* earlier instants.  That there is such a function, and what it computes, *)
(* is shown by the least instant at which the claim would fail.            *)
(***************************************************************************)

\* What the sheet s has after the instant before t.
SheetStep(s, S, from, t) ==
  LET due == {e \in S : e.at = t - 1 /\ from <= e.at}
  IN  IF t = 0 THEN [shifts |-> <<>>, open |-> None]
      ELSE IF due = {} THEN s[t - 1]
      ELSE Tally(s[t - 1], CHOOSE e \in due : TRUE)

\* s is the sheet of the events S, from an instant on.
IsSheet(s, S, from, n) == s = [t \in 0 .. n |-> SheetStep(s, S, from, t)]

Sheet(S, from, n) == CHOOSE s : IsSheet(s, S, from, n)

\* The timesheet is read off such a sheet.
LEMMA TimesheetBySheet ==
  ASSUME NEW from, NEW to
  PROVE  Timesheet(from, to) = Sheet(attendance, from, to + 1)[to + 1]
  BY DEF Timesheet, Sheet, IsSheet, SheetStep

\* There is a sheet.
LEMMA SheetExists ==
  ASSUME NEW S, NEW from, NEW n \in Nat
  PROVE  \E s : IsSheet(s, S, from, n)
  <1> DEFINE Bad == {m \in Nat : ~ \E s : IsSheet(s, S, from, m)}
  <1>1. SUFFICES ASSUME Bad # {}
                 PROVE  FALSE
    OBVIOUS
  <1>2. PICK m \in Bad : \A k \in Bad : m <= k
    <2>1. Bad \subseteq Nat
      OBVIOUS
    <2> HIDE DEF Bad
    <2> QED BY <1>1, <2>1, LeastNatural
  <1>3. CASE m = 0
    <2> DEFINE s == [t \in 0 .. m |-> [shifts |-> <<>>, open |-> None]]
    <2>1. \A t \in 0 .. m : SheetStep(s, S, from, t) = [shifts |-> <<>>, open |-> None]
      BY <1>3 DEF SheetStep
    <2>2. IsSheet(s, S, from, m)
      BY <2>1 DEF IsSheet
    <2> QED BY <2>2, <1>2
  <1>4. CASE m # 0
    <2>1. m - 1 \in Nat /\ m - 1 \notin Bad
      BY <1>2, <1>4
    <2>2. PICK s : IsSheet(s, S, from, m - 1)
      BY <2>1
    <2>3. \A t \in 0 .. m - 1 : s[t] = SheetStep(s, S, from, t)
      BY <2>2 DEF IsSheet
    <2> DEFINE u == [t \in 0 .. m |-> IF t = m THEN SheetStep(s, S, from, m) ELSE s[t]]
    <2>4. ASSUME NEW t \in 0 .. m
          PROVE  SheetStep(u, S, from, t) = SheetStep(s, S, from, t)
      <3>1. CASE t = 0
        BY <3>1 DEF SheetStep
      <3>2. CASE t # 0
        <4>1. t - 1 \in 0 .. m /\ t - 1 # m
          BY <3>2, <1>2
        <4>2. u[t - 1] = s[t - 1]
          BY <4>1
        <4> HIDE DEF u
        <4> QED BY <4>2 DEF SheetStep
      <3> QED BY <3>1, <3>2
    <2>5. ASSUME NEW t \in 0 .. m
          PROVE  u[t] = SheetStep(u, S, from, t)
      <3>1. CASE t = m
        BY <3>1, <2>4
      <3>2. CASE t # m
        <4>1. t \in 0 .. m - 1
          BY <3>2, <1>2
        <4>2. u[t] = s[t]
          BY <3>2
        <4> QED BY <4>1, <4>2, <2>3, <2>4
      <3> QED BY <3>1, <3>2
    <2>6. u = [t \in 0 .. m |-> u[t]]
      OBVIOUS
    <2> HIDE DEF u
    <2>7. IsSheet(u, S, from, m)
      BY <2>5, <2>6 DEF IsSheet
    <2> QED BY <2>7, <1>2
  <1> QED BY <1>3, <1>4

\* No two events are for the same instant.
Differ(S) == \A e, f \in S : e.at = f.at => e = f

\* The events of a period that begins at from and ends before t.
Taken(S, from, t) == {e \in S : from <= e.at /\ e.at < t}

\* No event of E is later than e.
IsLast(E, e) == e \in E /\ \A f \in E : f.at <= e.at

\* f is the event of E that comes after e.
Neighbours(E, e, f) == e.at < f.at /\ \A g \in E : ~(e.at < g.at /\ g.at < f.at)

\* The hours that can be paid, as TimesheetPairsNeighbours states them.
Paid(E) ==
  {<<p[1].at, p[2].at>> : p \in {q \in E \X E :
     q[1].type = "CLOCK_IN" /\ q[2].type = "CLOCK_OUT" /\ Neighbours(E, q[1], q[2])}}

\* Pair by pair.
LEMMA PaidPairs ==
  ASSUME NEW E, NEW p
  PROVE  p \in Paid(E) <=>
           \E e, f \in E : /\ e.type = "CLOCK_IN" /\ f.type = "CLOCK_OUT"
                           /\ Neighbours(E, e, f) /\ p = <<e.at, f.at>>
  <1>1. ASSUME NEW e \in E, NEW f \in E, e.type = "CLOCK_IN", f.type = "CLOCK_OUT",
               Neighbours(E, e, f), p = <<e.at, f.at>>
        PROVE  p \in Paid(E)
    <2>1. <<e, f>> \in E \X E /\ <<e, f>>[1] = e /\ <<e, f>>[2] = f
      OBVIOUS
    <2> QED BY <2>1, <1>1 DEF Paid
  <1>2. ASSUME p \in Paid(E)
        PROVE  \E e, f \in E : /\ e.type = "CLOCK_IN" /\ f.type = "CLOCK_OUT"
                               /\ Neighbours(E, e, f) /\ p = <<e.at, f.at>>
    BY <1>2 DEF Paid
  <1> QED BY <1>1, <1>2

\* A sheet's shifts and what is open on it.
Hours == [shifts : Seq(Nat \X Nat), open : Nat \cup {None}]

\* r is the sheet of the events of E.
Explains(r, E) ==
  /\ r \in Hours
  /\ Range(r.shifts) = Paid(E) /\ IsInjective(r.shifts)
  /\ \A e \in E : IsLast(E, e) /\ e.type = "CLOCK_IN" => r.open = e.at
  /\ r.open # None => \E e \in E : IsLast(E, e) /\ e.type = "CLOCK_IN" /\ r.open = e.at

\* One more shift, which is not there yet.
LEMMA OneMoreShift ==
  ASSUME NEW T, NEW s \in Seq(T), NEW x \in T, IsInjective(s), x \notin Range(s)
  PROVE  /\ Append(s, x) \in Seq(T) /\ IsInjective(Append(s, x))
         /\ Range(Append(s, x)) = Range(s) \cup {x}
  <1> DEFINE u == Append(s, x)
             n == Len(s) + 1
  <1>1. /\ u \in Seq(T) /\ DOMAIN u = DOMAIN s \cup {n} /\ n \notin DOMAIN s
        /\ \A i \in DOMAIN s : u[i] = s[i]
        /\ u[n] = x
    BY OneMore
  <1> HIDE DEF u, n
  <1>2. Range(u) = Range(s) \cup {x}
    BY <1>1 DEF Range
  <1>3. ASSUME NEW i \in DOMAIN u, NEW j \in DOMAIN u, u[i] = u[j]
        PROVE  i = j
    <2>1. \A k \in DOMAIN s : s[k] # x
      BY DEF Range
    <2> QED BY <2>1, <1>1, <1>3 DEF IsInjective
  <1>4. IsInjective(u)
    BY <1>3 DEF IsInjective
  <1> QED BY <1>1, <1>2, <1>4 DEF u

\* Nothing is on a blank sheet.
LEMMA BlankExplains ==
  ASSUME NEW E, E = {}
  PROVE  Explains([shifts |-> <<>>, open |-> None], E)
  <1> DEFINE r == [shifts |-> <<>>, open |-> None]
  <1>1. r \in Hours /\ r.shifts = <<>> /\ r.open = None
    BY DEF Hours
  <1>2. Range(r.shifts) = {} /\ IsInjective(r.shifts)
    BY <1>1 DEF Range, IsInjective
  <1>3. Paid(E) = {}
    BY PaidPairs
  <1> HIDE DEF r
  <1>4. Explains(r, E)
    BY <1>1, <1>2, <1>3 DEF Explains
  <1> QED BY <1>4 DEF r

\* What the sheet makes of one event more, later than the others (timesheet).
LEMMA TallyExplains ==
  ASSUME NEW E, E \subseteq [type : ClockType, at : Nat],
         NEW x \in [type : ClockType, at : Nat], \A e \in E : e.at < x.at,
         NEW r, Explains(r, E), Differ(E)
  PROVE  Explains(Tally(r, x), E \cup {x})
  <1> DEFINE F == E \cup {x}
             new == Tally(r, x)
  <1>0. None \notin Nat
    BY SessionsAssumption
  <1>1. /\ r \in Hours /\ r.shifts \in Seq(Nat \X Nat) /\ r.open \in Nat \cup {None}
        /\ Range(r.shifts) = Paid(E) /\ IsInjective(r.shifts)
        /\ \A e \in E : IsLast(E, e) /\ e.type = "CLOCK_IN" => r.open = e.at
        /\ r.open # None => \E e \in E : IsLast(E, e) /\ e.type = "CLOCK_IN" /\ r.open = e.at
    BY DEF Explains, Hours
  <1>2. x.at \in Nat /\ x.type \in ClockType /\ \A e \in E : e.at \in Nat /\ e.type \in ClockType
    OBVIOUS
  <1>3. \A e \in F : IsLast(F, e) <=> e = x
    BY <1>2 DEF IsLast
  <1>4. \A e, f \in E : Neighbours(F, e, f) <=> Neighbours(E, e, f)
    BY <1>2 DEF Neighbours
  <1>5. \A e \in F : ~Neighbours(F, x, e)
    BY <1>2 DEF Neighbours
  <1>6. \A e \in E : Neighbours(F, e, x) <=> IsLast(E, e)
    BY <1>2 DEF Neighbours, IsLast
  <1>7. \A p : p \in Paid(F) <=>
                 \/ p \in Paid(E)
                 \/ /\ x.type = "CLOCK_OUT"
                    /\ \E e \in E : IsLast(E, e) /\ e.type = "CLOCK_IN" /\ p = <<e.at, x.at>>
    <2> TAKE p
    <2>1. p \in Paid(F) <=>
            \E e, f \in F : /\ e.type = "CLOCK_IN" /\ f.type = "CLOCK_OUT"
                            /\ Neighbours(F, e, f) /\ p = <<e.at, f.at>>
      <3> HIDE DEF F
      <3> QED BY PaidPairs
    <2>2. p \in Paid(E) <=>
            \E e, f \in E : /\ e.type = "CLOCK_IN" /\ f.type = "CLOCK_OUT"
                            /\ Neighbours(E, e, f) /\ p = <<e.at, f.at>>
      BY PaidPairs
    <2> QED BY <2>1, <2>2, <1>4, <1>5, <1>6
  <1> HIDE DEF F, new
  <1>8. CASE x.type = "CLOCK_IN"
    <2>1. new = [r EXCEPT !.open = x.at]
      BY <1>8 DEF new, Tally
    <2>2. new \in Hours /\ new.shifts = r.shifts /\ new.open = x.at
      BY <2>1, <1>1, <1>2 DEF Hours
    <2>3. Paid(F) = Paid(E)
      BY <1>7, <1>8
    <2> QED BY <2>2, <2>3, <1>1, <1>3, <1>8 DEF Explains, F, new
  <1>9. CASE x.type # "CLOCK_IN" /\ r.open = None
    <2>1. new = r
      BY <1>9 DEF new, Tally
    <2>2. \A e \in E : ~(IsLast(E, e) /\ e.type = "CLOCK_IN")
      BY <1>0, <1>1, <1>2, <1>9
    <2>3. Paid(F) = Paid(E)
      BY <1>7, <2>2
    <2> QED BY <2>1, <2>3, <1>1, <1>3, <1>9 DEF Explains, F, new
  <1>10. CASE x.type # "CLOCK_IN" /\ r.open # None
    <2> DEFINE y == <<r.open, x.at>>
    <2>1. PICK e \in E : IsLast(E, e) /\ e.type = "CLOCK_IN" /\ r.open = e.at
      BY <1>1, <1>10
    <2>2. x.type = "CLOCK_OUT"
      BY <1>2, <1>10 DEF ClockType
    <2>3. \A f \in E : IsLast(E, f) => f.at = e.at
      BY <2>1, <1>2 DEF IsLast
    <2>4. \A p : p \in Paid(F) <=> p \in Paid(E) \/ p = y
      BY <1>7, <2>1, <2>2, <2>3
    <2>5. y \notin Paid(E)
      <3>1. ASSUME NEW e1 \in E, NEW f1 \in E, y = <<e1.at, f1.at>>
            PROVE  FALSE
        <4>1. f1.at = x.at
          BY <3>1
        <4> QED BY <4>1, <1>2
      <3> HIDE DEF y
      <3> QED BY <3>1, PaidPairs
    <2>6. y \in Nat \X Nat
      BY <1>2, <2>1
    <2> HIDE DEF y
    <2>7. /\ Append(r.shifts, y) \in Seq(Nat \X Nat) /\ IsInjective(Append(r.shifts, y))
          /\ Range(Append(r.shifts, y)) = Range(r.shifts) \cup {y}
      BY <1>1, <2>5, <2>6, OneMoreShift
    <2>8. new = [shifts |-> Append(r.shifts, y), open |-> None]
      BY <1>10 DEF new, Tally, y
    <2>9. new \in Hours /\ new.shifts = Append(r.shifts, y) /\ new.open = None
      BY <2>7, <2>8 DEF Hours
    <2>10. Range(new.shifts) = Paid(F)
      BY <2>4, <2>7, <2>9, <1>1
    <2> QED BY <2>7, <2>9, <2>10, <1>3, <1>10 DEF Explains, F, new
  <1> QED BY <1>8, <1>9, <1>10

\* A sheet explains the events that have been taken, instant by instant.
LEMMA SheetExplains ==
  ASSUME NEW S, S \subseteq [type : ClockType, at : Nat], Differ(S), NEW from \in Nat,
         NEW n \in Nat, NEW s, IsSheet(s, S, from, n)
  PROVE  \A t \in 0 .. n : Explains(s[t], Taken(S, from, t))
  <1> DEFINE Bad == {t \in 0 .. n : ~ Explains(s[t], Taken(S, from, t))}
  <1>1. SUFFICES ASSUME Bad # {}
                 PROVE  FALSE
    OBVIOUS
  <1>2. PICK t \in Bad : \A k \in Bad : t <= k
    <2>1. Bad \subseteq Nat
      OBVIOUS
    <2> HIDE DEF Bad
    <2> QED BY <1>1, <2>1, LeastNatural
  <1>3. t \in 0 .. n /\ ~ Explains(s[t], Taken(S, from, t))
    BY <1>2
  <1>4. s[t] = SheetStep(s, S, from, t)
    BY <1>3 DEF IsSheet
  <1>5. \A e \in S : e.at \in Nat
    OBVIOUS
  <1>6. CASE t = 0
    <2>1. Taken(S, from, t) = {}
      BY <1>5, <1>6 DEF Taken
    <2>2. s[t] = [shifts |-> <<>>, open |-> None]
      BY <1>4, <1>6 DEF SheetStep
    <2> QED BY <2>1, <2>2, <1>3, BlankExplains
  <1>7. CASE t # 0
    <2> DEFINE due == {e \in S : e.at = t - 1 /\ from <= e.at}
               E == Taken(S, from, t - 1)
    <2>1. t - 1 \in 0 .. n /\ t - 1 \notin Bad
      BY <1>2, <1>3, <1>7
    <2>2. Explains(s[t - 1], E)
      BY <2>1
    <2>3. Taken(S, from, t) = E \cup due
      BY <1>3, <1>5, <1>7 DEF Taken
    <2>4. s[t] = IF due = {} THEN s[t - 1] ELSE Tally(s[t - 1], CHOOSE e \in due : TRUE)
      BY <1>4, <1>7 DEF SheetStep
    <2>5. CASE due = {}
      BY <2>2, <2>3, <2>4, <2>5, <1>3
    <2>6. CASE due # {}
      <3>1. PICK x : x = CHOOSE e \in due : TRUE
        OBVIOUS
      <3>2. x \in due
        BY <2>6, <3>1
      <3>3. due = {x}
        BY <3>2, <1>5 DEF Differ
      <3>4. E \subseteq S /\ Differ(E) /\ \A e \in E : e.at < x.at
        BY <1>3, <1>5, <1>7, <3>2 DEF Taken, Differ
      <3>5. x \in [type : ClockType, at : Nat]
        BY <3>2
      <3>6. s[t] = Tally(s[t - 1], x)
        BY <2>4, <2>6, <3>1
      <3> HIDE DEF due, E
      <3>7. Explains(Tally(s[t - 1], x), E \cup {x})
        BY <2>2, <3>4, <3>5, TallyExplains
      <3> QED BY <3>3, <3>6, <3>7, <2>3, <1>3
    <2> QED BY <2>5, <2>6
  <1> QED BY <1>6, <1>7

\* What a step leaves alone that is not about hours.
OffTheClock ==
  /\ now <= now' /\ attendance' = attendance
  /\ \A v \in Worker : req'[v].pc = "clock" => req'[v] = req[v]

\* The sessions have nothing to do with hours: requests that go on.
LEMMA SessionStepsOffTheClock ==
  ASSUME Typed, UNCHANGED staff, NEW w \in Worker, SessionStep(w)
  PROVE  OffTheClock
  <1> USE DEF OffTheClock, staff, End
  <1>0. req \in [Worker -> Request] /\ now \in Time /\ now <= now
    BY SessionsAssumption DEF Typed, TypeOK, Request, Time
  <1>1. CASE Abort(w)
    BY <1>0, <1>1, GoneTo DEF Abort, Idle
  <1>2. CASE Claims(w)
    BY <1>0, <1>2, GoneTo DEF Claims, Idle
  <1>3. CASE Mint(w)
    BY <1>0, <1>3, GoneTo, Later DEF Mint, Idle
  <1>4. CASE Insert(w)
    BY <1>0, <1>4, GoneTo DEF Insert, Idle
  <1>5. CASE Epoch(w)
    BY <1>0, <1>5, GoneTo DEF Epoch, Idle
  <1>6. CASE Refuse(w)
    BY <1>0, <1>6, GoneTo DEF Refuse, Idle
  <1>7. CASE Claim(w)
    BY <1>0, <1>7, GoneTo DEF Claim, Idle
  <1>8. CASE SelectMember(w)
    BY <1>0, <1>8, GoneTo DEF SelectMember, Idle
  <1>9. CASE Reissue(w)
    BY <1>0, <1>9, GoneTo DEF Reissue, Idle
  <1>10. CASE Retire(w)
    BY <1>0, <1>10, GoneTo DEF Retire, Idle
  <1>11. CASE Sweep(w)
    BY <1>0, <1>11, GoneTo, Later DEF Sweep, Idle
  <1>12. CASE Everywhere(w)
    BY <1>0, <1>12, GoneTo DEF Everywhere, Idle
  <1>13. CASE Notify(w)
    BY <1>0, <1>13 DEF Notify, Idle
  <1>14. CASE CreateLink(w)
    BY <1>0, <1>14, GoneTo DEF CreateLink, Idle
  <1>15. CASE Redeem(w)
    BY <1>0, <1>15, GoneTo DEF Redeem, Idle
  <1>16. CASE Join(w)
    BY <1>0, <1>16, GoneTo DEF Join, Idle
  <1> QED BY <1>1, <1>2, <1>3, <1>4, <1>5, <1>6, <1>7, <1>8, <1>9, <1>10, <1>11, <1>12,
             <1>13, <1>14, <1>15, <1>16 DEF SessionStep

\* ... and requests that come in.
LEMMA SessionArrivalsOffTheClock ==
  ASSUME Typed, UNCHANGED staff, NEW w \in Worker, SessionArrival(w)
  PROVE  OffTheClock
  <1> USE DEF OffTheClock, staff
  <1>0. req \in [Worker -> Request] /\ now \in Time /\ now <= now
    BY SessionsAssumption DEF Typed, TypeOK, Request, Time
  <1>1. CASE Register(w)
    BY <1>0, <1>1, Arrived DEF Register, Idle
  <1>2. CASE Login(w)
    BY <1>0, <1>2, Arrived DEF Login, Idle
  <1>3. CASE LogoutAll(w)
    BY <1>0, <1>3, Arrived DEF LogoutAll, Idle
  <1>4. CASE \E i \in DOMAIN tokens : Refresh(w, i)
    BY <1>0, <1>4, Arrived DEF Refresh, Idle
  <1>5. CASE \E i \in DOMAIN tokens : Logout(w, i)
    BY <1>0, <1>5, Arrived DEF Logout, Idle
  <1>6. CASE \E a \in access, i \in {0} \cup DOMAIN tokens : Select(w, a, i)
    BY <1>0, <1>6, Arrived DEF Select, Idle
  <1>7. CASE \E kind \in LinkKind : RequestLink(w, kind)
    BY <1>0, <1>7, Arrived DEF RequestLink, Idle
  <1>8. CASE \E i \in DOMAIN links : UseLink(w, i)
    BY <1>0, <1>8, Arrived DEF UseLink, Idle
  <1>9. CASE \E a \in access : Connect(w, a)
    BY <1>0, <1>9, Arrived DEF Connect, Idle
  <1> QED BY <1>1, <1>2, <1>3, <1>4, <1>5, <1>6, <1>7, <1>8, <1>9 DEF SessionArrival

\* Only the clock and what a manager records have to do with hours.
LEMMA ClockSteps ==
  ASSUME Typed, [Next]_vars
  PROVE  \/ OffTheClock
         \/ \E w \in Worker :
              \/ ClockWrite(w)
              \/ \E type \in ClockType : Clock(w, type)
              \/ \E type \in ClockType, at \in Backdated : ClockBack(w, type, at)
  <1>0. req \in [Worker -> Request] /\ now \in Time /\ now <= now
    BY SessionsAssumption DEF Typed, TypeOK, Request, Time
  <1>1. CASE UNCHANGED vars
    BY <1>0, <1>1 DEF vars, sessionVars, OffTheClock
  <1>2. CASE SessionNext /\ UNCHANGED staff
    <2>1. CASE Crash
      BY <1>0, <1>2, <2>1 DEF Crash, OffTheClock, staff, Idle
    <2>2. CASE \E s \in sockets : Disconnect(s)
      BY <1>0, <1>2, <2>2 DEF Disconnect, OffTheClock, staff
    <2> QED BY <1>2, <2>1, <2>2, SessionStepsOffTheClock, SessionArrivalsOffTheClock
            DEF SessionNext
  <1>3. ASSUME NEW w \in Worker,
               \/ InviteWrite(w) \/ WithdrawWrite(w) \/ AcceptWrite(w)
               \/ InviteRead(w)
               \/ \E i \in DOMAIN invites : WithdrawRead(w, i) \/ AcceptRead(w, i)
               \/ Deactivate(w) \/ Reactivate(w)
        PROVE  OffTheClock
    <2> USE DEF OffTheClock, staff, End
    <2>1. CASE InviteWrite(w)
      BY <1>0, <2>1, GoneTo DEF InviteWrite, Idle
    <2>2. CASE WithdrawWrite(w)
      BY <1>0, <2>2, GoneTo DEF WithdrawWrite, Idle
    <2>3. CASE AcceptWrite(w)
      BY <1>0, <2>3, GoneTo DEF AcceptWrite, Idle
    <2>4. CASE InviteRead(w)
      BY <1>0, <2>4, Arrived DEF InviteRead, Idle
    <2>5. CASE \E i \in DOMAIN invites : WithdrawRead(w, i)
      BY <1>0, <2>5, Arrived DEF WithdrawRead, Idle
    <2>6. CASE \E i \in DOMAIN invites : AcceptRead(w, i)
      BY <1>0, <2>6, Arrived DEF AcceptRead, Idle
    <2>7. CASE Deactivate(w)
      BY <1>0, <2>7, Arrived DEF Deactivate, Idle
    <2>8. CASE Reactivate(w)
      BY <1>0, <2>8, Arrived DEF Reactivate, Idle
    <2> QED BY <1>3, <2>1, <2>2, <2>3, <2>4, <2>5, <2>6, <2>7, <2>8
  <1> QED BY <1>1, <1>2, <1>3 DEF Next, StaffStep, StaffArrival

\* An event is recorded for an instant of its own, not in the future, and so is
\* one that is about to be recorded.
EventsDiffer ==
  /\ Differ(attendance)
  /\ \A e \in attendance : e.at <= now
  /\ \A w \in Worker :
       req[w].pc = "clock" =>
         /\ req[w].event.at <= now
         /\ \A e \in attendance : e.at # req[w].event.at
         /\ \A v \in Worker \ {w} :
              req[v].pc = "clock" => req[v].event.at # req[w].event.at

\* One request more on the clock, for an instant that nobody else has.
LEMMA OneMoreOnTheClock ==
  ASSUME EventsDiffer, attendance' = attendance, now \in Time, now' \in Time, now <= now',
         attendance \subseteq Event, NEW w \in Worker, NEW at \in Time, at <= now',
         req'[w].event.at = at,
         \A v \in Worker \ {w} : req'[v] = req[v],
         \A v \in Worker : req[v].pc = "clock" => req[v].event \in Event,
         \A e \in attendance : e.at # at,
         \A v \in Worker \ {w} : req[v].pc = "clock" => req[v].event.at # at
  PROVE  EventsDiffer'
  <1>1. Time \subseteq Int
    BY DEF Time
  <1>2. Differ(attendance')
    BY DEF EventsDiffer
  <1>3. \A e \in attendance : e.at \in Int /\ e.at <= now'
    <2>1. now \in Int /\ now' \in Int /\ \A e \in attendance : e.at \in Int
      BY <1>1 DEF Event
    <2>2. \A e \in attendance : e.at <= now
      BY DEF EventsDiffer
    <2> QED BY <2>1, <2>2
  <1>4. ASSUME NEW u \in Worker, req'[u].pc = "clock"
        PROVE  /\ req'[u].event.at <= now'
               /\ \A e \in attendance : e.at # req'[u].event.at
               /\ \A v \in Worker \ {u} :
                    req'[v].pc = "clock" => req'[v].event.at # req'[u].event.at
    <2>1. CASE u = w
      BY <2>1
    <2>2. CASE u # w
      <3>1. req'[u] = req[u] /\ req[u].event.at \in Int
        BY <2>2, <1>1, <1>4 DEF Event
      <3>2. req[u].event.at <= now /\ \A e \in attendance : e.at # req[u].event.at
        BY <3>1, <1>4 DEF EventsDiffer
      <3>3. ASSUME NEW v \in Worker \ {u}, req'[v].pc = "clock"
            PROVE  req'[v].event.at # req[u].event.at
        <4>1. CASE v = w
          BY <4>1, <2>2, <3>1, <1>4
        <4>2. CASE v # w
          BY <4>2, <3>1, <3>3, <1>4 DEF EventsDiffer
        <4> QED BY <4>1, <4>2
      <3> QED BY <1>1, <3>1, <3>2, <3>3
    <2> QED BY <2>1, <2>2
  <1> QED BY <1>2, <1>3, <1>4 DEF EventsDiffer

\* No two events are for the same instant, whatever two devices and a manager
\* record.
LEMMA EventsDifferStep ==
  ASSUME Typed, Typed', EventsDiffer, [Next]_vars
  PROVE  EventsDiffer'
  <1>0. /\ req \in [Worker -> Request] /\ now \in Time /\ now' \in Time
        /\ attendance \subseteq Event /\ Time \subseteq Int
        /\ \A v \in Worker : req[v].pc = "clock" => req[v].event \in Event
    <2>1. req \in [Worker -> Request]
      BY DEF Typed, TypeOK, Request
    <2> QED BY <2>1, RequestShapes DEF Typed, TypeOK, Time
  <1>1. CASE OffTheClock
    <2>1. Differ(attendance') /\ \A e \in attendance' : e.at \in Int /\ e.at <= now
      BY <1>0, <1>1 DEF EventsDiffer, OffTheClock, Event
    <2>2. ASSUME NEW v \in Worker, req'[v].pc = "clock"
          PROVE  req'[v] = req[v] /\ req[v].event.at \in Int /\ req[v].event.at <= now
      BY <1>0, <1>1, <2>2 DEF EventsDiffer, OffTheClock, Event
    <2>3. now <= now' /\ attendance' = attendance
      BY <1>1 DEF OffTheClock
    <2> QED BY <2>1, <2>2, <2>3, <1>0 DEF EventsDiffer
  <1>2. ASSUME NEW w \in Worker, ClockWrite(w)
        PROVE  EventsDiffer'
    <2>1. PICK x : x = req[w].event
      OBVIOUS
    <2>2. req[w].pc = "clock" /\ attendance' = attendance \cup {x} /\ now' = now
      BY <1>2, <2>1 DEF ClockWrite
    <2>3. req'[w] = Idle /\ \A v \in Worker \ {w} : req'[v] = req[v]
      BY <1>0, <1>2, GoneTo DEF ClockWrite, End
    <2>4. x.at <= now /\ (\A e \in attendance : e.at # x.at)
          /\ \A v \in Worker \ {w} : req[v].pc = "clock" => req[v].event.at # x.at
      BY <2>1, <2>2 DEF EventsDiffer
    <2>5. Differ(attendance') /\ \A e \in attendance' : e.at <= now'
      BY <2>2, <2>4 DEF EventsDiffer, Differ
    <2>6. ASSUME NEW u \in Worker, req'[u].pc = "clock"
          PROVE  u # w /\ req'[u] = req[u]
      BY <2>3, <2>6 DEF Idle
    <2>7. ASSUME NEW u \in Worker, req'[u].pc = "clock"
          PROVE  /\ req'[u].event.at <= now'
                 /\ \A e \in attendance' : e.at # req'[u].event.at
                 /\ \A v \in Worker \ {u} :
                      req'[v].pc = "clock" => req'[v].event.at # req'[u].event.at
      BY <2>2, <2>4, <2>6, <2>7 DEF EventsDiffer
    <2> QED BY <2>5, <2>7 DEF EventsDiffer
  <1>3. ASSUME NEW w \in Worker, NEW type \in ClockType, Clock(w, type)
        PROVE  EventsDiffer'
    <2>1. now' = now + 1 /\ now <= now' /\ attendance' = attendance
      BY <1>0, <1>3, Later DEF Clock, ClockRead, staff
    <2>2. /\ req'[w] = [pc |-> "clock", event |-> [type |-> type, at |-> now']]
          /\ \A v \in Worker \ {w} : req'[v] = req[v]
      BY <1>0, <1>3, Arrived DEF Clock, ClockRead
    <2>3. \A e \in attendance : e.at # now'
      BY <1>0, <2>1 DEF EventsDiffer, Event
    <2>4. \A v \in Worker \ {w} : req[v].pc = "clock" => req[v].event.at # now'
      BY <1>0, <2>1 DEF EventsDiffer, Event
    <2>5. now' <= now' /\ req'[w].event.at = now'
      <3>1. now' \in Int
        BY <1>0
      <3>2. req'[w].event = [type |-> type, at |-> now']
        BY <2>2
      <3> QED BY <3>1, <3>2
    <2> QED BY <1>0, <2>1, <2>2, <2>3, <2>4, <2>5, OneMoreOnTheClock
  <1>4. ASSUME NEW w \in Worker, NEW type \in ClockType, NEW at \in Backdated,
               ClockBack(w, type, at)
        PROVE  EventsDiffer'
    <2>1. /\ now' = now /\ attendance' = attendance /\ at <= now /\ at \in Time
          /\ \A e \in attendance : e.at # at
          /\ \A v \in Worker : req[v].pc = "clock" => req[v].event.at # at
      BY <1>4, StaffAssumption DEF ClockBack, ClockRead, staff
    <2>2. /\ req'[w] = [pc |-> "clock", event |-> [type |-> type, at |-> at]]
          /\ \A v \in Worker \ {w} : req'[v] = req[v]
      BY <1>0, <1>4, Arrived DEF ClockBack, ClockRead
    <2>3. now <= now' /\ at <= now' /\ req'[w].event.at = at
      <3>1. now \in Int
        BY <1>0
      <3>2. req'[w].event = [type |-> type, at |-> at]
        BY <2>2
      <3> QED BY <2>1, <3>1, <3>2
    <2>4. /\ at \in Time /\ attendance' = attendance
          /\ \A e \in attendance : e.at # at
          /\ \A v \in Worker \ {w} : req[v].pc = "clock" => req[v].event.at # at
          /\ \A v \in Worker \ {w} : req'[v] = req[v]
      BY <2>1, <2>2
    <2> QED BY <1>0, <2>3, <2>4, OneMoreOnTheClock
  <1> QED BY <1>1, <1>2, <1>3, <1>4, ClockSteps

\* Hours that can be paid run from a clock-in to the event after it, if that is
\* a clock-out, each of them is paid once, and a clock-in that has no end is
\* reported (timesheet).
THEOREM NeighboursArePaired == Spec => []TimesheetPairsNeighbours
  <1>1. Init => EventsDiffer
    BY DEF Init, SessionInit, EventsDiffer, Differ, Idle
  <1>2. Typed /\ Typed' /\ EventsDiffer /\ [Next]_vars => EventsDiffer'
    BY EventsDifferStep
  <1>3. Typed /\ EventsDiffer => TimesheetPairsNeighbours
    <2> SUFFICES ASSUME Typed, EventsDiffer, NEW from \in Time, NEW to \in Time
                 PROVE  LET events == {e \in attendance : e.at \in from .. to}
                            Follows(e, f) ==
                              e.at < f.at /\ \A g \in events : ~(e.at < g.at /\ g.at < f.at)
                            sheet == Timesheet(from, to)
                        IN /\ Range(sheet.shifts) =
                                {<<p[1].at, p[2].at>> : p \in {q \in events \X events :
                                   /\ q[1].type = "CLOCK_IN" /\ q[2].type = "CLOCK_OUT"
                                   /\ Follows(q[1], q[2])}}
                           /\ IsInjective(sheet.shifts)
                           /\ sheet.open # None <=>
                                \E e \in events :
                                  e.type = "CLOCK_IN" /\ ~ \E f \in events : e.at < f.at
      BY DEF TimesheetPairsNeighbours
    <2> DEFINE events == {e \in attendance : e.at \in from .. to}
               sheet == Timesheet(from, to)
    <2>1. from \in Nat /\ to \in Nat /\ to + 1 \in Nat /\ to + 1 \in 0 .. to + 1
      BY SessionsAssumption DEF Time
    <2>2. attendance \subseteq [type : ClockType, at : Nat] /\ Differ(attendance)
      BY SessionsAssumption DEF Typed, TypeOK, EventsDiffer, Event, Time
    <2>3. PICK s : s = Sheet(attendance, from, to + 1)
      OBVIOUS
    <2>4. IsSheet(s, attendance, from, to + 1)
      BY <2>1, <2>3, SheetExists DEF Sheet
    <2>5. Explains(s[to + 1], Taken(attendance, from, to + 1))
      BY <2>1, <2>2, <2>4, SheetExplains
    <2>6. Taken(attendance, from, to + 1) = events
      BY <2>1, <2>2 DEF Taken
    <2>7. sheet = s[to + 1]
      BY <2>3, TimesheetBySheet
    <2>8. \A e \in events : e.at \in Nat
      BY <2>2
    <2>9. None \notin Nat
      BY SessionsAssumption
    <2> HIDE DEF events, sheet
    <2>10. Explains(sheet, events)
      BY <2>5, <2>6, <2>7
    <2>11. Range(sheet.shifts) = Paid(events) /\ IsInjective(sheet.shifts)
      BY <2>10 DEF Explains
    <2>12. \A e \in events : IsLast(events, e) <=> ~ \E f \in events : e.at < f.at
      BY <2>8 DEF IsLast
    <2>13. sheet.open # None <=>
             \E e \in events : e.type = "CLOCK_IN" /\ ~ \E f \in events : e.at < f.at
      BY <2>8, <2>9, <2>10, <2>12 DEF Explains
    <2> QED BY <2>11, <2>13 DEF Paid, Neighbours, events, sheet
  <1> QED BY <1>1, <1>2, <1>3, TypedInit, TypedStep, PTL DEF Spec
=============================================================================
