------------------------------ MODULE Sessions ------------------------------
(***************************************************************************)
(* The sessions of one person: refresh tokens in rotation families, access *)
(* tokens, the sign-out-everywhere epoch, single-use links, and the        *)
(* sockets of the realtime gateway (TokenService, AuthService,             *)
(* RealtimeGateway).  Statements outside a transaction commit one by one,  *)
(* so every handler is cut at each of them.                                *)
(*                                                                         *)
(* The clock counts stamps: no two are taken in the same millisecond.  An  *)
(* access token carries whole seconds only.                                *)
(*                                                                         *)
(* A definition whose name begins with Mutant stands for a plausible bug   *)
(* in the definition below it.  No action uses it.                         *)
(***************************************************************************)
EXTENDS Integers, Sequences, FiniteSets

CONSTANTS
  Worker,        \* requests the API can have in flight at once
  None,          \* null
  Load,          \* the operations the clients of this instance send
  SecondLength,  \* stamps in a second
  MaxTime,       \* bound on the clock
  MaxRequests    \* bound on the requests ever sent

LinkKind == {"reset", "verify"}
Operation == {"register", "login", "refresh", "select", "logout", "everywhere",
              "reset", "verify", "socket", "invite", "member", "clock"}
Time == 0 .. MaxTime

ASSUME SessionsAssumption ==
  /\ None \notin Int
  /\ Load \subseteq Operation
  /\ SecondLength \in Nat \ {0}
  /\ MaxTime \in Nat /\ MaxRequests \in Nat

VARIABLES
  account,     \* does the person have an account?
  member,      \* the membership in the restaurant
  validFrom,   \* users.sessions_valid_from
  tokens,      \* refresh tokens, in the order they were inserted
  access,      \* access tokens handed out
  sockets,     \* sockets in the tenant's room
  links,       \* password reset and email verification links
  now,         \* the clock
  req,         \* what each worker is in the middle of
  regressed,   \* has a sign-out put the epoch back?
  forked,      \* families of which a consumed token was consumed again
  sent         \* requests sent so far

person == <<account, member>>
session == <<validFrom, tokens, access, forked, regressed>>
sessionVars == <<account, member, validFrom, tokens, access, sockets, links, now,
                 req, regressed, forked, sent>>

Idle == [pc |-> "idle"]

\* A family's id is random; here it is the stamp of the request that began it.
Token == [family : Time, created : Time, revoked : BOOLEAN]
Access == [iat : Time, scoped : BOOLEAN]
Socket == [iat : Time, raced : BOOLEAN]
Link == [kind : LinkKind, used : BOOLEAN, effects : Nat]

SessionRequest ==
  {Idle} \cup
  [pc : {"claims"}, family : Time \cup {None}] \cup
  [pc : {"mint"}, family : Time \cup {None}, scoped : BOOLEAN] \cup
  [pc : {"insert"}, family : Time, created : Time, scoped : BOOLEAN] \cup
  [pc : {"epoch", "claim"}, token : Nat \ {0}, since : Time \cup {None}] \cup
  [pc : {"refuse"}, family : Time] \cup
  [pc : {"select"}, token : Nat] \cup [pc : {"reissue", "retire"}, token : Nat \ {0}] \cup
  [pc : {"sweep", "notify"}] \cup [pc : {"everywhere"}, at : Time] \cup
  [pc : {"link"}, kind : LinkKind] \cup [pc : {"redeem"}, link : Nat \ {0}] \cup
  [pc : {"join"}, iat : Time, raced : BOOLEAN]

SessionInit ==
  /\ account = FALSE /\ member = "NONE"
  /\ validFrom = None
  /\ tokens = <<>> /\ access = {} /\ sockets = {} /\ links = <<>>
  /\ now = 0
  /\ req = [w \in Worker |-> Idle]
  /\ regressed = FALSE /\ forked = {}
  /\ sent = 0

-----------------------------------------------------------------------------
(***************************************************************************)
(* Requests                                                                *)
(***************************************************************************)

\* A request comes in and its handler goes as far as r.
Arrive(w, kind, r) ==
  /\ req[w] = Idle /\ kind \in Load /\ sent < MaxRequests
  /\ req' = [req EXCEPT ![w] = r]
  /\ sent' = sent + 1

Goto(w, r) ==
  /\ req' = [req EXCEPT ![w] = r]
  /\ UNCHANGED sent

End(w) == Goto(w, Idle)

\* new Date(), or the default of a createdAt.
Stamp == now < MaxTime /\ now' = now + 1

\* A request that has announced nothing yet is refused by what is not
\* modelled (an expiry, a rate limit), or fails: its open transaction rolls
\* back, what it committed before stays.
Abort(w) ==
  /\ req[w].pc \notin {"idle", "notify"}
  /\ End(w)
  /\ UNCHANGED <<person, session, sockets, links, now>>

\* The process dies and starts again.
Crash ==
  /\ req # [w \in Worker |-> Idle] \/ sockets # {}
  /\ req' = [w \in Worker |-> Idle]
  /\ sockets' = {}
  /\ UNCHANGED <<person, session, links, now, sent>>

-----------------------------------------------------------------------------
(***************************************************************************)
(* Signing in                                                              *)
(***************************************************************************)

\* register(): an account without a membership; the email is unique.
Register(w) ==
  /\ ~account
  /\ account' = TRUE
  /\ Arrive(w, "register", [pc |-> "mint", family |-> None, scoped |-> FALSE])
  /\ UNCHANGED <<member, session, sockets, links, now>>

\* login(), with the password in force.
Login(w) ==
  /\ account
  /\ Arrive(w, "login", [pc |-> "claims", family |-> None])
  /\ UNCHANGED <<person, session, sockets, links, now>>

\* buildClaims(): scoped to the restaurant while there is an active membership.
Claims(w) ==
  LET r == req[w] IN
  /\ r.pc = "claims"
  /\ Goto(w, [pc |-> "mint", family |-> r.family, scoped |-> member = "ACTIVE"])
  /\ UNCHANGED <<person, session, sockets, links, now>>

\* The session is not told to begin.
MutantFamilyOf(r) == r.family

\* issue(): without a family a new one begins.
FamilyOf(r) == IF r.family = None THEN now' ELSE r.family

\* issue(): the access token is signed and the INSERT of the refresh token
\* sent, in the same millisecond.
Mint(w) ==
  LET r == req[w] IN
  /\ r.pc = "mint"
  /\ Stamp
  /\ Goto(w, [pc |-> "insert", family |-> FamilyOf(r), created |-> now', scoped |-> r.scoped])
  /\ UNCHANGED <<person, session, sockets, links>>

Second(t) == (t \div SecondLength) * SecondLength

\* The INSERT commits, and the pair is handed out.
Insert(w) ==
  LET r == req[w] IN
  /\ r.pc = "insert"
  /\ tokens' = Append(tokens, [family |-> r.family, created |-> r.created,
                               revoked |-> FALSE])
  /\ access' = access \cup {[iat |-> Second(r.created), scoped |-> r.scoped]}
  /\ End(w)
  /\ UNCHANGED <<person, validFrom, forked, regressed, sockets, links, now>>

-----------------------------------------------------------------------------
(***************************************************************************)
(* Refreshing                                                              *)
(***************************************************************************)

\* refresh(), rotate(): the token is looked up.  since is the epoch in force
\* when the request came in (history).
Refresh(w, i) ==
  /\ i \in DOMAIN tokens
  /\ Arrive(w, "refresh",
            IF tokens[i].revoked THEN [pc |-> "refuse", family |-> tokens[i].family]
            ELSE [pc |-> "epoch", token |-> i, since |-> validFrom])
  /\ UNCHANGED <<person, session, sockets, links, now>>

\* Only the age of the token itself.
MutantBegan(i, t) == tokens[i].created < t

\* Did the family of this token begin before t?
Began(i, t) ==
  \E j \in DOMAIN tokens : tokens[j].family = tokens[i].family /\ tokens[j].created < t

\* assertSessionNotRevoked()
Epoch(w) ==
  LET r == req[w] IN
  /\ r.pc = "epoch"
  /\ Goto(w, IF validFrom # None /\ Began(r.token, validFrom)
             THEN [pc |-> "refuse", family |-> tokens[r.token].family]
             ELSE [pc |-> "claim", token |-> r.token, since |-> r.since])
  /\ UNCHANGED <<person, session, sockets, links, now>>

Revoked(chosen) ==
  [i \in DOMAIN tokens |-> IF i \in chosen THEN [tokens[i] EXCEPT !.revoked = TRUE]
                           ELSE tokens[i]]

\* revokeFamily(), after a reuse or by a sign-out.
Refuse(w) ==
  LET r == req[w] IN
  /\ r.pc = "refuse"
  /\ tokens' = Revoked({i \in DOMAIN tokens : tokens[i].family = r.family})
  /\ End(w)
  /\ UNCHANGED <<person, validFrom, access, forked, regressed, sockets, links, now>>

\* The update names the token by its id alone.
MutantClaimable(i) == TRUE

\* ... where revoked_at is null.
Claimable(i) == ~tokens[i].revoked

\* rotate(): one conditional update consumes the token.
Claim(w) ==
  LET r == req[w] IN
  /\ r.pc = "claim"
  /\ IF Claimable(r.token)
     THEN /\ tokens' = Revoked({r.token})
          /\ Goto(w, [pc |-> "claims", family |-> tokens[r.token].family])
     ELSE End(w) /\ UNCHANGED tokens
  /\ UNCHANGED <<person, validFrom, access, forked, regressed, sockets, links, now>>

-----------------------------------------------------------------------------
(***************************************************************************)
(* Selecting a restaurant                                                  *)
(***************************************************************************)

\* A token from the same second is let in.
MutantFresh(iat) == validFrom # None => iat + SecondLength > validFrom

\* assertAccessTokenNotStale(): whole seconds against milliseconds.
Fresh(iat) == validFrom # None => iat >= validFrom

\* selectRestaurant(), with an access token and, from the cookie, a refresh
\* token (or 0).
Select(w, a, i) ==
  /\ a \in access /\ Fresh(a.iat)
  /\ i \in {0} \cup DOMAIN tokens
  /\ Arrive(w, "select", [pc |-> "select", token |-> i])
  /\ UNCHANGED <<person, session, sockets, links, now>>

SelectMember(w) ==
  LET r == req[w] IN
  /\ r.pc = "select"
  /\ IF member # "ACTIVE" THEN End(w)
     ELSE Goto(w, IF r.token = 0 THEN [pc |-> "mint", family |-> None, scoped |-> TRUE]
                  ELSE [pc |-> "reissue", token |-> r.token])
  /\ UNCHANGED <<person, session, sockets, links, now>>

\* rotateForReissue(): a token that is revoked already is no reuse here ...
Reissue(w) ==
  LET r == req[w] IN
  /\ r.pc = "reissue"
  /\ Goto(w, IF tokens[r.token].revoked THEN [pc |-> "mint", family |-> None, scoped |-> TRUE]
             ELSE [pc |-> "retire", token |-> r.token])
  /\ UNCHANGED <<person, session, sockets, links, now>>

\* ... and the update does not ask again.
Retire(w) ==
  LET r == req[w]
      family == tokens[r.token].family
  IN
  /\ r.pc = "retire"
  /\ tokens' = Revoked({r.token})
  /\ forked' = IF tokens[r.token].revoked THEN forked \cup {family} ELSE forked
  /\ Goto(w, [pc |-> "mint", family |-> family, scoped |-> TRUE])
  /\ UNCHANGED <<person, validFrom, access, regressed, sockets, links, now>>

-----------------------------------------------------------------------------
(***************************************************************************)
(* Signing out                                                             *)
(***************************************************************************)

\* logout(): this token only.
Logout(w, i) ==
  /\ i \in DOMAIN tokens
  /\ Arrive(w, "logout", Idle)
  /\ tokens' = Revoked({i})
  /\ UNCHANGED <<person, validFrom, access, forked, regressed, sockets, links, now>>

\* logoutAll()
LogoutAll(w) ==
  /\ access # {}
  /\ Arrive(w, "everywhere", [pc |-> "sweep"])
  /\ UNCHANGED <<person, session, sockets, links, now>>

\* revokeAllForUser(): the instant is taken first ...
Sweep(w) ==
  /\ req[w].pc = "sweep"
  /\ Stamp
  /\ Goto(w, [pc |-> "everywhere", at |-> now'])
  /\ UNCHANGED <<person, session, sockets, links>>

\* ... one transaction sets the epoch, to an earlier one than it was if a
\* later sign-out has overtaken this one, and revokes what there is ...
Everywhere(w) ==
  LET r == req[w] IN
  /\ r.pc = "everywhere"
  /\ validFrom' = r.at
  /\ regressed' = (regressed \/ (validFrom # None /\ r.at < validFrom))
  /\ tokens' = Revoked(DOMAIN tokens)
  /\ Goto(w, [pc |-> "notify"])
  /\ UNCHANGED <<person, access, forked, sockets, links, now>>

\* ... and then the gateway drops the sockets it knows: not those that are
\* on their way in.
Notify(w) ==
  /\ req[w].pc = "notify"
  /\ sockets' = {}
  /\ req' = [v \in Worker |-> IF v = w THEN Idle
                              ELSE IF req[v].pc = "join" THEN [req[v] EXCEPT !.raced = TRUE]
                              ELSE req[v]]
  /\ UNCHANGED <<person, session, links, now, sent>>

-----------------------------------------------------------------------------
(***************************************************************************)
(* Links                                                                   *)
(***************************************************************************)

\* emailVerifiedAt
Verified == \E i \in DOMAIN links : links[i].kind = "verify" /\ links[i].effects > 0

\* requestPasswordReset(), issueVerification(): outstanding links are spent,
\* then a new one is made.  register() starts the second by itself.
RequestLink(w, kind) ==
  /\ account
  /\ kind = "verify" => ~Verified
  /\ Arrive(w, kind, [pc |-> "link", kind |-> kind])
  /\ links' = [i \in DOMAIN links |-> IF links[i].kind = kind
                                      THEN [links[i] EXCEPT !.used = TRUE] ELSE links[i]]
  /\ UNCHANGED <<person, session, sockets, now>>

CreateLink(w) ==
  LET r == req[w] IN
  /\ r.pc = "link"
  /\ links' = Append(links, [kind |-> r.kind, used |-> FALSE, effects |-> 0])
  /\ End(w)
  /\ UNCHANGED <<person, session, sockets, now>>

\* resetPassword() refuses a used link at once, verifyEmail() goes on.
UseLink(w, i) ==
  /\ i \in DOMAIN links
  /\ links[i].used => links[i].kind = "verify"
  /\ Arrive(w, links[i].kind, [pc |-> "redeem", link |-> i])
  /\ UNCHANGED <<person, session, sockets, links, now>>

\* What was read before the password was hashed is believed.
MutantRedeemable(i) == TRUE

\* ... where used_at is null.
Redeemable(i) == ~links[i].used

\* The link is consumed and takes effect in one transaction; a new password
\* signs out everywhere, afterwards.
Redeem(w) ==
  LET i == req[w].link IN
  /\ req[w].pc = "redeem"
  /\ IF Redeemable(i)
     THEN /\ links' = [links EXCEPT ![i] = [kind |-> links[i].kind, used |-> TRUE,
                                            effects |-> links[i].effects + 1]]
          /\ IF links[i].kind = "reset" THEN Goto(w, [pc |-> "sweep"]) ELSE End(w)
     ELSE End(w) /\ UNCHANGED links
  /\ UNCHANGED <<person, session, sockets, now>>

-----------------------------------------------------------------------------
(***************************************************************************)
(* Sockets                                                                 *)
(***************************************************************************)

\* handleConnection(): a scoped access token that is not stale ...
Connect(w, a) ==
  /\ a \in access /\ a.scoped /\ Fresh(a.iat)
  /\ Arrive(w, "socket", [pc |-> "join", iat |-> a.iat, raced |-> FALSE])
  /\ UNCHANGED <<person, session, sockets, links, now>>

\* ... joins the room and is registered.
Join(w) ==
  LET r == req[w] IN
  /\ r.pc = "join"
  /\ sockets' = sockets \cup {[iat |-> r.iat, raced |-> r.raced]}
  /\ End(w)
  /\ UNCHANGED <<person, session, links, now>>

\* handleDisconnect()
Disconnect(s) ==
  /\ s \in sockets
  /\ sockets' = sockets \ {s}
  /\ UNCHANGED <<person, session, links, now, req, sent>>

-----------------------------------------------------------------------------
SessionStep(w) ==
  \/ Abort(w)
  \/ Claims(w) \/ Mint(w) \/ Insert(w)
  \/ Epoch(w) \/ Refuse(w) \/ Claim(w)
  \/ SelectMember(w) \/ Reissue(w) \/ Retire(w)
  \/ Sweep(w) \/ Everywhere(w) \/ Notify(w)
  \/ CreateLink(w) \/ Redeem(w)
  \/ Join(w)

SessionArrival(w) ==
  \/ Register(w) \/ Login(w) \/ LogoutAll(w)
  \/ \E i \in DOMAIN tokens : Refresh(w, i) \/ Logout(w, i)
  \/ \E a \in access, i \in {0} \cup DOMAIN tokens : Select(w, a, i)
  \/ \E kind \in LinkKind : RequestLink(w, kind)
  \/ \E i \in DOMAIN links : UseLink(w, i)
  \/ \E a \in access : Connect(w, a)

SessionNext ==
  \/ \E w \in Worker : SessionStep(w) \/ SessionArrival(w)
  \/ Crash
  \/ \E s \in sockets : Disconnect(s)

-----------------------------------------------------------------------------
(***************************************************************************)
(* Properties                                                              *)
(***************************************************************************)

\* A refresh that comes in under an epoch never renews a session that began
\* before it, though replacements may have been inserted after the sweep
\* (assertSessionNotRevoked: "The family, not the token, is the unit").  Two
\* sign-outs that overlap can put the epoch back, and are left out.
SignedOutStaysOut ==
  ~regressed =>
    \A w \in Worker :
      req[w].pc = "claim" /\ req[w].since # None =>
        \A i \in DOMAIN tokens :
          tokens[i].family = tokens[req[w].token].family => tokens[i].created >= req[w].since

\* The requests that will insert the next token of a family.
Renews(w, f) == req[w].pc \in {"claims", "mint", "insert"} /\ req[w].family = f
Live(i, f) == i \in DOMAIN tokens /\ tokens[i].family = f /\ ~tokens[i].revoked

\* "Two simultaneous refreshes of the same token resolve to exactly one
\* winner" (token.service.ts:114): a session has one live token or one on its
\* way and never both, unless selectRestaurant consumed a token that another
\* request had consumed since it was read.
FamilyStaysSingle ==
  \A f \in Time \ forked :
    /\ \A i, j \in DOMAIN tokens : Live(i, f) /\ Live(j, f) => i = j
    /\ \A v, w \in Worker : Renews(v, f) /\ Renews(w, f) => v = w
    /\ \A i \in DOMAIN tokens, w \in Worker : ~(Live(i, f) /\ Renews(w, f))

\* A socket that streams with an access token from before the last sign-out
\* was on its way in when the gateway was told (onSessionsRevoked).
StaleSocketsWereJoining ==
  \A s \in sockets :
    validFrom # None /\ s.iat < validFrom =>
      s.raced \/ \E w \in Worker : req[w].pc = "notify"
=============================================================================
