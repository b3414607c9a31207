------------------------------ MODULE Accounts ------------------------------
(***************************************************************************)
(* Signing in and staying signed in: auth.service.ts, session.service.ts,  *)
(* session.guard.ts, verification.service.ts, discord-auth.*.ts,           *)
(* discord-link.service.ts and the lifecycle of users.service.ts.          *)
(*                                                                         *)
(* A login checks the credentials in one statement and makes the session   *)
(* in a later one.  A request resolves its session in two statements, then *)
(* runs as its user; connecting and disconnecting Discord are sequences of *)
(* single statements without a transaction, beside sync jobs that work     *)
(* with the links they have read (RoleSync has their detail).  A password  *)
(* is the number of resets it went through; rows that may be deleted and   *)
(* made again have a number.  Tokens and cookies are unguessable: holding  *)
(* one is naming its row.  Cookies' CSRF check, emails and limits per      *)
(* address are left out.                                                   *)
(***************************************************************************)
EXTENDS Naturals, FiniteSets

CONSTANTS
  User, Discord,    \* users of Patrice, accounts of Discord
  Session, Token, Request,
  None,
  RequireVerified,  \* the setting requireVerifiedEmailToLogIn
  MaxStarts,        \* bound on requests
  MaxEvents         \* bound on lifecycle changes, expiries, emails and jobs

\* Rows, as far as they matter here, and the progress of requests.
PasswordRow == [resets : Nat, verified : BOOLEAN]
DiscordRow  == [account : Discord, row : Nat]
SessionRow  == [user : User, revoked : BOOLEAN, idle : BOOLEAN, over : BOOLEAN, doubt : Nat]
TokenRow    == [user : User, kind : {"verification", "reset"}, used : BOOLEAN, over : BOOLEAN]

MaybeDiscordRow == {None} \cup DiscordRow

OfUser        == [kind : {"login", "user"}, user : User]
OfSession     == [kind : {"resolve"}, session : Session]
OfToken       == [kind : {"verify", "reset"}, token : Token]
Connection    == [kind : {"connect"}, user : User, account : Discord, known : BOOLEAN]
                 \cup [kind : {"linking"}, user : User, account : Discord]
Disconnection == [kind : {"found", "forget"}, user : User, identity : MaybeDiscordRow]
                 \cup [kind : {"drop"}, user : User, identity : MaybeDiscordRow,
                       link : MaybeDiscordRow]

Progress == OfUser \cup OfSession \cup OfToken \cup Connection \cup Disconnection

ASSUME NoneAssumption     == None \notin PasswordRow \cup DiscordRow \cup SessionRow
                                        \cup TokenRow \cup Progress
ASSUME VerifiedAssumption == RequireVerified \in BOOLEAN
ASSUME BoundAssumption    == MaxStarts \in Nat /\ MaxEvents \in Nat

VARIABLES
  life,             \* life[u]: "active", "deactivated" or "retired"
  password,         \* password[u]: None or [resets, verified]
  identity,         \* identity[u]: None or the Discord sign-in [account, row]
  link,             \* link[u]: None or the integration link [account, row]
  role,             \* users that hold an integration role
  job,              \* users whose link a sync job holds
  session,          \* session[s]: None or its row, with the resets and retirements before it
  token,            \* token[t]: None or its row
  req,              \* req[r]: None or the progress of the request
  doubt,            \* doubt[u]: history: resets and retirements of the user
  crossed,          \* history: users disconnected while connecting or synced
  rows, starts, events

people   == <<life, password>>
discord  == <<identity, link, role, job, crossed, rows>>
bounds   == <<starts, events>>
vars == <<people, discord, session, token, req, doubt, bounds>>

Happens == events < MaxEvents /\ events' = events + 1 /\ starts' = starts

Starts(r, state) ==
  /\ req[r] = None
  /\ starts < MaxStarts /\ starts' = starts + 1 /\ events' = events
  /\ req' = [req EXCEPT ![r] = state]

Goes(r, state) == req' = [req EXCEPT ![r] = state] /\ UNCHANGED bounds

At(r, kind) == req[r] # None /\ req[r].kind = kind

\* Any check fails, the client goes away or the process stops.
Ends(r) ==
  /\ req[r] # None /\ Goes(r, None)
  /\ UNCHANGED <<people, discord, session, token, doubt>>

-----------------------------------------------------------------------------
(* Logging in *)

verifyPassword(r, u) ==
  /\ life[u] = "active" /\ password[u] # None
  /\ RequireVerified => password[u].verified
  /\ Starts(r, [kind |-> "login", user |-> u])
  /\ UNCHANGED <<people, discord, session, token, doubt>>

completeLogin(r, d) ==
  /\ \E u \in User : /\ identity[u] # None /\ identity[u].account = d
                     /\ life[u] = "active"
                     /\ Starts(r, [kind |-> "login", user |-> u])
  /\ UNCHANGED <<people, discord, session, token, doubt>>

\* Nothing of the user is read again.
CreateSession(r, s) ==
  LET u == req[r].user IN
  /\ At(r, "login") /\ session[s] = None
  /\ session' = [session EXCEPT ![s] = [user |-> u, revoked |-> FALSE, idle |-> FALSE,
                                        over |-> FALSE, doubt |-> doubt[u]]]
  /\ Goes(r, None)
  /\ UNCHANGED <<people, discord, token, doubt>>

-----------------------------------------------------------------------------
(* Sessions *)

Usable(s) == session[s] # None /\ ~session[s].revoked /\ ~session[s].idle /\ ~session[s].over

\* Mutant: only the absolute end of a session is looked at.
ResolveIdle(r, s) ==
  /\ session[s] # None /\ ~session[s].revoked /\ ~session[s].over
  /\ life[session[s].user] = "active"
  /\ Starts(r, [kind |-> "resolve", session |-> s])
  /\ UNCHANGED <<people, discord, session, token, doubt>>

resolve(r, s) ==
  /\ Usable(s) /\ life[session[s].user] = "active"
  /\ Starts(r, [kind |-> "resolve", session |-> s])
  /\ UNCHANGED <<people, discord, session, token, doubt>>

\* The idle window slides whatever happened since the session was read.
Slide(r) ==
  /\ At(r, "resolve")
  /\ session' = [session EXCEPT ![req[r].session].idle = FALSE]
  /\ Goes(r, [kind |-> "user", user |-> session[req[r].session].user])
  /\ UNCHANGED <<people, discord, token, doubt>>

revokeByToken(s) ==
  /\ session[s] # None /\ ~session[s].revoked /\ Happens
  /\ session' = [session EXCEPT ![s].revoked = TRUE]
  /\ UNCHANGED <<people, discord, token, req, doubt>>

IdleEnd(s) ==
  /\ Usable(s) /\ Happens
  /\ session' = [session EXCEPT ![s].idle = TRUE]
  /\ UNCHANGED <<people, discord, token, req, doubt>>

AbsoluteEnd(s) ==
  /\ Usable(s) /\ Happens
  /\ session' = [session EXCEPT ![s].over = TRUE]
  /\ UNCHANGED <<people, discord, token, req, doubt>>

\* Mutant: only sessions that would still resolve are revoked.
RevokeUsable(u) ==
  [s \in Session |-> IF Usable(s) /\ session[s].user = u
                     THEN [session[s] EXCEPT !.revoked = TRUE] ELSE session[s]]

revokeAllForUser(u) ==
  [s \in Session |-> IF session[s] # None /\ session[s].user = u
                     THEN [session[s] EXCEPT !.revoked = TRUE] ELSE session[s]]

-----------------------------------------------------------------------------
(* Email verification and password reset *)

Issue(t, u, kind) ==
  /\ token[t] = None
  /\ token' = [token EXCEPT ![t] = [user |-> u, kind |-> kind, used |-> FALSE, over |-> FALSE]]

\* Asked for at registration or later.
issueVerification(u, t) ==
  /\ life[u] = "active" /\ password[u] # None /\ ~password[u].verified
  /\ Happens /\ Issue(t, u, "verification")
  /\ UNCHANGED <<people, discord, session, req, doubt>>

requestPasswordReset(u, t) ==
  /\ life[u] = "active"
  /\ Happens /\ Issue(t, u, "reset")
  /\ UNCHANGED <<people, discord, session, req, doubt>>

TokenExpires(t) ==
  /\ token[t] # None /\ ~token[t].over /\ Happens
  /\ token' = [token EXCEPT ![t].over = TRUE]
  /\ UNCHANGED <<people, discord, session, req, doubt>>

consumableToken(t, kind) ==
  token[t] # None /\ token[t].kind = kind /\ ~token[t].used /\ ~token[t].over

BeginVerification(r, t) ==
  /\ consumableToken(t, "verification")
  /\ Starts(r, [kind |-> "verify", token |-> t])
  /\ UNCHANGED <<people, discord, session, token, doubt>>

\* The token is consumed without looking whether it still can be.
confirmVerification(r) ==
  LET t == req[r].token
      u == token[t].user IN
  /\ At(r, "verify")
  /\ token' = [token EXCEPT ![t].used = TRUE]
  /\ password' = [password EXCEPT ![u] = IF @ = None THEN None ELSE [@ EXCEPT !.verified = TRUE]]
  /\ Goes(r, None)
  /\ UNCHANGED <<life, discord, session, doubt>>

BeginReset(r, t) ==
  /\ consumableToken(t, "reset")
  /\ password[token[t].user] # None /\ password[token[t].user].verified
  /\ Starts(r, [kind |-> "reset", token |-> t])
  /\ UNCHANGED <<people, discord, session, token, doubt>>

confirmPasswordReset(r) ==
  LET t == req[r].token
      u == token[t].user IN
  /\ At(r, "reset")
  /\ token' = [token EXCEPT ![t].used = TRUE]
  /\ password' = [password EXCEPT ![u].resets = @ + 1]
  /\ session' = revokeAllForUser(u)
  /\ doubt' = [doubt EXCEPT ![u] = @ + 1]
  /\ Goes(r, None)
  /\ UNCHANGED <<life, discord>>

-----------------------------------------------------------------------------
(* The lifecycle of users *)

\* Sessions are kept: they resolve again after a reactivation.
deactivate(u) ==
  /\ life[u] # "deactivated" /\ Happens
  /\ life' = [life EXCEPT ![u] = "deactivated"]
  /\ UNCHANGED <<password, discord, session, token, req, doubt>>

reactivate(u) ==
  /\ life[u] # "active" /\ Happens
  /\ life' = [life EXCEPT ![u] = "active"]
  /\ UNCHANGED <<password, discord, session, token, req, doubt>>

retire(u) ==
  /\ life[u] # "retired" /\ Happens
  /\ life' = [life EXCEPT ![u] = "retired"]
  /\ session' = revokeAllForUser(u)
  /\ doubt' = [doubt EXCEPT ![u] = @ + 1]
  /\ UNCHANGED <<password, discord, token, req>>

revive(u) ==
  /\ life[u] = "retired" /\ Happens
  /\ life' = [life EXCEPT ![u] = "active"]
  /\ UNCHANGED <<password, discord, session, token, req, doubt>>

-----------------------------------------------------------------------------
(* Connecting Discord *)

Connecting(u)    == \E r \in Request : req[r] # None /\ req[r].kind \in {"connect", "linking"}
                                       /\ req[r].user = u
Disconnecting(u) == \E r \in Request : req[r] # None /\ req[r].kind \in {"found", "drop", "forget"}
                                       /\ req[r].user = u

Owner(rowsOf, d) == {u \in User : rowsOf[u] # None /\ rowsOf[u].account = d}

Crosses(u, with) == crossed' = IF with THEN crossed \cup {u} ELSE crossed

\* Of a request that runs as the user who started it: the account's identity is
\* free or the user's own.
BeginLink(r, d) ==
  LET u == req[r].user IN
  /\ At(r, "user")
  /\ Owner(identity, d) \subseteq {u}
  /\ Goes(r, [kind |-> "connect", user |-> u, account |-> d, known |-> Owner(identity, d) # {}])
  /\ Crosses(u, Disconnecting(u))
  /\ UNCHANGED <<people, identity, link, role, job, rows, session, token, doubt>>

\* The unique indexes leave one identity to the account and to the user.
CreateIdentity(r) ==
  LET u == req[r].user
      d == req[r].account IN
  /\ At(r, "connect")
  /\ IF req[r].known THEN UNCHANGED <<identity, rows>>
     ELSE /\ identity[u] = None /\ Owner(identity, d) = {}
          /\ identity' = [identity EXCEPT ![u] = [account |-> d, row |-> rows]]
          /\ rows' = rows + 1
  /\ Goes(r, [kind |-> "linking", user |-> u, account |-> d])
  /\ UNCHANGED <<people, link, role, job, crossed, session, token, doubt>>

\* An existing link of the user keeps its account.
UpsertLink(r) ==
  LET u == req[r].user
      d == req[r].account IN
  /\ At(r, "linking")
  /\ Owner(link, d) \subseteq {u}
  /\ IF link[u] # None THEN UNCHANGED <<link, rows>>
     ELSE /\ link' = [link EXCEPT ![u] = [account |-> d, row |-> rows]]
          /\ rows' = rows + 1
  /\ Goes(r, None)
  /\ UNCHANGED <<people, identity, role, job, crossed, session, token, doubt>>

-----------------------------------------------------------------------------
(* Disconnecting Discord *)

\* Mutant: the last way in may go.
ReadAnyIdentity(r) ==
  LET u == req[r].user IN
  /\ At(r, "user")
  /\ Goes(r, [kind |-> "found", user |-> u, identity |-> identity[u]])
  /\ Crosses(u, Connecting(u) \/ u \in job)
  /\ UNCHANGED <<people, identity, link, role, job, rows, session, token, doubt>>

ReadIdentities(r) ==
  LET u == req[r].user IN
  /\ At(r, "user")
  /\ identity[u] # None => password[u] # None
  /\ Goes(r, [kind |-> "found", user |-> u, identity |-> identity[u]])
  /\ Crosses(u, Connecting(u) \/ u \in job)
  /\ UNCHANGED <<people, identity, link, role, job, rows, session, token, doubt>>

ReadLinks(r) ==
  LET u == req[r].user IN
  /\ At(r, "found")
  /\ ~(req[r].identity = None /\ link[u] = None)
  /\ Goes(r, [kind |-> "drop", user |-> u, identity |-> req[r].identity, link |-> link[u]])
  /\ UNCHANGED <<people, discord, session, token, doubt>>

\* Mutant: the roles of a link outlive it.
DropLinkOnly(r) ==
  LET u == req[r].user IN
  /\ At(r, "drop")
  /\ req[r].link # None => link[u] = req[r].link
  /\ link' = [link EXCEPT ![u] = IF req[r].link = None THEN @ ELSE None]
  /\ Goes(r, [kind |-> "forget", user |-> u, identity |-> req[r].identity])
  /\ UNCHANGED <<people, identity, role, job, crossed, rows, session, token, doubt>>

\* Roles first, one statement each; then the link, by the row it was read from.
DropRoles(r) ==
  LET u == req[r].user IN
  /\ At(r, "drop") /\ u \in role /\ req[r].link # None
  /\ role' = role \ {u}
  /\ UNCHANGED <<people, identity, link, job, crossed, rows, session, token, req, doubt, bounds>>

DropLink(r) ==
  LET u == req[r].user IN
  /\ At(r, "drop")
  /\ req[r].link # None => link[u] = req[r].link /\ u \notin role
  /\ link' = [link EXCEPT ![u] = IF req[r].link = None THEN @ ELSE None]
  /\ Goes(r, [kind |-> "forget", user |-> u, identity |-> req[r].identity])
  /\ UNCHANGED <<people, identity, role, job, crossed, rows, session, token, doubt>>

\* Mutant: the row is kept without its account.
ClearIdentity(r) ==
  LET u == req[r].user IN
  /\ At(r, "forget")
  /\ req[r].identity # None => identity[u] = req[r].identity
  /\ identity' = [identity EXCEPT ![u] = IF req[r].identity = None THEN @
                                         ELSE [@ EXCEPT !.account = None]]
  /\ Goes(r, None)
  /\ UNCHANGED <<people, link, role, job, crossed, rows, session, token, doubt>>

DropIdentity(r) ==
  LET u == req[r].user IN
  /\ At(r, "forget")
  /\ req[r].identity # None => identity[u] = req[r].identity
  /\ identity' = [identity EXCEPT ![u] = IF req[r].identity = None THEN @ ELSE None]
  /\ Goes(r, None)
  /\ UNCHANGED <<people, link, role, job, crossed, rows, session, token, doubt>>

-----------------------------------------------------------------------------
(* Sync jobs *)

JobReads ==
  /\ job = {} /\ Happens
  /\ \E u \in User : link[u] # None
  /\ job' = {u \in User : link[u] # None}
  /\ crossed' = crossed \cup {u \in job' : Disconnecting(u)}
  /\ UNCHANGED <<people, identity, link, role, rows, session, token, req, doubt>>

JobGrants(u) ==
  /\ u \in job /\ u \notin role
  /\ role' = role \cup {u}
  /\ UNCHANGED <<people, identity, link, job, crossed, rows, session, token, req, doubt, bounds>>

JobEnds ==
  /\ job # {} /\ job' = {}
  /\ UNCHANGED <<people, identity, link, role, crossed, rows, session, token, req, doubt, bounds>>

-----------------------------------------------------------------------------

\* Users register with a password or with Discord (Invitations).
Init ==
  /\ life = [u \in User |-> "active"]
  /\ \E byPassword \in SUBSET User, d \in [User -> Discord], verified \in SUBSET User :
       /\ verified \subseteq byPassword
       /\ \A u, v \in User \ byPassword : d[u] = d[v] => u = v
       /\ password = [u \in User |-> IF u \in byPassword
                                     THEN [resets |-> 0, verified |-> u \in verified] ELSE None]
       /\ identity = [u \in User |-> IF u \in byPassword THEN None
                                     ELSE [account |-> d[u], row |-> 0]]
  /\ link = [u \in User |-> None] /\ role = {} /\ job = {}
  /\ session = [s \in Session |-> None] /\ token = [t \in Token |-> None]
  /\ req = [r \in Request |-> None]
  /\ doubt = [u \in User |-> 0] /\ crossed = {}
  /\ rows = 1 /\ starts = 0 /\ events = 0

Handles(r) ==
  \/ \E u \in User : verifyPassword(r, u)
  \/ \E d \in Discord : completeLogin(r, d) \/ BeginLink(r, d)
  \/ \E s \in Session : CreateSession(r, s) \/ resolve(r, s)
  \/ \E t \in Token : BeginVerification(r, t) \/ BeginReset(r, t)
  \/ Slide(r) \/ confirmVerification(r) \/ confirmPasswordReset(r)
  \/ CreateIdentity(r) \/ UpsertLink(r)
  \/ ReadIdentities(r) \/ ReadLinks(r) \/ DropRoles(r) \/ DropLink(r) \/ DropIdentity(r)
  \/ Ends(r)

Next ==
  \/ \E r \in Request : Handles(r)
  \/ \E s \in Session : revokeByToken(s) \/ IdleEnd(s) \/ AbsoluteEnd(s)
  \/ \E t \in Token : TokenExpires(t) \/ \E u \in User : issueVerification(u, t) \/ requestPasswordReset(u, t)
  \/ \E u \in User : deactivate(u) \/ reactivate(u) \/ retire(u) \/ revive(u) \/ JobGrants(u)
  \/ JobReads \/ JobEnds

Spec == Init /\ [][Next]_vars

-----------------------------------------------------------------------------
(* What the account page shows *)

getMe(u) ==
  [emailVerified  |-> password[u] = None \/ password[u].verified,
   authMethods    |-> {m \in {"password", "discord"} :
                         IF m = "password" THEN password[u] # None ELSE identity[u] # None},
   hasDiscordLink |-> link[u] # None]

-----------------------------------------------------------------------------
(* Properties *)

TypeOK ==
  /\ life \in [User -> {"active", "deactivated", "retired"}]
  /\ password \in [User -> {None} \cup PasswordRow]
  /\ identity \in [User -> MaybeDiscordRow] /\ link \in [User -> MaybeDiscordRow]
  /\ role \subseteq User /\ job \subseteq User /\ crossed \subseteq User
  /\ session \in [Session -> {None} \cup SessionRow]
  /\ token \in [Token -> {None} \cup TokenRow]
  /\ req \in [Request -> {None} \cup Progress]
  /\ doubt \in [User -> Nat] /\ rows \in Nat
  /\ starts \in 0..MaxStarts /\ events \in 0..MaxEvents

\* A reset of the password and a retirement end every session there was, also
\* one that a request is sliding at that moment or that had gone idle
\* (verification.service.ts 131-141, users.service.ts 216-220).
DoubtEndsSessions ==
  \A s \in Session : session[s] # None /\ ~session[s].revoked
                       => session[s].doubt = doubt[session[s].user]

\* A session that has ended, and that no request had read before, stays ended
\* and serves no request: the idle window slides for usable sessions only
\* (session.service.ts 98-110).
Ended(s) ==
  /\ session[s] # None /\ ~Usable(s)
  /\ \A r \in Request : At(r, "resolve") => req[r].session # s

EndIsFinal == [][\A s \in Session : Ended(s) => Ended(s)']_vars

\* Whatever connects and disconnects at once, nobody loses the last way to
\* sign in (discord-link.service.ts 153-159).
KeepsSignIn == \A u \in User : getMe(u).authMethods # {}

\* A user shown as connected signs in with the very account whose roles are
\* synced, and without a link keeps no synced role, unless a disconnection ran
\* beside a connection or a sync job (discord-link.service.ts 38-110, 163-211).
ConnectedMeansBoth ==
  \A u \in User \ crossed :
    /\ getMe(u).hasDiscordLink => /\ "discord" \in getMe(u).authMethods
                                  /\ identity[u].account = link[u].account
    /\ u \in role => link[u] # None
=============================================================================
