---------------------------- MODULE AccountsProofs ----------------------------
(***************************************************************************)
(* Sessions, ways to sign in and the Discord link of any number of users,  *)
(* with any number of requests at once.                                    *)
(*                                                                         *)
(* A request acts on what it read some steps ago.  What makes that safe is *)
(* collected in Remembered: rows it names are still there, for none is     *)
(* ever deleted, and a password that let a disconnection begin is never    *)
(* taken away.  For Discord (Undisturbed) a user is either connecting or   *)
(* disconnecting, or noted as crossed.                                     *)
(***************************************************************************)
EXTENDS Accounts, TLAPS

Remembered ==
  \A r \in Request : req[r] # None =>
    /\ req[r].kind = "resolve" => session[req[r].session] # None
    /\ req[r].kind \in {"verify", "reset"} => token[req[r].token] # None
    /\ req[r].kind = "reset" => password[token[req[r].token].user] # None
    /\ req[r].kind \in {"found", "drop", "forget"} /\ req[r].identity # None
         => password[req[r].user] # None

WayIn == \A u \in User : password[u] # None \/ identity[u] # None

-----------------------------------------------------------------------------
(* Types *)

LEMMA Shape ==
  ASSUME TypeOK, NEW r \in Request, req[r] # None
  PROVE  /\ req[r].kind \in {"login", "user"} => req[r] \in OfUser
         /\ req[r].kind = "resolve" => req[r] \in OfSession
         /\ req[r].kind \in {"verify", "reset"} => req[r] \in OfToken
         /\ req[r].kind \in {"connect", "linking"}
              => req[r] \in Connection /\ req[r].user \in User /\ req[r].account \in Discord
         /\ req[r].kind \in {"found", "drop", "forget"}
              => /\ req[r] \in Disconnection /\ req[r].user \in User
                 /\ req[r].identity \in MaybeDiscordRow
         /\ req[r].kind = "drop" => req[r].link \in MaybeDiscordRow
<1>1. req[r] \in Progress BY DEF TypeOK
<1>2. CASE req[r] \in OfUser BY <1>2 DEF OfUser
<1>3. CASE req[r] \in OfSession BY <1>3 DEF OfSession
<1>4. CASE req[r] \in OfToken BY <1>4 DEF OfToken
<1>5. CASE req[r] \in Connection BY <1>5 DEF Connection
<1>6. CASE req[r] \in Disconnection BY <1>6 DEF Disconnection
<1>7. QED BY <1>1, <1>2, <1>3, <1>4, <1>5, <1>6 DEF Progress

LEMMA StartsTyped ==
  ASSUME TypeOK, NEW r \in Request, NEW p \in Progress, Starts(r, p)
  PROVE  /\ req' \in [Request -> {None} \cup Progress]
         /\ starts' \in 0..MaxStarts /\ events' \in 0..MaxEvents
BY BoundAssumption DEF TypeOK, Starts

LEMMA GoesTyped ==
  ASSUME TypeOK, NEW r \in Request, NEW p \in {None} \cup Progress, Goes(r, p)
  PROVE  /\ req' \in [Request -> {None} \cup Progress]
         /\ starts' \in 0..MaxStarts /\ events' \in 0..MaxEvents
BY DEF TypeOK, Goes, bounds

LEMMA HappensTyped ==
  ASSUME TypeOK, Happens
  PROVE  starts' \in 0..MaxStarts /\ events' \in 0..MaxEvents
BY BoundAssumption DEF TypeOK, Happens

LEMMA RevokedTyped ==
  ASSUME TypeOK, NEW u \in User
  PROVE  revokeAllForUser(u) \in [Session -> {None} \cup SessionRow]
<1>1. ASSUME NEW s \in Session, session[s] # None
      PROVE  [session[s] EXCEPT !.revoked = TRUE] \in SessionRow
  BY <1>1 DEF TypeOK, SessionRow
<1>2. QED BY <1>1 DEF revokeAllForUser, TypeOK

LEMMA TypeInit == Init => TypeOK
<1> SUFFICES ASSUME Init PROVE TypeOK
  OBVIOUS
<1>1. PICK byPassword \in SUBSET User, d \in [User -> Discord], verified \in SUBSET User :
        /\ password = [u \in User |-> IF u \in byPassword
                                      THEN [resets |-> 0, verified |-> u \in verified] ELSE None]
        /\ identity = [u \in User |-> IF u \in byPassword THEN None
                                      ELSE [account |-> d[u], row |-> 0]]
  BY DEF Init
<1>2. password \in [User -> {None} \cup PasswordRow]
  <2>1. ASSUME NEW u \in User PROVE [resets |-> 0, verified |-> u \in verified] \in PasswordRow
    BY DEF PasswordRow
  <2>2. QED BY <1>1, <2>1
<1>3. identity \in [User -> MaybeDiscordRow]
  <2>1. ASSUME NEW u \in User PROVE [account |-> d[u], row |-> 0] \in DiscordRow
    BY DEF DiscordRow
  <2>2. QED BY <1>1, <2>1 DEF MaybeDiscordRow
<1>4. QED BY <1>2, <1>3, BoundAssumption DEF Init, TypeOK, MaybeDiscordRow

\* Signing in, and the sessions.
LEMMA SessionTyped ==
  ASSUME TypeOK, Remembered, NEW r \in Request,
         \/ \E u \in User : verifyPassword(r, u)
         \/ \E d \in Discord : completeLogin(r, d)
         \/ \E s \in Session : CreateSession(r, s) \/ resolve(r, s)
         \/ Slide(r)
  PROVE  TypeOK'
<1>1. ASSUME NEW u \in User, Starts(r, [kind |-> "login", user |-> u]),
             UNCHANGED <<people, discord, session, token, doubt>>
      PROVE  TypeOK'
  <2>1. [kind |-> "login", user |-> u] \in Progress BY DEF Progress, OfUser
  <2>2. QED BY <1>1, <2>1, StartsTyped DEF TypeOK, people, discord
<1>2. ASSUME NEW s \in Session, CreateSession(r, s) PROVE TypeOK'
  <2>1. req[r].user \in User BY <1>2, Shape DEF CreateSession, At, OfUser
  <2>2. [user |-> req[r].user, revoked |-> FALSE, idle |-> FALSE, over |-> FALSE,
         doubt |-> doubt[req[r].user]] \in SessionRow
    BY <2>1 DEF SessionRow, TypeOK
  <2>3. session' \in [Session -> {None} \cup SessionRow] BY <1>2, <2>2 DEF CreateSession, TypeOK
  <2>4. QED BY <1>2, <2>3, GoesTyped DEF CreateSession, TypeOK, people, discord
<1>3. ASSUME NEW s \in Session, resolve(r, s) PROVE TypeOK'
  <2>1. [kind |-> "resolve", session |-> s] \in Progress BY DEF Progress, OfSession
  <2>2. QED BY <1>3, <2>1, StartsTyped DEF resolve, TypeOK, people, discord
<1>4. CASE Slide(r)
  <2>1. PICK s \in Session : s = req[r].session BY <1>4, Shape DEF Slide, At, OfSession
  <2>2. session[s] \in SessionRow BY <1>4, <2>1 DEF Slide, At, Remembered, TypeOK
  <2>3. [session[s] EXCEPT !.idle = FALSE] \in SessionRow BY <2>2 DEF SessionRow
  <2>4. session' \in [Session -> {None} \cup SessionRow] BY <1>4, <2>1, <2>3 DEF Slide, TypeOK
  <2>5. [kind |-> "user", user |-> session[s].user] \in Progress
    BY <2>2 DEF SessionRow, Progress, OfUser
  <2>6. QED BY <1>4, <2>1, <2>4, <2>5, GoesTyped DEF Slide, TypeOK, people, discord
<1>5. QED BY <1>1, <1>2, <1>3, <1>4 DEF verifyPassword, completeLogin

LEMMA SessionEndTyped ==
  ASSUME TypeOK, NEW s \in Session, revokeByToken(s) \/ IdleEnd(s) \/ AbsoluteEnd(s)
  PROVE  TypeOK'
<1>1. session[s] \in SessionRow BY DEF revokeByToken, IdleEnd, AbsoluteEnd, Usable, TypeOK
<1>2. /\ [session[s] EXCEPT !.revoked = TRUE] \in SessionRow
      /\ [session[s] EXCEPT !.idle = TRUE] \in SessionRow
      /\ [session[s] EXCEPT !.over = TRUE] \in SessionRow
  BY <1>1 DEF SessionRow
<1>3. session' \in [Session -> {None} \cup SessionRow]
  BY <1>2 DEF revokeByToken, IdleEnd, AbsoluteEnd, TypeOK
<1>4. Happens /\ UNCHANGED <<people, discord, token, req, doubt>>
  BY DEF revokeByToken, IdleEnd, AbsoluteEnd
<1>5. QED BY <1>3, <1>4, HappensTyped DEF TypeOK, people, discord

LEMMA TokenTyped ==
  ASSUME TypeOK, Remembered, NEW r \in Request,
         \/ \E t \in Token : BeginVerification(r, t) \/ BeginReset(r, t)
         \/ confirmVerification(r) \/ confirmPasswordReset(r)
  PROVE  TypeOK'
<1>1. ASSUME NEW t \in Token, NEW kind \in {"verify", "reset"},
             Starts(r, [kind |-> kind, token |-> t]),
             UNCHANGED <<people, discord, session, token, doubt>>
      PROVE  TypeOK'
  <2>1. [kind |-> kind, token |-> t] \in Progress BY DEF Progress, OfToken
  <2>2. QED BY <1>1, <2>1, StartsTyped DEF TypeOK, people, discord
<1>2. ASSUME NEW t \in Token, NEW u \in User, token[t] # None, t = req[r].token, u = token[t].user,
             token' = [token EXCEPT ![t].used = TRUE], Goes(r, None)
      PROVE  /\ token' \in [Token -> {None} \cup TokenRow]
             /\ req' \in [Request -> {None} \cup Progress]
             /\ starts' \in 0..MaxStarts /\ events' \in 0..MaxEvents
  <2>1. token[t] \in TokenRow BY <1>2 DEF TypeOK
  <2>2. [token[t] EXCEPT !.used = TRUE] \in TokenRow BY <2>1 DEF TokenRow
  <2>3. QED BY <1>2, <2>2, GoesTyped DEF TypeOK
<1>3. ASSUME confirmVerification(r) \/ confirmPasswordReset(r)
      PROVE  \E t \in Token, u \in User : token[t] # None /\ t = req[r].token /\ u = token[t].user
  <2>1. PICK t \in Token : t = req[r].token
    BY <1>3, Shape DEF confirmVerification, confirmPasswordReset, At, OfToken
  <2>2. token[t] # None
    BY <1>3, <2>1 DEF confirmVerification, confirmPasswordReset, At, Remembered
  <2>3. token[t].user \in User BY <2>2 DEF TypeOK, TokenRow
  <2>4. QED BY <2>1, <2>2, <2>3
<1>4. CASE confirmVerification(r)
  <2>1. PICK t \in Token, u \in User : token[t] # None /\ t = req[r].token /\ u = token[t].user
    BY <1>3, <1>4
  <2>2. password[u] # None => [password[u] EXCEPT !.verified = TRUE] \in PasswordRow
    BY DEF TypeOK, PasswordRow
  <2>3. password' \in [User -> {None} \cup PasswordRow]
    BY <1>4, <2>1, <2>2 DEF confirmVerification, TypeOK
  <2>4. QED BY <1>2, <1>4, <2>1, <2>3 DEF confirmVerification, TypeOK, discord
<1>5. CASE confirmPasswordReset(r)
  <2>1. PICK t \in Token, u \in User : token[t] # None /\ t = req[r].token /\ u = token[t].user
    BY <1>3, <1>5
  <2>2. password[u] \in PasswordRow
    BY <1>5, <2>1 DEF confirmPasswordReset, At, Remembered, TypeOK
  <2>3. [password[u] EXCEPT !.resets = @ + 1] \in PasswordRow BY <2>2 DEF PasswordRow
  <2>4. password' \in [User -> {None} \cup PasswordRow]
    BY <1>5, <2>1, <2>3 DEF confirmPasswordReset, TypeOK
  <2>5. session' \in [Session -> {None} \cup SessionRow]
    BY <1>5, <2>1, RevokedTyped DEF confirmPasswordReset
  <2>6. doubt' \in [User -> Nat] BY <1>5, <2>1 DEF confirmPasswordReset, TypeOK
  <2>7. QED BY <1>2, <1>5, <2>1, <2>4, <2>5, <2>6 DEF confirmPasswordReset, TypeOK, discord
<1>6. QED BY <1>1, <1>4, <1>5 DEF BeginVerification, BeginReset

LEMMA TokenRowTyped ==
  ASSUME TypeOK, NEW t \in Token,
         TokenExpires(t) \/ \E u \in User : issueVerification(u, t) \/ requestPasswordReset(u, t)
  PROVE  TypeOK'
<1>1. CASE TokenExpires(t)
  <2>1. token[t] \in TokenRow BY <1>1 DEF TokenExpires, TypeOK
  <2>2. [token[t] EXCEPT !.over = TRUE] \in TokenRow BY <2>1 DEF TokenRow
  <2>3. token' \in [Token -> {None} \cup TokenRow] BY <1>1, <2>2 DEF TokenExpires, TypeOK
  <2>4. QED BY <1>1, <2>3, HappensTyped DEF TokenExpires, TypeOK, people, discord
<1>2. ASSUME NEW u \in User, NEW kind \in {"verification", "reset"}, Issue(t, u, kind), Happens,
             UNCHANGED <<people, discord, session, req, doubt>>
      PROVE  TypeOK'
  <2>1. [user |-> u, kind |-> kind, used |-> FALSE, over |-> FALSE] \in TokenRow BY DEF TokenRow
  <2>2. token' \in [Token -> {None} \cup TokenRow] BY <1>2, <2>1 DEF Issue, TypeOK
  <2>3. QED BY <1>2, <2>2, HappensTyped DEF TypeOK, people, discord
<1>3. QED BY <1>1, <1>2 DEF issueVerification, requestPasswordReset

LEMMA LifeTyped ==
  ASSUME TypeOK, NEW u \in User, deactivate(u) \/ reactivate(u) \/ retire(u) \/ revive(u)
  PROVE  TypeOK'
<1>1. CASE retire(u)
  <2>1. session' \in [Session -> {None} \cup SessionRow] BY <1>1, RevokedTyped DEF retire
  <2>2. life' \in [User -> {"active", "deactivated", "retired"}] /\ doubt' \in [User -> Nat]
    BY <1>1 DEF retire, TypeOK
  <2>3. QED BY <1>1, <2>1, <2>2, HappensTyped DEF retire, TypeOK, discord
<1>2. CASE deactivate(u) \/ reactivate(u) \/ revive(u)
  <2>1. life' \in [User -> {"active", "deactivated", "retired"}]
    BY <1>2 DEF deactivate, reactivate, revive, TypeOK
  <2>2. Happens /\ UNCHANGED <<password, discord, session, token, req, doubt>>
    BY <1>2 DEF deactivate, reactivate, revive
  <2>3. QED BY <2>1, <2>2, HappensTyped DEF TypeOK, discord
<1>3. QED BY <1>1, <1>2

LEMMA ConnectTyped ==
  ASSUME TypeOK, NEW r \in Request,
         (\E d \in Discord : BeginLink(r, d)) \/ CreateIdentity(r) \/ UpsertLink(r)
  PROVE  TypeOK'
<1>1. ASSUME NEW d \in Discord, BeginLink(r, d) PROVE TypeOK'
  <2>1. PICK u \in User : u = req[r].user BY <1>1, Shape DEF BeginLink, At, OfUser
  <2>2. [kind |-> "connect", user |-> u, account |-> d, known |-> Owner(identity, d) # {}]
          \in Progress
    BY DEF Progress, Connection
  <2>3. crossed' \subseteq User BY <1>1, <2>1 DEF BeginLink, Crosses, TypeOK
  <2>4. QED BY <1>1, <2>1, <2>2, <2>3, GoesTyped DEF BeginLink, TypeOK, people
<1>2. CASE CreateIdentity(r)
  <2>1. PICK u \in User, d \in Discord : u = req[r].user /\ d = req[r].account
    BY <1>2, Shape DEF CreateIdentity, At
  <2>2. [account |-> d, row |-> rows] \in MaybeDiscordRow
    BY DEF MaybeDiscordRow, DiscordRow, TypeOK
  <2>3. identity' \in [User -> MaybeDiscordRow] /\ rows' \in Nat
    BY <1>2, <2>1, <2>2 DEF CreateIdentity, TypeOK
  <2>4. [kind |-> "linking", user |-> u, account |-> d] \in Progress BY DEF Progress, Connection
  <2>5. QED BY <1>2, <2>1, <2>3, <2>4, GoesTyped DEF CreateIdentity, TypeOK, people
<1>3. CASE UpsertLink(r)
  <2>1. PICK u \in User, d \in Discord : u = req[r].user /\ d = req[r].account
    BY <1>3, Shape DEF UpsertLink, At
  <2>2. [account |-> d, row |-> rows] \in MaybeDiscordRow
    BY DEF MaybeDiscordRow, DiscordRow, TypeOK
  <2>3. link' \in [User -> MaybeDiscordRow] /\ rows' \in Nat
    BY <1>3, <2>1, <2>2 DEF UpsertLink, TypeOK
  <2>4. QED BY <1>3, <2>1, <2>3, GoesTyped DEF UpsertLink, TypeOK, people
<1>4. QED BY <1>1, <1>2, <1>3

LEMMA DisconnectTyped ==
  ASSUME TypeOK, NEW r \in Request,
         ReadIdentities(r) \/ ReadLinks(r) \/ DropRoles(r) \/ DropLink(r) \/ DropIdentity(r)
  PROVE  TypeOK'
<1>1. CASE ReadIdentities(r)
  <2>1. PICK u \in User : u = req[r].user BY <1>1, Shape DEF ReadIdentities, At, OfUser
  <2>2. [kind |-> "found", user |-> u, identity |-> identity[u]] \in Progress
    BY DEF Progress, Disconnection, TypeOK
  <2>3. crossed' \subseteq User BY <1>1, <2>1 DEF ReadIdentities, Crosses, TypeOK
  <2>4. QED BY <1>1, <2>1, <2>2, <2>3, GoesTyped DEF ReadIdentities, TypeOK, people
<1>2. CASE ReadLinks(r)
  <2>1. PICK u \in User : u = req[r].user /\ req[r].identity \in MaybeDiscordRow
    BY <1>2, Shape DEF ReadLinks, At
  <2>2. [kind |-> "drop", user |-> u, identity |-> req[r].identity, link |-> link[u]] \in Progress
    BY <2>1 DEF Progress, Disconnection, TypeOK
  <2>3. QED BY <1>2, <2>1, <2>2, GoesTyped DEF ReadLinks, TypeOK, people, discord
<1>3. CASE DropRoles(r)
  BY <1>3 DEF DropRoles, TypeOK, people, bounds
<1>4. CASE DropLink(r)
  <2>1. PICK u \in User : u = req[r].user /\ req[r].identity \in MaybeDiscordRow
    BY <1>4, Shape DEF DropLink, At
  <2>2. [kind |-> "forget", user |-> u, identity |-> req[r].identity] \in Progress
    BY <2>1 DEF Progress, Disconnection
  <2>3. link' \in [User -> MaybeDiscordRow]
    BY <1>4, <2>1 DEF DropLink, TypeOK, MaybeDiscordRow
  <2>4. QED BY <1>4, <2>1, <2>2, <2>3, GoesTyped DEF DropLink, TypeOK, people
<1>5. CASE DropIdentity(r)
  <2>1. identity' \in [User -> MaybeDiscordRow]
    BY <1>5 DEF DropIdentity, TypeOK, MaybeDiscordRow
  <2>2. QED BY <1>5, <2>1, GoesTyped DEF DropIdentity, TypeOK, people
<1>6. QED BY <1>1, <1>2, <1>3, <1>4, <1>5

LEMMA JobTyped ==
  ASSUME TypeOK, JobReads \/ JobEnds \/ \E u \in User : JobGrants(u)
  PROVE  TypeOK'
<1>1. CASE JobReads BY <1>1, HappensTyped DEF JobReads, TypeOK, people
<1>2. CASE JobEnds BY <1>2 DEF JobEnds, TypeOK, people, bounds
<1>3. ASSUME NEW u \in User, JobGrants(u) PROVE TypeOK'
  BY <1>3 DEF JobGrants, TypeOK, people, bounds
<1>4. QED BY <1>1, <1>2, <1>3

LEMMA TypeStep ==
  ASSUME TypeOK, Remembered, [Next]_vars
  PROVE  TypeOK'
<1>1. CASE UNCHANGED vars BY <1>1 DEF vars, people, discord, bounds, TypeOK
<1>2. ASSUME NEW r \in Request, Ends(r) PROVE TypeOK'
  BY <1>2, GoesTyped DEF Ends, TypeOK, people, discord
<1>3. ASSUME NEW r \in Request, Handles(r) PROVE TypeOK'
  BY <1>2, <1>3, SessionTyped, TokenTyped, ConnectTyped, DisconnectTyped DEF Handles
<1>4. QED BY <1>1, <1>3, SessionEndTyped, TokenRowTyped, LifeTyped, JobTyped DEF Next

-----------------------------------------------------------------------------
(* Which steps touch which table *)

LEMMA SessionSteps ==
  ASSUME [Next]_vars
  PROVE  \/ session' = session /\ doubt' = doubt
         \/ \E r \in Request : (\E s \in Session : CreateSession(r, s)) \/ Slide(r)
                               \/ confirmPasswordReset(r)
         \/ \E s \in Session : revokeByToken(s) \/ IdleEnd(s) \/ AbsoluteEnd(s)
         \/ \E u \in User : retire(u)
<1>1. ASSUME NEW r \in Request, Handles(r)
      PROVE  \/ session' = session /\ doubt' = doubt
             \/ (\E s \in Session : CreateSession(r, s)) \/ Slide(r) \/ confirmPasswordReset(r)
  BY <1>1 DEF Handles, verifyPassword, completeLogin, resolve, BeginVerification, BeginReset,
     confirmVerification, BeginLink, CreateIdentity, UpsertLink, ReadIdentities, ReadLinks,
     DropRoles, DropLink, DropIdentity, Ends
<1>2. ASSUME NEW t \in Token,
             TokenExpires(t) \/ \E u \in User : issueVerification(u, t) \/ requestPasswordReset(u, t)
      PROVE  session' = session /\ doubt' = doubt
  BY <1>2 DEF TokenExpires, issueVerification, requestPasswordReset
<1>3. ASSUME NEW u \in User, deactivate(u) \/ reactivate(u) \/ revive(u) \/ JobGrants(u)
      PROVE  session' = session /\ doubt' = doubt
  BY <1>3 DEF deactivate, reactivate, revive, JobGrants
<1>4. ASSUME JobReads \/ JobEnds PROVE session' = session /\ doubt' = doubt
  BY <1>4 DEF JobReads, JobEnds
<1>5. CASE UNCHANGED vars BY <1>5 DEF vars
<1>6. QED BY <1>1, <1>2, <1>3, <1>4, <1>5 DEF Next

LEMMA TokenSteps ==
  ASSUME [Next]_vars
  PROVE  \/ token' = token /\ password' = password
         \/ \E r \in Request : confirmVerification(r) \/ confirmPasswordReset(r)
         \/ \E t \in Token, u \in User : issueVerification(u, t) \/ requestPasswordReset(u, t)
         \/ \E t \in Token : TokenExpires(t)
<1>1. ASSUME NEW r \in Request, Handles(r)
      PROVE  \/ token' = token /\ password' = password
             \/ confirmVerification(r) \/ confirmPasswordReset(r)
  BY <1>1 DEF Handles, verifyPassword, completeLogin, CreateSession, resolve, Slide,
     BeginVerification, BeginReset, BeginLink, CreateIdentity, UpsertLink, ReadIdentities,
     ReadLinks, DropRoles, DropLink, DropIdentity, Ends, people
<1>2. ASSUME NEW s \in Session, revokeByToken(s) \/ IdleEnd(s) \/ AbsoluteEnd(s)
      PROVE  token' = token /\ password' = password
  BY <1>2 DEF revokeByToken, IdleEnd, AbsoluteEnd, people
<1>3. ASSUME NEW u \in User, deactivate(u) \/ reactivate(u) \/ retire(u) \/ revive(u) \/ JobGrants(u)
      PROVE  token' = token /\ password' = password
  BY <1>3 DEF deactivate, reactivate, retire, revive, JobGrants, people
<1>4. ASSUME JobReads \/ JobEnds PROVE token' = token /\ password' = password
  BY <1>4 DEF JobReads, JobEnds, people
<1>5. CASE UNCHANGED vars BY <1>5 DEF vars, people
<1>6. QED BY <1>1, <1>2, <1>3, <1>4, <1>5 DEF Next

\* The rest of the steps leaves all of Discord alone.
LEMMA DiscordSteps ==
  ASSUME [Next]_vars
  PROVE  \/ UNCHANGED discord
         \/ \E r \in Request : \/ \E d \in Discord : BeginLink(r, d)
                               \/ CreateIdentity(r) \/ UpsertLink(r) \/ ReadIdentities(r)
                               \/ DropRoles(r) \/ DropLink(r) \/ DropIdentity(r)
         \/ JobReads \/ JobEnds \/ \E u \in User : JobGrants(u)
<1>1. ASSUME NEW r \in Request, Handles(r)
      PROVE  \/ UNCHANGED discord
             \/ \E d \in Discord : BeginLink(r, d)
             \/ CreateIdentity(r) \/ UpsertLink(r) \/ ReadIdentities(r)
             \/ DropRoles(r) \/ DropLink(r) \/ DropIdentity(r)
  BY <1>1 DEF Handles, verifyPassword, completeLogin, CreateSession, resolve, Slide,
     BeginVerification, BeginReset, confirmVerification, confirmPasswordReset, ReadLinks, Ends
<1>2. ASSUME NEW s \in Session, revokeByToken(s) \/ IdleEnd(s) \/ AbsoluteEnd(s)
      PROVE  UNCHANGED discord
  BY <1>2 DEF revokeByToken, IdleEnd, AbsoluteEnd
<1>3. ASSUME NEW u \in User, deactivate(u) \/ reactivate(u) \/ retire(u) \/ revive(u)
      PROVE  UNCHANGED discord
  BY <1>3 DEF deactivate, reactivate, retire, revive
<1>4. ASSUME NEW t \in Token,
             TokenExpires(t) \/ \E u \in User : issueVerification(u, t) \/ requestPasswordReset(u, t)
      PROVE  UNCHANGED discord
  BY <1>4 DEF TokenExpires, issueVerification, requestPasswordReset
<1>5. CASE UNCHANGED vars BY <1>5 DEF vars
<1>6. QED BY <1>1, <1>2, <1>3, <1>4, <1>5 DEF Next

\* How a request goes on.
LEMMA RequestStep ==
  ASSUME TypeOK, [Next]_vars, NEW r \in Request
  PROVE  \/ req'[r] = req[r] \/ req'[r] = None
         \/ req'[r].kind \in {"login", "user"}
         \/ \E s \in Session : resolve(r, s)
         \/ \E t \in Token : BeginVerification(r, t) \/ BeginReset(r, t)
         \/ \E d \in Discord : BeginLink(r, d)
         \/ CreateIdentity(r) \/ ReadIdentities(r) \/ ReadLinks(r) \/ DropLink(r)
<1> DEFINE Is(q) == \/ req'[q] = None
                    \/ req'[q].kind \in {"login", "user"}
                    \/ \E s \in Session : resolve(q, s)
                    \/ \E t \in Token : BeginVerification(q, t) \/ BeginReset(q, t)
                    \/ \E d \in Discord : BeginLink(q, d)
                    \/ CreateIdentity(q) \/ ReadIdentities(q) \/ ReadLinks(q) \/ DropLink(q)
<1>1. ASSUME NEW q \in Request, Handles(q) PROVE req'[r] = req[r] \/ Is(r)
  <2>1. CASE DropRoles(q) BY <2>1 DEF DropRoles
  <2>2. CASE ~DropRoles(q)
    <3>1. \E p : req' = [req EXCEPT ![q] = p]
      BY <1>1, <2>2 DEF Handles, verifyPassword, completeLogin, CreateSession, resolve, Slide,
         BeginVerification, BeginReset, confirmVerification, confirmPasswordReset, BeginLink,
         CreateIdentity, UpsertLink, ReadIdentities, ReadLinks, DropLink, DropIdentity, Ends,
         Starts, Goes
    <3>2. CASE q # r BY <3>1, <3>2 DEF TypeOK
    <3>3. CASE q = r
      <4>1. ASSUME NEW u \in User, verifyPassword(r, u) PROVE req'[r].kind = "login"
        BY <4>1 DEF verifyPassword, Starts, TypeOK
      <4>2. ASSUME NEW d \in Discord, completeLogin(r, d) PROVE req'[r].kind = "login"
        BY <4>2 DEF completeLogin, Starts, TypeOK
      <4>3. CASE Slide(r)
        <5>1. req'[r] = [kind |-> "user", user |-> session[req[r].session].user]
          BY <4>3 DEF Slide, Goes, TypeOK
        <5>2. QED BY <5>1
      <4>4. ASSUME \/ \E s \in Session : CreateSession(r, s)
                   \/ confirmVerification(r) \/ confirmPasswordReset(r) \/ UpsertLink(r)
                   \/ DropIdentity(r) \/ Ends(r)
            PROVE  req'[r] = None
        BY <4>4 DEF CreateSession, confirmVerification, confirmPasswordReset, UpsertLink,
           DropIdentity, Ends, Goes, TypeOK
      <4>5. QED BY <1>1, <2>2, <3>3, <4>1, <4>2, <4>3, <4>4 DEF Handles
    <3>4. QED BY <3>2, <3>3
  <2>3. QED BY <2>1, <2>2
<1>2. ASSUME NEW s \in Session, revokeByToken(s) \/ IdleEnd(s) \/ AbsoluteEnd(s)
      PROVE  req' = req
  BY <1>2 DEF revokeByToken, IdleEnd, AbsoluteEnd
<1>3. ASSUME NEW u \in User, deactivate(u) \/ reactivate(u) \/ retire(u) \/ revive(u) \/ JobGrants(u)
      PROVE  req' = req
  BY <1>3 DEF deactivate, reactivate, retire, revive, JobGrants
<1>4. ASSUME NEW t \in Token,
             TokenExpires(t) \/ \E u \in User : issueVerification(u, t) \/ requestPasswordReset(u, t)
      PROVE  req' = req
  BY <1>4 DEF TokenExpires, issueVerification, requestPasswordReset
<1>5. ASSUME JobReads \/ JobEnds PROVE req' = req BY <1>5 DEF JobReads, JobEnds
<1>6. CASE UNCHANGED vars BY <1>6 DEF vars
<1>7. QED BY <1>1, <1>2, <1>3, <1>4, <1>5, <1>6 DEF Next

-----------------------------------------------------------------------------
(* Rows stay *)

\* What a step may do to a session's row; slid: the idle window was moved.
Carried(x, y, slid) ==
  /\ y \in SessionRow /\ y.user = x.user /\ y.doubt = x.doubt
  /\ x.revoked => y.revoked
  /\ x.over => y.over
  /\ x.idle => y.idle \/ slid

LEMMA RowCarried ==
  ASSUME NEW x \in SessionRow, NEW slid \in BOOLEAN, NEW y,
         \/ y = x
         \/ y = [x EXCEPT !.revoked = TRUE]
         \/ y = [x EXCEPT !.idle = TRUE]
         \/ y = [x EXCEPT !.over = TRUE]
         \/ y = [x EXCEPT !.idle = FALSE] /\ slid
  PROVE  Carried(x, y, slid)
<1>1. CASE y = x BY <1>1 DEF Carried
<1>2. CASE y = [x EXCEPT !.revoked = TRUE]
  <2>1. y \in SessionRow /\ y.user = x.user /\ y.doubt = x.doubt BY <1>2 DEF SessionRow
  <2>2. y.revoked = TRUE /\ y.over = x.over /\ y.idle = x.idle BY <1>2 DEF SessionRow
  <2>3. QED BY <2>1, <2>2, Zenon DEF Carried
<1>3. CASE y = [x EXCEPT !.idle = TRUE]
  <2>1. y \in SessionRow /\ y.user = x.user /\ y.doubt = x.doubt BY <1>3 DEF SessionRow
  <2>2. y.revoked = x.revoked /\ y.over = x.over /\ y.idle = TRUE BY <1>3 DEF SessionRow
  <2>3. QED BY <2>1, <2>2, Zenon DEF Carried
<1>4. CASE y = [x EXCEPT !.over = TRUE]
  <2>1. y \in SessionRow /\ y.user = x.user /\ y.doubt = x.doubt BY <1>4 DEF SessionRow
  <2>2. y.revoked = x.revoked /\ y.over = TRUE /\ y.idle = x.idle BY <1>4 DEF SessionRow
  <2>3. QED BY <2>1, <2>2, Zenon DEF Carried
<1>5. CASE y = [x EXCEPT !.idle = FALSE] /\ slid
  <2>1. y \in SessionRow /\ y.user = x.user /\ y.doubt = x.doubt BY <1>5 DEF SessionRow
  <2>2. y.revoked = x.revoked /\ y.over = x.over BY <1>5 DEF SessionRow
  <2>3. QED BY <1>5, <2>1, <2>2, Zenon DEF Carried
<1>6. QED BY <1>1, <1>2, <1>3, <1>4, <1>5

\* A session keeps its user and never comes back once it was revoked or is over;
\* its idle window moves for a request that resolved it.
Sliding(s) == \E r \in Request : At(r, "resolve") /\ req[r].session = s

LEMMA SessionStays ==
  ASSUME TypeOK, [Next]_vars, NEW s \in Session, session[s] # None
  PROVE  Carried(session[s], session'[s], Sliding(s))
<1>1. session[s] \in SessionRow BY DEF TypeOK
<1>2. ASSUME NEW r \in Request, Slide(r)
      PROVE  \/ session'[s] = session[s]
             \/ session'[s] = [session[s] EXCEPT !.idle = FALSE] /\ Sliding(s)
  BY <1>2 DEF Slide, Sliding, TypeOK
<1>3. ASSUME NEW u \in User, session' = revokeAllForUser(u)
      PROVE  session'[s] = session[s] \/ session'[s] = [session[s] EXCEPT !.revoked = TRUE]
  BY <1>3 DEF revokeAllForUser
<1>4. ASSUME NEW r \in Request, confirmPasswordReset(r)
      PROVE  session'[s] = session[s] \/ session'[s] = [session[s] EXCEPT !.revoked = TRUE]
  BY <1>4 DEF confirmPasswordReset, revokeAllForUser
<1>5. ASSUME NEW r \in Request, NEW q \in Session, CreateSession(r, q)
      PROVE  session'[s] = session[s]
  BY <1>5 DEF CreateSession, TypeOK
<1>6. ASSUME NEW q \in Session, revokeByToken(q) \/ IdleEnd(q) \/ AbsoluteEnd(q)
      PROVE  \/ session'[s] = session[s]
             \/ session'[s] = [session[s] EXCEPT !.revoked = TRUE]
             \/ session'[s] = [session[s] EXCEPT !.idle = TRUE]
             \/ session'[s] = [session[s] EXCEPT !.over = TRUE]
  BY <1>6 DEF revokeByToken, IdleEnd, AbsoluteEnd, TypeOK
<1>7. ASSUME NEW u \in User, retire(u)
      PROVE  session'[s] = session[s] \/ session'[s] = [session[s] EXCEPT !.revoked = TRUE]
  BY <1>3, <1>7 DEF retire
<1>8. \/ session'[s] = session[s]
      \/ session'[s] = [session[s] EXCEPT !.revoked = TRUE]
      \/ session'[s] = [session[s] EXCEPT !.idle = TRUE]
      \/ session'[s] = [session[s] EXCEPT !.over = TRUE]
      \/ session'[s] = [session[s] EXCEPT !.idle = FALSE] /\ Sliding(s)
  BY <1>2, <1>4, <1>5, <1>6, <1>7, SessionSteps
<1>9. Sliding(s) \in BOOLEAN BY DEF Sliding
<1>10. QED BY <1>1, <1>8, <1>9, RowCarried

LEMMA TokenStays ==
  ASSUME TypeOK, Remembered, [Next]_vars, NEW t \in Token, token[t] # None
  PROVE  token'[t] # None /\ token'[t].user = token[t].user
<1>1. token[t] \in TokenRow BY DEF TypeOK
<1>2. CASE token'[t] = token[t] BY <1>2
<1>3. CASE \/ token'[t] = [token[t] EXCEPT !.used = TRUE]
           \/ token'[t] = [token[t] EXCEPT !.over = TRUE]
  <2>1. token'[t] \in TokenRow /\ token'[t].user = token[t].user BY <1>1, <1>3 DEF TokenRow
  <2>2. QED BY <2>1, NoneAssumption
<1>4. ASSUME NEW r \in Request, confirmVerification(r) \/ confirmPasswordReset(r)
      PROVE  token'[t] = token[t] \/ token'[t] = [token[t] EXCEPT !.used = TRUE]
  BY <1>4 DEF confirmVerification, confirmPasswordReset, TypeOK
<1>5. ASSUME NEW q \in Token, NEW u \in User, issueVerification(u, q) \/ requestPasswordReset(u, q)
      PROVE  token'[t] = token[t]
  BY <1>5 DEF issueVerification, requestPasswordReset, Issue, TypeOK
<1>6. ASSUME NEW q \in Token, TokenExpires(q)
      PROVE  token'[t] = token[t] \/ token'[t] = [token[t] EXCEPT !.over = TRUE]
  BY <1>6 DEF TokenExpires, TypeOK
<1>7. QED BY <1>2, <1>3, <1>4, <1>5, <1>6, TokenSteps

LEMMA PasswordStays ==
  ASSUME TypeOK, Remembered, [Next]_vars, NEW u \in User, password[u] # None
  PROVE  password'[u] # None
<1>1. password[u] \in PasswordRow BY DEF TypeOK
<1>2. /\ [password[u] EXCEPT !.verified = TRUE] \in PasswordRow
      /\ [password[u] EXCEPT !.resets = @ + 1] \in PasswordRow
  <2>1. [password[u] EXCEPT !.verified = TRUE] \in PasswordRow BY <1>1 DEF PasswordRow
  <2>2. [password[u] EXCEPT !.resets = @ + 1] \in PasswordRow BY <1>1 DEF PasswordRow
  <2>3. QED BY <2>1, <2>2
<1>3. ASSUME NEW r \in Request, confirmVerification(r)
      PROVE  password'[u] = password[u] \/ password'[u] = [password[u] EXCEPT !.verified = TRUE]
  BY <1>3 DEF confirmVerification, TypeOK
<1>4. ASSUME NEW r \in Request, confirmPasswordReset(r)
      PROVE  password'[u] = password[u] \/ password'[u] = [password[u] EXCEPT !.resets = @ + 1]
  BY <1>4 DEF confirmPasswordReset, TypeOK
<1>5. ASSUME NEW t \in Token, \/ TokenExpires(t)
                              \/ \E v \in User : issueVerification(v, t) \/ requestPasswordReset(v, t)
      PROVE  password' = password
  BY <1>5 DEF TokenExpires, issueVerification, requestPasswordReset, people
<1>6. QED BY <1>2, <1>3, <1>4, <1>5, TokenSteps, NoneAssumption

SessionKept == \A s \in Session : session[s] # None => session'[s] # None

TokenKept == \A t \in Token : token[t] # None
               => token[t].user \in User /\ token'[t] # None /\ token'[t].user = token[t].user

PasswordKept == \A u \in User : password[u] # None => password'[u] # None

LEMMA RowsKept ==
  ASSUME TypeOK, Remembered, [Next]_vars
  PROVE  SessionKept /\ TokenKept /\ PasswordKept
<1>1. SessionKept BY SessionStays, NoneAssumption DEF SessionKept, Carried
<1>2. TokenKept BY TokenStays DEF TokenKept, TypeOK, TokenRow
<1>3. PasswordKept BY PasswordStays DEF PasswordKept
<1>4. QED BY <1>1, <1>2, <1>3

LEMMA RememberedStep ==
  ASSUME TypeOK, Remembered, [Next]_vars
  PROVE  Remembered'
<1> SUFFICES ASSUME NEW r \in Request, req'[r] # None
             PROVE  /\ req'[r].kind = "resolve" => session'[req'[r].session] # None
                    /\ req'[r].kind \in {"verify", "reset"} => token'[req'[r].token] # None
                    /\ req'[r].kind = "reset" => password'[token'[req'[r].token].user] # None
                    /\ req'[r].kind \in {"found", "drop", "forget"} /\ req'[r].identity # None
                         => password'[req'[r].user] # None
  BY DEF Remembered
<1> DEFINE Kept == /\ req'[r].kind = "resolve" => session'[req'[r].session] # None
                   /\ req'[r].kind \in {"verify", "reset"} => token'[req'[r].token] # None
                   /\ req'[r].kind = "reset" => password'[token'[req'[r].token].user] # None
                   /\ req'[r].kind \in {"found", "drop", "forget"} /\ req'[r].identity # None
                        => password'[req'[r].user] # None
<1> SUFFICES Kept
  OBVIOUS
<1>0. SessionKept /\ TokenKept /\ PasswordKept BY RowsKept
<1>1. CASE req'[r] = req[r]
  <2>1. CASE req[r].kind = "resolve"
    BY <1>0, <1>1, <2>1, Shape DEF Remembered, SessionKept, OfSession
  <2>2. CASE req[r].kind \in {"verify", "reset"}
    BY <1>0, <1>1, <2>2, Shape DEF Remembered, TokenKept, PasswordKept, OfToken
  <2>3. CASE req[r].kind \in {"found", "drop", "forget"}
    BY <1>0, <1>1, <2>3, Shape DEF Remembered, PasswordKept
  <2>4. QED BY <1>1, <2>1, <2>2, <2>3
<1>2. CASE req'[r].kind \in {"login", "user"} BY <1>2
<1>3. ASSUME NEW s \in Session, resolve(r, s) PROVE Kept
  <2>1. req'[r] = [kind |-> "resolve", session |-> s] /\ session'[s] # None
    BY <1>0, <1>3 DEF resolve, Usable, Starts, TypeOK, SessionKept
  <2>2. QED BY <2>1
<1>4. ASSUME NEW t \in Token, BeginVerification(r, t) PROVE Kept
  <2>1. req'[r] = [kind |-> "verify", token |-> t] /\ token'[t] # None
    BY <1>0, <1>4 DEF BeginVerification, consumableToken, TokenKept, Starts, TypeOK
  <2>2. QED BY <2>1
<1>5. ASSUME NEW t \in Token, BeginReset(r, t) PROVE Kept
  <2>1. /\ req'[r] = [kind |-> "reset", token |-> t] /\ token'[t] # None
        /\ password'[token'[t].user] # None
    BY <1>0, <1>5 DEF BeginReset, consumableToken, TokenKept, PasswordKept, Starts, TypeOK
  <2>2. QED BY <2>1
<1>6. ASSUME (\E d \in Discord : BeginLink(r, d)) \/ CreateIdentity(r) PROVE Kept
  <2>1. req'[r].kind \in {"connect", "linking"}
    BY <1>6 DEF BeginLink, CreateIdentity, Goes, TypeOK
  <2>2. QED BY <2>1
<1>7. CASE ReadIdentities(r)
  <2>1. PICK u \in User : u = req[r].user BY <1>7, Shape DEF ReadIdentities, At, OfUser
  <2>2. /\ req'[r] = [kind |-> "found", user |-> u, identity |-> identity[u]]
        /\ identity[u] # None => password[u] # None
    BY <1>7, <2>1 DEF ReadIdentities, Goes, TypeOK
  <2>3. QED BY <1>0, <2>2 DEF PasswordKept
<1>8. CASE ReadLinks(r) \/ DropLink(r)
  <2>1. PICK u \in User : u = req[r].user BY <1>8, Shape DEF ReadLinks, DropLink, At
  <2>2. /\ req'[r].kind \in {"drop", "forget"}
        /\ req'[r].user = u /\ req'[r].identity = req[r].identity
    BY <1>8, <2>1 DEF ReadLinks, DropLink, Goes, TypeOK
  <2>3. req[r].identity # None => password[u] # None
    BY <1>8, <2>1 DEF ReadLinks, DropLink, At, Remembered
  <2>4. QED BY <1>0, <2>2, <2>3 DEF PasswordKept
<1> HIDE DEF Kept
<1>9. QED BY <1>1, <1>2, <1>3, <1>4, <1>5, <1>6, <1>7, <1>8, RequestStep

-----------------------------------------------------------------------------
(* Nobody is locked out *)

LEMMA WayInStep ==
  ASSUME TypeOK, Remembered, WayIn, [Next]_vars
  PROVE  WayIn'
<1> SUFFICES ASSUME NEW u \in User PROVE password'[u] # None \/ identity'[u] # None
  BY DEF WayIn
<1>1. password[u] # None => password'[u] # None BY PasswordStays
<1>2. CASE identity'[u] = identity[u] BY <1>1, <1>2 DEF WayIn
<1>3. ASSUME NEW r \in Request, CreateIdentity(r), identity'[u] # identity[u]
      PROVE  identity'[u] # None
  <2>1. PICK d \in Discord : d = req[r].account BY <1>3, Shape DEF CreateIdentity, At
  <2>2. identity'[u] = [account |-> d, row |-> rows] BY <1>3, <2>1 DEF CreateIdentity, TypeOK
  <2>3. identity'[u] \in DiscordRow BY <2>2 DEF DiscordRow, TypeOK
  <2>4. QED BY <2>3, NoneAssumption
<1>4. ASSUME NEW r \in Request, DropIdentity(r), identity'[u] # identity[u]
      PROVE  password[u] # None
  <2>1. u = req[r].user /\ req[r].identity # None /\ At(r, "forget")
    BY <1>4 DEF DropIdentity, TypeOK
  <2>2. QED BY <2>1 DEF At, Remembered
<1>5. \/ identity'[u] = identity[u]
      \/ \E r \in Request : CreateIdentity(r) \/ DropIdentity(r)
  <2>1. ASSUME NEW r \in Request, NEW d \in Discord, BeginLink(r, d) PROVE identity' = identity
    BY <2>1 DEF BeginLink
  <2>2. ASSUME NEW r \in Request,
               UpsertLink(r) \/ ReadIdentities(r) \/ DropRoles(r) \/ DropLink(r)
        PROVE  identity' = identity
    BY <2>2 DEF UpsertLink, ReadIdentities, DropRoles, DropLink
  <2>3. ASSUME JobReads \/ JobEnds \/ \E v \in User : JobGrants(v) PROVE identity' = identity
    BY <2>3 DEF JobReads, JobEnds, JobGrants
  <2>4. QED BY <2>1, <2>2, <2>3, DiscordSteps DEF discord
<1>6. QED BY <1>1, <1>2, <1>3, <1>4, <1>5

LEMMA WayInShown == WayIn <=> KeepsSignIn
<1>1. ASSUME NEW u \in User
      PROVE  password[u] # None \/ identity[u] # None <=> getMe(u).authMethods # {}
  BY DEF getMe
<1>2. QED BY <1>1 DEF WayIn, KeepsSignIn

-----------------------------------------------------------------------------
(* A doubt ends the sessions there were *)

LEMMA DoubtStep ==
  ASSUME TypeOK, Remembered, DoubtEndsSessions, [Next]_vars
  PROVE  DoubtEndsSessions'
<1> SUFFICES ASSUME NEW s \in Session, session'[s] # None, ~session'[s].revoked
             PROVE  session'[s].doubt = doubt'[session'[s].user]
  BY DEF DoubtEndsSessions
<1>1. CASE session[s] = None
  <2>1. PICK r \in Request : CreateSession(r, s)
    <3>1. session' # session BY <1>1
    <3>2. ASSUME NEW r \in Request, Slide(r) \/ confirmPasswordReset(r) PROVE session'[s] = None
      <4>1. CASE Slide(r)
        <5>1. req[r].session # s BY <1>1, <4>1 DEF Slide, At, Remembered
        <5>2. QED BY <1>1, <4>1, <5>1 DEF Slide, TypeOK
      <4>2. CASE confirmPasswordReset(r)
        BY <1>1, <4>2 DEF confirmPasswordReset, revokeAllForUser
      <4>3. QED BY <3>2, <4>1, <4>2
    <3>3. ASSUME NEW q \in Session, revokeByToken(q) \/ IdleEnd(q) \/ AbsoluteEnd(q)
          PROVE  session'[s] = None
      BY <1>1, <3>3 DEF revokeByToken, IdleEnd, AbsoluteEnd, Usable, TypeOK
    <3>4. ASSUME NEW u \in User, retire(u) PROVE session'[s] = None
      BY <1>1, <3>4 DEF retire, revokeAllForUser
    <3>5. ASSUME NEW r \in Request, NEW q \in Session, CreateSession(r, q) PROVE q = s
      BY <1>1, <3>5 DEF CreateSession, TypeOK
    <3>6. QED BY <3>1, <3>2, <3>3, <3>4, <3>5, SessionSteps
  <2>2. session'[s].user = req[r].user /\ session'[s].doubt = doubt[req[r].user] /\ doubt' = doubt
    BY <2>1 DEF CreateSession, TypeOK
  <2>3. QED BY <2>2
<1>2. CASE session[s] # None
  <2>1. /\ session'[s].user = session[s].user /\ session'[s].doubt = session[s].doubt
        /\ ~session[s].revoked
    BY <1>2, SessionStays DEF Carried
  <2>2. session[s].doubt = doubt[session[s].user] BY <1>2, <2>1 DEF DoubtEndsSessions
  <2>3. ASSUME NEW u \in User, session' = revokeAllForUser(u), doubt' = [doubt EXCEPT ![u] = @ + 1]
        PROVE  doubt'[session[s].user] = doubt[session[s].user]
    <3>1. CASE session[s].user = u
      <4>1. session'[s] = [session[s] EXCEPT !.revoked = TRUE]
        BY <1>2, <2>3, <3>1 DEF revokeAllForUser
      <4>2. session'[s].revoked BY <1>2, <4>1 DEF TypeOK, SessionRow
      <4>3. QED BY <4>2
    <3>2. CASE session[s].user # u BY <1>2, <2>3, <3>2 DEF TypeOK, SessionRow
    <3>3. QED BY <3>1, <3>2
  <2>4. ASSUME NEW r \in Request, confirmPasswordReset(r)
        PROVE  doubt'[session[s].user] = doubt[session[s].user]
    <3>1. PICK t \in Token : t = req[r].token /\ token[t] # None
      BY <2>4, Shape DEF confirmPasswordReset, At, OfToken, Remembered
    <3>2. PICK u \in User : u = token[t].user BY <3>1 DEF TypeOK, TokenRow
    <3>3. QED BY <2>3, <2>4, <3>1, <3>2 DEF confirmPasswordReset
  <2>5. ASSUME NEW r \in Request, Slide(r) \/ \E q \in Session : CreateSession(r, q)
        PROVE  doubt' = doubt
    BY <2>5 DEF Slide, CreateSession
  <2>6. ASSUME NEW q \in Session, revokeByToken(q) \/ IdleEnd(q) \/ AbsoluteEnd(q)
        PROVE  doubt' = doubt
    BY <2>6 DEF revokeByToken, IdleEnd, AbsoluteEnd
  <2>7. doubt'[session[s].user] = doubt[session[s].user]
    BY <2>3, <2>4, <2>5, <2>6, SessionSteps DEF retire
  <2>8. QED BY <2>1, <2>2, <2>7
<1>3. QED BY <1>1, <1>2

-----------------------------------------------------------------------------
(* An end is final *)

LEMMA EndStep ==
  ASSUME TypeOK, [Next]_vars, NEW s \in Session, Ended(s)
  PROVE  Ended(s)'
<1>1. session[s] # None /\ ~Usable(s) /\ ~Sliding(s) BY DEF Ended, Sliding
<1>2. Carried(session[s], session'[s], FALSE)
  <2>1. Carried(session[s], session'[s], Sliding(s)) BY <1>1, SessionStays
  <2>2. QED BY <1>1, <2>1 DEF Carried
<1>3. session'[s] # None /\ ~Usable(s)'
  <2>1. session'[s] # None BY <1>2, NoneAssumption DEF Carried
  <2>2. session[s].revoked \/ session[s].idle \/ session[s].over BY <1>1 DEF Usable
  <2>3. session'[s].revoked \/ session'[s].idle \/ session'[s].over BY <1>2, <2>2 DEF Carried
  <2>4. QED BY <2>1, <2>3 DEF Usable
<1>4. ASSUME NEW r \in Request, At(r, "resolve")' PROVE req'[r].session # s
  <2>1. CASE req'[r] = req[r] BY <1>1, <1>4, <2>1 DEF At, Sliding
  <2>2. ASSUME NEW q \in Session, resolve(r, q) PROVE req'[r].session = q /\ q # s
    BY <1>1, <2>2 DEF resolve, Starts, TypeOK
  <2>3. ASSUME NEW t \in Token, BeginVerification(r, t) \/ BeginReset(r, t)
        PROVE  req'[r].kind # "resolve"
    BY <2>3 DEF BeginVerification, BeginReset, Starts, TypeOK
  <2>4. ASSUME NEW d \in Discord, BeginLink(r, d) PROVE req'[r].kind # "resolve"
    BY <2>4 DEF BeginLink, Goes, TypeOK
  <2>5. ASSUME CreateIdentity(r) \/ ReadIdentities(r) \/ ReadLinks(r) \/ DropLink(r)
        PROVE  req'[r].kind # "resolve"
    BY <2>5 DEF CreateIdentity, ReadIdentities, ReadLinks, DropLink, Goes, TypeOK
  <2>6. QED BY <1>4, <2>1, <2>2, <2>3, <2>4, <2>5, RequestStep DEF At
<1>5. QED BY <1>3, <1>4 DEF Ended

-----------------------------------------------------------------------------
(* Connected, in both senses *)

Concerns(p, u) == /\ req[p] # None
                  /\ req[p].kind \in {"connect", "linking", "found", "drop", "forget"}
                  /\ req[p].user = u

\* What a request about u relies on: the identity it found or made, and the
\* link it is about to drop or has dropped.
Heeds(p, u) ==
  Concerns(p, u) =>
    /\ req[p].kind = "linking" \/ (req[p].kind = "connect" /\ req[p].known = TRUE)
         => identity[u] # None /\ identity[u].account = req[p].account
    /\ req[p].kind = "drop" => link[u] \in {None, req[p].link}
    /\ req[p].kind = "forget" => link[u] = None

Tied(u) ==
  /\ link[u] # None => identity[u] # None /\ identity[u].account = link[u].account
  /\ u \in role \cup job => link[u] # None

Apart(u) == Disconnecting(u) => ~Connecting(u) /\ u \notin job

Undisturbed(u) == Tied(u) /\ Apart(u) /\ \A p \in Request : Heeds(p, u)

\* Steps that have nothing to do with u.
LEMMA Frame ==
  ASSUME NEW u \in User, Undisturbed(u), identity'[u] = identity[u], link'[u] = link[u],
         u \in role' => u \in role \cup job, u \in job' => u \in job,
         \A p \in Request : Concerns(p, u)' => req'[p] = req[p]
  PROVE  Undisturbed(u)'
<1>1. Tied(u)' BY DEF Undisturbed, Tied
<1>2. Apart(u)'
  <2>1. (Disconnecting(u)' => Disconnecting(u)) /\ (Connecting(u)' => Connecting(u))
    BY DEF Disconnecting, Connecting, Concerns
  <2>2. QED BY <2>1 DEF Undisturbed, Apart
<1>3. ASSUME NEW p \in Request PROVE Heeds(p, u)' BY DEF Undisturbed, Heeds, Concerns
<1>4. QED BY <1>1, <1>2, <1>3 DEF Undisturbed

LEMMA Moves ==
  ASSUME TypeOK, NEW q \in Request, NEW x, Goes(q, x)
  PROVE  req'[q] = x /\ \A p \in Request : p # q => req'[p] = req[p]
BY DEF Goes, TypeOK

LEMMA IdentityFound ==
  ASSUME NEW u \in User, Undisturbed(u), NEW p \in Request, req[p] # None, req[p].user = u,
         req[p].kind = "linking" \/ (req[p].kind = "connect" /\ req[p].known = TRUE)
  PROVE  identity[u] # None /\ identity[u].account = req[p].account
<1>1. Concerns(p, u) BY DEF Concerns
<1>2. Heeds(p, u) BY DEF Undisturbed
<1>3. QED BY <1>1, <1>2, Zenon DEF Heeds

LEMMA LinkBegins ==
  ASSUME TypeOK, NEW u \in User, Undisturbed(u), u \notin crossed',
         NEW q \in Request, NEW d \in Discord, BeginLink(q, d)
  PROVE  Undisturbed(u)'
<1>1. PICK v \in User : v = req[q].user BY Shape DEF BeginLink, At, OfUser
<1>2. /\ req'[q] = [kind |-> "connect", user |-> v, account |-> d, known |-> Owner(identity, d) # {}]
      /\ \A p \in Request : p # q => req'[p] = req[p]
  BY <1>1, Moves DEF BeginLink
<1>3. UNCHANGED <<identity, link, role, job>> BY DEF BeginLink
<1>4. CASE v # u
  <2>1. \A p \in Request : Concerns(p, u)' => req'[p] = req[p] BY <1>2, <1>4 DEF Concerns
  <2>2. QED BY <1>3, <2>1, Frame
<1>5. CASE v = u
  <2>1. ~Disconnecting(u) BY <1>1, <1>5 DEF BeginLink, Crosses
  <2>2. ~Disconnecting(u)'
    <3>1. ASSUME NEW p \in Request PROVE ~(req'[p] # None /\ req'[p].kind \in {"found", "drop", "forget"}
                                           /\ req'[p].user = u)
      BY <1>2, <2>1 DEF Disconnecting
    <3>2. QED BY <3>1 DEF Disconnecting
  <2>3. Owner(identity, d) # {} => identity[u] # None /\ identity[u].account = d
    BY <1>1, <1>5 DEF BeginLink, Owner
  <2>4. ASSUME NEW p \in Request PROVE Heeds(p, u)'
    <3>1. CASE p = q
      <4>1. /\ req'[p].kind = "connect" /\ req'[p].account = d
            /\ req'[p].known = (Owner(identity, d) # {})
        BY <1>2, <3>1
      <4>2. req'[p].known = TRUE => identity'[u] # None /\ identity'[u].account = d
        BY <1>3, <2>3, <4>1
      <4>3. QED BY <4>1, <4>2 DEF Heeds
    <3>2. CASE p # q BY <1>2, <1>3, <3>2 DEF Heeds, Concerns, Undisturbed
    <3>3. QED BY <3>1, <3>2
  <2>5. QED BY <1>3, <2>2, <2>4 DEF Undisturbed, Tied, Apart
<1>6. QED BY <1>4, <1>5

LEMMA IdentityMade ==
  ASSUME TypeOK, NEW u \in User, Undisturbed(u), NEW q \in Request, CreateIdentity(q)
  PROVE  Undisturbed(u)'
<1>1. PICK v \in User, d \in Discord : v = req[q].user /\ d = req[q].account /\ req[q] # None
                                       /\ req[q].kind = "connect"
  BY Shape DEF CreateIdentity, At
<1>2. /\ req'[q] = [kind |-> "linking", user |-> v, account |-> d]
      /\ \A p \in Request : p # q => req'[p] = req[p]
  BY <1>1, Moves DEF CreateIdentity
<1>3. UNCHANGED <<link, role, job>> BY DEF CreateIdentity
<1>4. CASE v # u
  <2>1. \A p \in Request : Concerns(p, u)' => req'[p] = req[p] BY <1>2, <1>4 DEF Concerns
  <2>2. identity'[u] = identity[u] BY <1>1, <1>4 DEF CreateIdentity, TypeOK
  <2>3. QED BY <1>3, <2>1, <2>2, Frame
<1>5. CASE v = u
  <2>1. \/ identity' = identity /\ req[q].known = TRUE
        \/ identity[u] = None /\ identity'[u] = [account |-> d, row |-> rows]
    <3>1. req[q].known \in BOOLEAN
      BY <1>1, Shape DEF Connection
    <3>2. QED BY <1>1, <1>5, <3>1 DEF CreateIdentity, TypeOK
  <2>2. [account |-> d, row |-> rows] # None
    <3>1. [account |-> d, row |-> rows] \in DiscordRow BY DEF DiscordRow, TypeOK
    <3>2. QED BY <3>1, NoneAssumption
  <2>3. identity'[u] # None /\ identity'[u].account = d
    <3>1. CASE identity' = identity /\ req[q].known = TRUE BY <1>1, <1>5, <3>1, IdentityFound
    <3>2. CASE identity'[u] = [account |-> d, row |-> rows] BY <2>2, <3>2
    <3>3. QED BY <2>1, <3>1, <3>2
  <2>4. identity[u] # None => identity'[u] = identity[u] BY <2>1
  <2>5. Tied(u)' BY <1>3, <2>4 DEF Undisturbed, Tied
  <2>6. Apart(u)'
    <3>1. Connecting(u) BY <1>1, <1>5 DEF Connecting
    <3>2. ASSUME NEW p \in Request PROVE ~(req'[p] # None /\ req'[p].kind \in {"found", "drop", "forget"}
                                           /\ req'[p].user = u)
      BY <1>2, <3>1 DEF Disconnecting, Undisturbed, Apart
    <3>3. QED BY <3>2 DEF Apart, Disconnecting
  <2>7. ASSUME NEW p \in Request PROVE Heeds(p, u)'
    <3>1. CASE p = q BY <1>2, <2>3, <3>1 DEF Heeds
    <3>2. CASE p # q BY <1>2, <1>3, <2>4, <3>2 DEF Heeds, Concerns, Undisturbed
    <3>3. QED BY <3>1, <3>2
  <2>8. QED BY <2>5, <2>6, <2>7 DEF Undisturbed
<1>6. QED BY <1>4, <1>5

LEMMA LinkMade ==
  ASSUME TypeOK, NEW u \in User, Undisturbed(u), NEW q \in Request, UpsertLink(q)
  PROVE  Undisturbed(u)'
<1>1. PICK v \in User, d \in Discord : v = req[q].user /\ d = req[q].account /\ req[q] # None
                                       /\ req[q].kind = "linking"
  BY Shape DEF UpsertLink, At
<1>2. req'[q] = None /\ \A p \in Request : p # q => req'[p] = req[p] BY Moves DEF UpsertLink
<1>3. UNCHANGED <<identity, role, job>> BY DEF UpsertLink
<1>4. \A p \in Request : Concerns(p, u)' => req'[p] = req[p] BY <1>2 DEF Concerns
<1>5. CASE link'[u] = link[u] BY <1>3, <1>4, <1>5, Frame
<1>6. CASE link'[u] # link[u]
  <2>1. v = u /\ link'[u] = [account |-> d, row |-> rows]
    BY <1>1, <1>6 DEF UpsertLink, TypeOK
  <2>2. link'[u].account = d /\ link'[u] # None
    <3>1. [account |-> d, row |-> rows] \in DiscordRow BY DEF DiscordRow, TypeOK
    <3>2. QED BY <2>1, <3>1, NoneAssumption
  <2>3. identity[u] # None /\ identity[u].account = d
    BY <1>1, <2>1, IdentityFound
  <2>4. Connecting(u) /\ ~Disconnecting(u)
    BY <1>1, <2>1 DEF Connecting, Undisturbed, Apart
  <2>5. ASSUME NEW p \in Request PROVE ~(req'[p] # None /\ req'[p].kind \in {"found", "drop", "forget"}
                                         /\ req'[p].user = u)
    BY <1>2, <2>4 DEF Disconnecting
  <2>6. Apart(u)' BY <2>5 DEF Apart, Disconnecting
  <2>7. ASSUME NEW p \in Request PROVE Heeds(p, u)'
    BY <1>2, <1>3, <2>5 DEF Heeds, Concerns, Undisturbed
  <2>8. QED BY <1>3, <2>2, <2>3, <2>6, <2>7 DEF Undisturbed, Tied
<1>7. QED BY <1>5, <1>6

LEMMA IdentitiesRead ==
  ASSUME TypeOK, NEW u \in User, Undisturbed(u), u \notin crossed',
         NEW q \in Request, ReadIdentities(q)
  PROVE  Undisturbed(u)'
<1>1. PICK v \in User : v = req[q].user BY Shape DEF ReadIdentities, At, OfUser
<1>2. /\ req'[q] = [kind |-> "found", user |-> v, identity |-> identity[v]]
      /\ \A p \in Request : p # q => req'[p] = req[p]
  BY <1>1, Moves DEF ReadIdentities
<1>3. UNCHANGED <<identity, link, role, job>> BY DEF ReadIdentities
<1>4. CASE v # u
  <2>1. \A p \in Request : Concerns(p, u)' => req'[p] = req[p] BY <1>2, <1>4 DEF Concerns
  <2>2. QED BY <1>3, <2>1, Frame
<1>5. CASE v = u
  <2>1. ~Connecting(u) /\ u \notin job BY <1>1, <1>5 DEF ReadIdentities, Crosses
  <2>2. ASSUME NEW p \in Request PROVE ~(req'[p] # None /\ req'[p].kind \in {"connect", "linking"}
                                         /\ req'[p].user = u)
    BY <1>2, <2>1 DEF Connecting
  <2>3. Apart(u)' BY <1>3, <2>1, <2>2 DEF Apart, Connecting
  <2>4. ASSUME NEW p \in Request PROVE Heeds(p, u)'
    <3>1. CASE p = q BY <1>2, <3>1 DEF Heeds
    <3>2. CASE p # q BY <1>2, <1>3, <3>2 DEF Heeds, Concerns, Undisturbed
    <3>3. QED BY <3>1, <3>2
  <2>5. QED BY <1>3, <2>3, <2>4 DEF Undisturbed, Tied
<1>6. QED BY <1>4, <1>5

LEMMA LinksRead ==
  ASSUME TypeOK, NEW u \in User, Undisturbed(u), NEW q \in Request, ReadLinks(q)
  PROVE  Undisturbed(u)'
<1>1. PICK v \in User : v = req[q].user /\ req[q] # None /\ req[q].kind = "found"
  BY Shape DEF ReadLinks, At
<1>2. /\ req'[q] = [kind |-> "drop", user |-> v, identity |-> req[q].identity, link |-> link[v]]
      /\ \A p \in Request : p # q => req'[p] = req[p]
  BY <1>1, Moves DEF ReadLinks
<1>3. UNCHANGED <<identity, link, role, job>> BY DEF ReadLinks, discord
<1>4. (Disconnecting(u)' => Disconnecting(u)) /\ (Connecting(u)' => Connecting(u))
  <2>1. ASSUME NEW p \in Request, req'[p] # None, req'[p].user = u,
               req'[p].kind \in {"found", "drop", "forget"}
        PROVE  Disconnecting(u)
    BY <1>1, <1>2, <2>1 DEF Disconnecting
  <2>2. ASSUME NEW p \in Request, req'[p] # None, req'[p].user = u,
               req'[p].kind \in {"connect", "linking"}
        PROVE  Connecting(u)
    BY <1>1, <1>2, <2>2 DEF Connecting
  <2>3. QED BY <2>1, <2>2 DEF Disconnecting, Connecting
<1>5. ASSUME NEW p \in Request PROVE Heeds(p, u)'
  <2>1. CASE p = q BY <1>2, <1>3, <2>1 DEF Heeds, Concerns
  <2>2. CASE p # q BY <1>2, <1>3, <2>2 DEF Heeds, Concerns, Undisturbed
  <2>3. QED BY <2>1, <2>2
<1>6. QED BY <1>3, <1>4, <1>5 DEF Undisturbed, Tied, Apart

LEMMA LinkDropped ==
  ASSUME TypeOK, NEW u \in User, Undisturbed(u), NEW q \in Request, DropLink(q)
  PROVE  Undisturbed(u)'
<1>1. PICK v \in User : v = req[q].user /\ req[q] # None /\ req[q].kind = "drop"
  BY Shape DEF DropLink, At
<1>2. /\ req'[q] = [kind |-> "forget", user |-> v, identity |-> req[q].identity]
      /\ \A p \in Request : p # q => req'[p] = req[p]
  BY <1>1, Moves DEF DropLink
<1>3. UNCHANGED <<identity, role, job>> BY DEF DropLink
<1>4. CASE v # u
  <2>1. \A p \in Request : Concerns(p, u)' => req'[p] = req[p] BY <1>2, <1>4 DEF Concerns
  <2>2. link'[u] = link[u] BY <1>1, <1>4 DEF DropLink, TypeOK
  <2>3. QED BY <1>3, <2>1, <2>2, Frame
<1>5. CASE v = u
  <2>1. Disconnecting(u) BY <1>1, <1>5 DEF Disconnecting
  <2>2. ~Connecting(u) /\ u \notin job BY <2>1 DEF Undisturbed, Apart
  <2>3. link[u] \in {None, req[q].link} BY <1>1, <1>5 DEF Undisturbed, Heeds, Concerns
  <2>4. link'[u] = None BY <1>1, <1>5, <2>3 DEF DropLink, TypeOK
  <2>5. u \notin role'
    <3>1. CASE link[u] = None BY <1>3, <3>1 DEF Undisturbed, Tied
    <3>2. CASE link[u] # None BY <1>1, <1>3, <1>5, <2>3, <3>2 DEF DropLink
    <3>3. QED BY <3>1, <3>2
  <2>6. ASSUME NEW p \in Request PROVE ~(req'[p] # None /\ req'[p].kind \in {"connect", "linking"}
                                         /\ req'[p].user = u)
    BY <1>2, <2>2 DEF Connecting
  <2>7. Apart(u)' BY <1>3, <2>2, <2>6 DEF Apart, Connecting
  <2>8. ASSUME NEW p \in Request PROVE Heeds(p, u)'
    BY <2>4, <2>6 DEF Heeds, Concerns
  <2>9. QED BY <1>3, <2>2, <2>4, <2>5, <2>7, <2>8 DEF Undisturbed, Tied
<1>6. QED BY <1>4, <1>5

LEMMA IdentityDropped ==
  ASSUME TypeOK, NEW u \in User, Undisturbed(u), NEW q \in Request, DropIdentity(q)
  PROVE  Undisturbed(u)'
<1>1. PICK v \in User : v = req[q].user /\ req[q] # None /\ req[q].kind = "forget"
  BY Shape DEF DropIdentity, At
<1>2. req'[q] = None /\ \A p \in Request : p # q => req'[p] = req[p] BY Moves DEF DropIdentity
<1>3. UNCHANGED <<link, role, job>> BY DEF DropIdentity
<1>4. \A p \in Request : Concerns(p, u)' => req'[p] = req[p] BY <1>2 DEF Concerns
<1>5. CASE identity'[u] = identity[u] BY <1>3, <1>4, <1>5, Frame
<1>6. CASE identity'[u] # identity[u]
  <2>1. v = u BY <1>1, <1>6 DEF DropIdentity, TypeOK
  <2>2. Disconnecting(u) BY <1>1, <2>1 DEF Disconnecting
  <2>3. ~Connecting(u) /\ u \notin job BY <2>2 DEF Undisturbed, Apart
  <2>4. link[u] = None BY <1>1, <2>1 DEF Undisturbed, Heeds, Concerns
  <2>5. Tied(u)' BY <1>3, <2>4 DEF Undisturbed, Tied
  <2>6. ASSUME NEW p \in Request PROVE ~(req'[p] # None /\ req'[p].kind \in {"connect", "linking"}
                                         /\ req'[p].user = u)
    BY <1>2, <2>3 DEF Connecting
  <2>7. Apart(u)' BY <1>3, <2>3, <2>6 DEF Apart, Connecting
  <2>8. ASSUME NEW p \in Request PROVE Heeds(p, u)'
    BY <1>3, <2>4, <2>6 DEF Heeds, Concerns
  <2>9. QED BY <2>5, <2>7, <2>8 DEF Undisturbed
<1>7. QED BY <1>5, <1>6

LEMMA JobRead ==
  ASSUME TypeOK, NEW u \in User, Undisturbed(u), u \notin crossed', JobReads
  PROVE  Undisturbed(u)'
<1>1. UNCHANGED <<identity, link, role, req>> BY DEF JobReads
<1>2. u \in job' => link[u] # None /\ ~Disconnecting(u) BY DEF JobReads
<1>3. Disconnecting(u)' = Disconnecting(u) /\ Connecting(u)' = Connecting(u)
  BY <1>1 DEF Disconnecting, Connecting
<1>4. Tied(u)' BY <1>1, <1>2 DEF Undisturbed, Tied
<1>5. Apart(u)' BY <1>2, <1>3 DEF Undisturbed, Apart
<1>6. \A p \in Request : Heeds(p, u)' BY <1>1 DEF Undisturbed, Heeds, Concerns
<1>7. QED BY <1>4, <1>5, <1>6 DEF Undisturbed

LEMMA CrossedStays ==
  ASSUME [Next]_vars
  PROVE  crossed \subseteq crossed'
<1>1. ASSUME NEW r \in Request, NEW d \in Discord, BeginLink(r, d) PROVE crossed \subseteq crossed'
  BY <1>1 DEF BeginLink, Crosses
<1>2. ASSUME NEW r \in Request, \/ CreateIdentity(r) \/ UpsertLink(r) \/ ReadIdentities(r)
                                \/ DropRoles(r) \/ DropLink(r) \/ DropIdentity(r)
      PROVE  crossed \subseteq crossed'
  BY <1>2 DEF CreateIdentity, UpsertLink, ReadIdentities, DropRoles, DropLink, DropIdentity, Crosses
<1>3. ASSUME JobReads \/ JobEnds \/ \E u \in User : JobGrants(u) PROVE crossed \subseteq crossed'
  BY <1>3 DEF JobReads, JobEnds, JobGrants
<1>4. QED BY <1>1, <1>2, <1>3, DiscordSteps DEF discord

LEMMA UndisturbedStep ==
  ASSUME TypeOK, [Next]_vars, NEW u \in User, u \notin crossed', Undisturbed(u)
  PROVE  Undisturbed(u)'
<1>1. ASSUME NEW p \in Request PROVE
        \/ Concerns(p, u)' => req'[p] = req[p]
        \/ \E d \in Discord : BeginLink(p, d)
        \/ CreateIdentity(p) \/ ReadIdentities(p) \/ ReadLinks(p) \/ DropLink(p)
  <2>1. ASSUME NEW s \in Session, resolve(p, s) PROVE ~Concerns(p, u)'
    BY <2>1 DEF resolve, Starts, Concerns, TypeOK
  <2>2. ASSUME NEW t \in Token, BeginVerification(p, t) \/ BeginReset(p, t) PROVE ~Concerns(p, u)'
    BY <2>2 DEF BeginVerification, BeginReset, Starts, Concerns, TypeOK
  <2>3. CASE req'[p] = None \/ req'[p].kind \in {"login", "user"} BY <2>3 DEF Concerns
  <2>4. QED BY <2>1, <2>2, <2>3, RequestStep
<1>2. CASE \E p \in Request : \/ \E d \in Discord : BeginLink(p, d)
                              \/ CreateIdentity(p) \/ ReadIdentities(p) \/ ReadLinks(p) \/ DropLink(p)
  BY <1>2, LinkBegins, IdentityMade, IdentitiesRead, LinksRead, LinkDropped
<1>3. CASE \A p \in Request : Concerns(p, u)' => req'[p] = req[p]
  <2>1. ASSUME NEW r \in Request, UpsertLink(r) \/ DropIdentity(r) PROVE Undisturbed(u)'
    BY <2>1, LinkMade, IdentityDropped
  <2>2. ASSUME NEW r \in Request, DropRoles(r) PROVE Undisturbed(u)'
    BY <1>3, <2>2, Frame DEF DropRoles
  <2>3. CASE UNCHANGED discord BY <1>3, <2>3, Frame DEF discord
  <2>4. CASE JobReads BY <2>4, JobRead
  <2>5. CASE JobEnds BY <1>3, <2>5, Frame DEF JobEnds
  <2>6. ASSUME NEW v \in User, JobGrants(v) PROVE Undisturbed(u)'
    BY <1>3, <2>6, Frame DEF JobGrants
  <2>7. QED BY <1>2, <2>1, <2>2, <2>3, <2>4, <2>5, <2>6, DiscordSteps
<1>4. QED BY <1>1, <1>2, <1>3

UndisturbedUsers == \A u \in User \ crossed : Undisturbed(u)

LEMMA UndisturbedUsersStep ==
  ASSUME TypeOK, [Next]_vars, UndisturbedUsers
  PROVE  UndisturbedUsers'
<1>1. ASSUME NEW u \in User, u \notin crossed' PROVE Undisturbed(u)'
  BY <1>1, CrossedStays, UndisturbedStep DEF UndisturbedUsers
<1>2. QED BY <1>1 DEF UndisturbedUsers

-----------------------------------------------------------------------------

AccountsInv == TypeOK /\ Remembered /\ DoubtEndsSessions /\ WayIn /\ UndisturbedUsers

LEMMA AccountsInit == Init => AccountsInv
<1> SUFFICES ASSUME Init PROVE AccountsInv
  OBVIOUS
<1>1. TypeOK BY TypeInit
<1>2. Remembered /\ DoubtEndsSessions BY DEF Init, Remembered, DoubtEndsSessions
<1>3. WayIn
  <2>1. PICK byPassword \in SUBSET User, d \in [User -> Discord], verified \in SUBSET User :
          /\ password = [u \in User |-> IF u \in byPassword
                                        THEN [resets |-> 0, verified |-> u \in verified] ELSE None]
          /\ identity = [u \in User |-> IF u \in byPassword THEN None
                                        ELSE [account |-> d[u], row |-> 0]]
    BY DEF Init
  <2>2. ASSUME NEW u \in User PROVE /\ [resets |-> 0, verified |-> u \in verified] \in PasswordRow
                                    /\ [account |-> d[u], row |-> 0] \in DiscordRow
    BY DEF PasswordRow, DiscordRow
  <2>3. QED BY <2>1, <2>2, NoneAssumption DEF WayIn
<1>4. UndisturbedUsers
  <2>1. ASSUME NEW u \in User PROVE Tied(u) /\ Apart(u)
    BY DEF Init, Tied, Apart, Disconnecting
  <2>2. ASSUME NEW u \in User, NEW p \in Request PROVE Heeds(p, u)
    BY DEF Init, Heeds, Concerns
  <2>3. QED BY <2>1, <2>2 DEF UndisturbedUsers, Undisturbed
<1>5. QED BY <1>1, <1>2, <1>3, <1>4 DEF AccountsInv

LEMMA AccountsStep == AccountsInv /\ [Next]_vars => AccountsInv'
BY TypeStep, RememberedStep, DoubtStep, WayInStep, UndisturbedUsersStep DEF AccountsInv

LEMMA AccountsInvariant == Spec => []AccountsInv
BY AccountsInit, AccountsStep, PTL DEF Spec

\* Every row and every request keeps its shape.
THEOREM AccountsTypeCorrect == Spec => []TypeOK
<1>1. AccountsInv => TypeOK BY DEF AccountsInv
<1>2. QED BY <1>1, AccountsInvariant, PTL

\* A password reset and a retirement leave no earlier session alive, whatever
\* requests were in the middle of using one (verification.service.ts 131-141).
THEOREM SessionsEnded == Spec => []DoubtEndsSessions
<1>1. AccountsInv => DoubtEndsSessions BY DEF AccountsInv
<1>2. QED BY <1>1, AccountsInvariant, PTL

\* A session nobody is about to slide never comes back once it ended
\* (session.service.ts 98-110).
THEOREM EndStays == Spec => EndIsFinal
<1>1. AccountsInv /\ [Next]_vars => [\A s \in Session : Ended(s) => Ended(s)']_vars
  BY EndStep DEF AccountsInv
<1>2. QED BY <1>1, AccountsInvariant, PTL DEF Spec, EndIsFinal

\* Nobody disconnects the last way in, with any number of requests of the same
\* user at once (discord-link.service.ts 153-159).
THEOREM SignInKept == Spec => []KeepsSignIn
<1>1. AccountsInv => KeepsSignIn BY WayInShown DEF AccountsInv
<1>2. QED BY <1>1, AccountsInvariant, PTL
\* Shown as connected means the account that signs in is the account that is
\* synced, for every user no two crossing requests or jobs disturbed
\* (discord-link.service.ts 38-110, 163-211).
THEOREM ConnectedBoth == Spec => []ConnectedMeansBoth
<1>1. AccountsInv => ConnectedMeansBoth
  <2>1. ASSUME UndisturbedUsers, NEW u \in User \ crossed
        PROVE  /\ getMe(u).hasDiscordLink => /\ "discord" \in getMe(u).authMethods
                                             /\ identity[u].account = link[u].account
               /\ u \in role => link[u] # None
    BY <2>1 DEF UndisturbedUsers, Undisturbed, Tied, getMe
  <2>2. QED BY <2>1 DEF AccountsInv, ConnectedMeansBoth
<1>2. QED BY <1>1, AccountsInvariant, PTL
=============================================================================
