-------------------------- MODULE InvitationsProofs --------------------------
(***************************************************************************)
(* The uses of invitations, for any people, invitations, requests and      *)
(* processes.                                                              *)
(*                                                                         *)
(* A request carries an invitation it found some steps ago.  Rows are never *)
(* deleted, so the row is still there when it is used (RowsStay); what the *)
(* row says by then is for the guard of TakeUse.  The roles were within    *)
(* the issuer's scope at some moment of the request, and reach collects    *)
(* those moments (WithinReach).                                            *)
(***************************************************************************)
EXTENDS Invitations, FiniteSetTheorems, TLAPS

\* A request redeems.
Redeems(r) == req[r] # None /\ req[r].kind \in {"read", "checked"}

RowsStay ==
  /\ \A r \in Request : Redeems(r) => inv[req[r].inv] # None
  /\ \A a \in Api : api[a].found # None => inv[api[a].found] # None

\* Nobody has registered by an invitation that was never issued.
Counted ==
  \A i \in Invitation :
    /\ IsFiniteSet(Registered(i))
    /\ Cardinality(Registered(i)) = IF inv[i] = None THEN 0 ELSE inv[i].uses

WithinReach ==
  \A r \in Request : Redeems(r) =>
    /\ req[r].kind = "read" => scope \subseteq reach[r]
    /\ req[r].kind = "checked" /\ req[r].inv \in Normal => req[r].roles \subseteq reach[r]

-----------------------------------------------------------------------------
(* Types *)

\* What a request is, by its kind.
LEMMA RequestShape ==
  ASSUME TypeOK, NEW r \in Request, req[r] # None
  PROVE  /\ req[r].kind = "create" => req[r] \in Issuance
         /\ req[r].kind \in {"read", "checked"} => req[r] \in Redemption
         /\ req[r].kind \in {"create", "read", "checked"}
BY DEF TypeOK, Issuance, Redemption

LEMMA RowShape ==
  ASSUME TypeOK, NEW i \in Invitation, inv[i] # None
  PROVE  inv[i] \in InvitationRow
BY DEF TypeOK

LEMMA DoneTyped ==
  ASSUME TypeOK, NEW r \in Request, Done(r)
  PROVE  /\ req' \in [Request -> {None} \cup Redemption \cup Issuance]
         /\ reach' \in [Request -> SUBSET Role]
BY DEF TypeOK, Done

\* The guarded UPDATE counts from zero to one.
LEMMA UseTyped ==
  ASSUME TypeOK, NEW i \in Invitation, inv[i] # None, TakeUse(i)
  PROVE  /\ inv' = [inv EXCEPT ![i] = [inv[i] EXCEPT !.uses = 1]]
         /\ [inv[i] EXCEPT !.uses = 1] \in InvitationRow
         /\ inv[i].uses = 0 /\ ~inv[i].revoked /\ ~inv[i].expired
<1>1. inv[i] \in InvitationRow BY RowShape
<1>2. ~inv[i].revoked /\ ~inv[i].expired /\ ~(inv[i].uses >= 1)
  BY <1>1 DEF TakeUse, deriveInvitationStatus, InvitationRow
<1>3. inv[i].uses = 0 BY <1>1, <1>2 DEF InvitationRow
<1>4. [inv[i] EXCEPT !.uses = 1] \in InvitationRow BY <1>1 DEF InvitationRow
<1>5. inv' = [inv EXCEPT ![i] = [inv[i] EXCEPT !.uses = 1]]
  BY <1>1, <1>3 DEF TakeUse, TypeOK
<1>6. QED BY <1>2, <1>3, <1>4, <1>5

LEMMA InitTyped == Init => TypeOK
<1> SUFFICES ASSUME Init PROVE TypeOK
  OBVIOUS
<1>1. api \in [Api -> [phase : {"down", "seeded", "closing", "looking", "minting", "up"},
                      found : System \cup {None}, token : Nat]]
  BY DEF Init, Down
<1>2. inv \in [Invitation -> {None} \cup InvitationRow] /\ account \in [Person -> {None} \cup Account]
  BY DEF Init
<1>3. /\ req \in [Request -> {None} \cup Redemption \cup Issuance]
      /\ reach \in [Request -> SUBSET Role]
  BY DEF Init
<1>4. keys \in Nat /\ events \in 0..MaxEvents BY BoundAssumption DEF Init
<1>5. QED BY <1>1, <1>2, <1>3, <1>4 DEF Init, TypeOK

LEMMA IssueTyped ==
  ASSUME TypeOK, NEW r \in Request, Issue(r)
  PROVE  TypeOK'
<1>1. ASSUME NEW roles \in SUBSET Role, BeginCreate(r, roles) PROVE TypeOK'
  <2>1. [kind |-> "create", roles |-> roles] \in Issuance BY DEF Issuance
  <2>2. QED BY <1>1, <2>1 DEF TypeOK, BeginCreate, authority
<1>2. ASSUME NEW i \in Normal, NEW bound \in Person \cup {None}, Create(r, i, bound) PROVE TypeOK'
  <2>1. req[r].roles \in SUBSET Role BY <1>2, RequestShape DEF Create, Issuance
  <2>2. [roles |-> req[r].roles, bound |-> bound, uses |-> 0, revoked |-> FALSE,
         expired |-> FALSE, key |-> 0] \in InvitationRow
    BY <2>1 DEF InvitationRow
  <2>3. inv' \in [Invitation -> {None} \cup InvitationRow] BY <1>2, <2>2 DEF Create, TypeOK
  <2>4. Done(r) BY <1>2 DEF Create
  <2>5. QED BY <1>2, <2>3, <2>4, DoneTyped DEF Create, TypeOK, authority
<1>3. QED BY <1>1, <1>2 DEF Issue

LEMMA AcceptTyped ==
  ASSUME TypeOK, RowsStay, NEW r \in Request, Accept(r)
  PROVE  TypeOK'
<1>1. ASSUME NEW p \in Person, NEW i \in Invitation, ReadInvitation(r, p, i) PROVE TypeOK'
  <2>1. inv[i] \in InvitationRow BY <1>1, RowShape DEF ReadInvitation
  <2>2. [kind |-> "read", inv |-> i, person |-> p, roles |-> inv[i].roles, key |-> inv[i].key]
          \in Redemption
    BY <2>1 DEF Redemption, InvitationRow
  <2>3. req' \in [Request -> {None} \cup Redemption \cup Issuance]
    BY <1>1, <2>2 DEF ReadInvitation, TypeOK
  <2>4. reach' \in [Request -> SUBSET Role] BY <1>1 DEF ReadInvitation, TypeOK
  <2>5. QED BY <1>1, <2>3, <2>4 DEF ReadInvitation, TypeOK, authority
<1>2. CASE CheckRoles(r)
  <2>1. req[r] \in Redemption BY <1>2, RequestShape DEF CheckRoles
  <2>2. [req[r] EXCEPT !.kind = "checked"] \in Redemption BY <2>1 DEF Redemption
  <2>3. QED BY <1>2, <2>2 DEF CheckRoles, TypeOK, authority
<1>3. CASE Redeem(r)
  <2>1. req[r] \in Redemption BY <1>3, RequestShape DEF Redeem
  <2>2. PICK i \in Invitation, p \in Person : i = req[r].inv /\ p = req[r].person
    BY <2>1 DEF Redemption
  <2>3. inv[i] # None /\ TakeUse(i)
    BY <1>3, <2>2 DEF Redeem, RowsStay, Redeems
  <2>4. inv' \in [Invitation -> {None} \cup InvitationRow] BY <2>3, UseTyped DEF TypeOK
  <2>5. [via |-> i, roles |-> req[r].roles] \in Account BY <2>1 DEF Redemption, Account
  <2>6. account' = [account EXCEPT ![p] = [via |-> i, roles |-> req[r].roles]]
    BY <1>3, <2>2 DEF Redeem
  <2>7. account' \in [Person -> {None} \cup Account] BY <2>5, <2>6 DEF TypeOK
  <2>8. Done(r) BY <1>3 DEF Redeem
  <2>9. QED BY <1>3, <2>4, <2>7, <2>8, DoneTyped DEF Redeem, TypeOK, authority
<1>4. CASE Refuse(r)
  BY <1>4, DoneTyped DEF Refuse, TypeOK, authority
<1>5. QED BY <1>1, <1>2, <1>3, <1>4 DEF Accept, RedeemBootstrap, Invitation

LEMMA BootTyped ==
  ASSUME TypeOK, RowsStay, NEW a \in Api, Boot(a)
  PROVE  TypeOK'
<1>1. CASE ensureSeed(a) BY <1>1 DEF ensureSeed, TypeOK
<1>2. CASE LookForAdmin(a) BY <1>2 DEF LookForAdmin, TypeOK, authority
<1>3. CASE closeBootstrap(a)
  <2>1. ASSUME NEW i \in Invitation PROVE inv'[i] \in {None} \cup InvitationRow
    <3>1. CASE inv[i] = None BY <1>3, <3>1 DEF closeBootstrap
    <3>2. CASE inv[i] # None
      <4>1. [inv[i] EXCEPT !.revoked = TRUE] \in InvitationRow BY <3>2, RowShape DEF InvitationRow
      <4>2. QED BY <1>3, <3>2, <4>1, RowShape DEF closeBootstrap
    <3>3. QED BY <3>1, <3>2
  <2>2. inv' \in [Invitation -> {None} \cup InvitationRow] BY <1>3, <2>1 DEF closeBootstrap
  <2>3. QED BY <1>3, <2>2 DEF closeBootstrap, TypeOK, authority
<1>4. CASE FindInvitation(a)
  <2>1. Live \subseteq System BY DEF Live
  <2>2. (IF Live = {} THEN None ELSE CHOOSE i \in Live : TRUE) \in System \cup {None} BY <2>1
  <2>3. QED BY <1>4, <2>2 DEF FindInvitation, TypeOK, authority
<1>5. CASE Rotate(a)
  <2>1. inv' \in [Invitation -> {None} \cup InvitationRow]
    <3>1. PICK i \in System : i = api[a].found BY <1>5 DEF Rotate, TypeOK
    <3>2. i \in Invitation BY DEF Invitation
    <3>3. inv[i] \in InvitationRow BY <1>5, <3>1, <3>2, RowShape DEF Rotate, RowsStay
    <3>4. [[inv[i] EXCEPT !.key = keys + 1] EXCEPT !.expired = FALSE] \in InvitationRow
      <4>1. keys + 1 \in Nat BY DEF TypeOK
      <4>2. QED BY <3>3, <4>1 DEF InvitationRow
    <3>5. inv' = [inv EXCEPT ![i] = [[inv[i] EXCEPT !.key = keys + 1] EXCEPT !.expired = FALSE]]
      BY <1>5, <3>1, <3>2 DEF Rotate, TypeOK
    <3>6. QED BY <3>4, <3>5 DEF TypeOK
  <2>2. QED BY <1>5, <2>1 DEF Rotate, Up, TypeOK, authority
<1>6. CASE MintRefused(a) BY <1>6 DEF MintRefused, Down, TypeOK, authority
<1>7. ASSUME NEW i \in System, Mint(a, i) PROVE TypeOK'
  <2>1. [roles |-> {Admin}, bound |-> None, uses |-> 0, revoked |-> FALSE,
         expired |-> FALSE, key |-> keys + 1] \in InvitationRow
    BY AdminAssumption DEF TypeOK, InvitationRow
  <2>2. inv' \in [Invitation -> {None} \cup InvitationRow] BY <1>7, <2>1 DEF Mint, TypeOK
  <2>3. QED BY <1>7, <2>2 DEF Mint, Up, TypeOK, authority
<1>8. QED BY <1>1, <1>2, <1>3, <1>4, <1>5, <1>6, <1>7 DEF Boot

LEMMA AuthorityTyped ==
  ASSUME TypeOK, \/ \E roles \in SUBSET Role : ChangeScope(roles)
                 \/ HandOver \/ DisableAdminRole \/ LoseOther
  PROVE  TypeOK'
<1>0. ASSUME Happens PROVE events' \in 0..MaxEvents
  BY <1>0, BoundAssumption DEF Happens, TypeOK
<1>1. ASSUME NEW roles \in SUBSET Role, ChangeScope(roles) PROVE TypeOK'
  <2>1. ASSUME NEW r \in Request
        PROVE (IF req[r] = None THEN {} ELSE reach[r] \cup roles) \in SUBSET Role
    BY DEF TypeOK
  <2>2. reach' \in [Request -> SUBSET Role] BY <1>1, <2>1 DEF ChangeScope
  <2>3. QED BY <1>0, <1>1, <2>2 DEF ChangeScope, TypeOK
<1>2. CASE HandOver BY <1>0, <1>2 DEF HandOver, TypeOK
<1>3. CASE DisableAdminRole BY <1>0, <1>3 DEF DisableAdminRole, TypeOK
<1>4. CASE LoseOther BY <1>0, <1>4 DEF LoseOther, TypeOK
<1>5. QED BY <1>1, <1>2, <1>3, <1>4

LEMMA EndTyped ==
  ASSUME TypeOK, NEW i \in Invitation, Revoke(i) \/ Expire(i)
  PROVE  TypeOK'
<1>1. inv[i] \in InvitationRow BY RowShape DEF Revoke, Expire
<1>2. /\ [inv[i] EXCEPT !.revoked = TRUE] \in InvitationRow
      /\ [inv[i] EXCEPT !.expired = TRUE] \in InvitationRow
  BY <1>1 DEF InvitationRow
<1>3. inv' \in [Invitation -> {None} \cup InvitationRow] BY <1>2 DEF Revoke, Expire, TypeOK
<1>4. events' \in 0..MaxEvents BY BoundAssumption DEF Revoke, Expire, Happens, TypeOK
<1>5. QED BY <1>3, <1>4 DEF Revoke, Expire, TypeOK, authority

LEMMA TypeStep == TypeOK /\ RowsStay /\ [Next]_vars => TypeOK'
<1> SUFFICES ASSUME TypeOK, RowsStay, [Next]_vars PROVE TypeOK'
  OBVIOUS
<1>1. CASE UNCHANGED vars BY <1>1 DEF vars, authority, TypeOK
<1>2. ASSUME NEW a \in Api, Crash(a) PROVE TypeOK'
  <2>1. events' \in 0..MaxEvents BY <1>2, BoundAssumption DEF Crash, Happens, TypeOK
  <2>2. QED BY <1>2, <2>1 DEF Crash, Down, TypeOK, authority
<1>3. QED BY <1>1, <1>2, IssueTyped, AcceptTyped, AuthorityTyped, EndTyped, BootTyped
          DEF Next, Invitation

-----------------------------------------------------------------------------
(* What a step may do to a row *)

UsesOf(i) == IF inv[i] = None THEN 0 ELSE inv[i].uses

\* A row that is there stays, and only a redemption takes a use.
LEMMA RowStep ==
  ASSUME TypeOK, RowsStay, [Next]_vars, NEW i \in Invitation
  PROVE  /\ inv[i] # None => inv'[i] # None
         /\ UsesOf(i)' = UsesOf(i) \/ \E r \in Request : Redeem(r) /\ req[r].inv = i
<1>0. TypeOK' BY TypeStep
<1>1. CASE inv' = inv BY <1>1 DEF UsesOf
<1>2. ASSUME NEW r \in Request, NEW j \in Normal, NEW bound \in Person \cup {None},
             Create(r, j, bound)
      PROVE (inv[i] # None => inv'[i] # None) /\ UsesOf(i)' = UsesOf(i)
  <2>1. inv[j] = None /\ j \in Invitation BY <1>2 DEF Create, Invitation
  <2>2. CASE i = j
    <3>1. inv'[i] = [roles |-> req[r].roles, bound |-> bound, uses |-> 0, revoked |-> FALSE,
                     expired |-> FALSE, key |-> 0]
      BY <1>2, <2>1, <2>2 DEF Create, TypeOK
    <3>2. inv'[i].uses = 0 BY <3>1
    <3>3. QED BY <2>1, <2>2, <3>2 DEF UsesOf
  <2>3. CASE i # j BY <1>2, <2>3 DEF Create, TypeOK, UsesOf
  <2>4. QED BY <2>2, <2>3
<1>3. ASSUME NEW j \in Invitation, Revoke(j) \/ Expire(j)
      PROVE (inv[i] # None => inv'[i] # None) /\ UsesOf(i)' = UsesOf(i)
  <2>1. inv[j] \in InvitationRow BY <1>3, RowShape DEF Revoke, Expire
  <2>2. CASE i = j
    <3>0. \/ inv'[i] = [inv[i] EXCEPT !.revoked = TRUE]
          \/ inv'[i] = [inv[i] EXCEPT !.expired = TRUE]
      BY <1>3, <2>2 DEF Revoke, Expire, TypeOK
    <3>1. inv'[i] \in InvitationRow /\ inv'[i].uses = inv[i].uses
      BY <2>1, <2>2, <3>0 DEF InvitationRow
    <3>2. inv'[i] # None /\ inv[i] # None BY <2>1, <2>2, <3>1, NoneAssumption
    <3>3. QED BY <3>1, <3>2 DEF UsesOf
  <2>3. CASE i # j BY <1>3, <2>3 DEF Revoke, Expire, TypeOK, UsesOf
  <2>4. QED BY <2>2, <2>3
<1>4. ASSUME NEW r \in Request, Redeem(r)
      PROVE /\ inv[i] # None => inv'[i] # None
            /\ i # req[r].inv => UsesOf(i)' = UsesOf(i)
  <2>1. req[r] \in Redemption BY <1>4, RequestShape DEF Redeem
  <2>2. PICK j \in Invitation : j = req[r].inv BY <2>1 DEF Redemption
  <2>3. inv[j] # None /\ TakeUse(j) BY <1>4, <2>2 DEF Redeem, RowsStay, Redeems
  <2>4. /\ inv' = [inv EXCEPT ![j] = [inv[j] EXCEPT !.uses = 1]]
        /\ [inv[j] EXCEPT !.uses = 1] \in InvitationRow
    BY <2>3, UseTyped
  <2>5. [inv[j] EXCEPT !.uses = 1] # None BY <2>4, NoneAssumption
  <2>6. QED BY <2>2, <2>4, <2>5 DEF TypeOK, UsesOf
<1>5. ASSUME NEW a \in Api, closeBootstrap(a)
      PROVE (inv[i] # None => inv'[i] # None) /\ UsesOf(i)' = UsesOf(i)
  <2>1. CASE inv[i] = None BY <1>5, <2>1 DEF closeBootstrap, UsesOf
  <2>2. CASE inv[i] # None
    <3>1. inv[i] \in InvitationRow BY <2>2, RowShape
    <3>2. inv'[i] \in InvitationRow /\ inv'[i].uses = inv[i].uses
      BY <1>5, <3>1 DEF closeBootstrap, InvitationRow
    <3>3. inv'[i] # None BY <3>2, NoneAssumption
    <3>4. QED BY <2>2, <3>2, <3>3 DEF UsesOf
  <2>3. QED BY <2>1, <2>2
<1>6. ASSUME NEW a \in Api, Rotate(a)
      PROVE (inv[i] # None => inv'[i] # None) /\ UsesOf(i)' = UsesOf(i)
  <2>1. PICK j \in System : j = api[a].found BY <1>6 DEF Rotate, TypeOK
  <2>2. j \in Invitation BY DEF Invitation
  <2>3. inv[j] \in InvitationRow BY <1>6, <2>1, <2>2, RowShape DEF Rotate, RowsStay
  <2>4. CASE i = j
    <3>0. inv'[i] = [[inv[i] EXCEPT !.key = keys + 1] EXCEPT !.expired = FALSE]
      BY <1>6, <2>1, <2>2, <2>4 DEF Rotate, TypeOK
    <3>1. inv'[i] \in InvitationRow /\ inv'[i].uses = inv[i].uses
      <4>1. keys + 1 \in Nat BY DEF TypeOK
      <4>2. QED BY <2>3, <2>4, <3>0, <4>1 DEF InvitationRow
    <3>2. inv'[i] # None /\ inv[i] # None BY <2>3, <2>4, <3>1, NoneAssumption
    <3>3. QED BY <3>1, <3>2 DEF UsesOf
  <2>5. CASE i # j BY <1>6, <2>1, <2>5 DEF Rotate, TypeOK, UsesOf
  <2>6. QED BY <2>4, <2>5
<1>7. ASSUME NEW a \in Api, NEW j \in System, Mint(a, j)
      PROVE (inv[i] # None => inv'[i] # None) /\ UsesOf(i)' = UsesOf(i)
  <2>1. inv[j] = None /\ j \in Invitation BY <1>7 DEF Mint, Invitation
  <2>2. CASE i = j
    <3>1. inv'[i] = [roles |-> {Admin}, bound |-> None, uses |-> 0, revoked |-> FALSE,
                     expired |-> FALSE, key |-> keys + 1]
      BY <1>7, <2>1, <2>2 DEF Mint, TypeOK
    <3>2. inv'[i].uses = 0 BY <3>1
    <3>3. QED BY <2>1, <2>2, <3>2 DEF UsesOf
  <2>3. CASE i # j BY <1>7, <2>3 DEF Mint, TypeOK, UsesOf
  <2>4. QED BY <2>2, <2>3
<1>8. \/ inv' = inv
      \/ \E r \in Request, j \in Normal, bound \in Person \cup {None} : Create(r, j, bound)
      \/ \E j \in Invitation : Revoke(j) \/ Expire(j)
      \/ \E r \in Request : Redeem(r)
      \/ \E a \in Api : closeBootstrap(a) \/ Rotate(a) \/ \E j \in System : Mint(a, j)
  <2>1. ASSUME NEW r \in Request, Issue(r)
        PROVE  \/ inv' = inv
               \/ \E j \in Normal, bound \in Person \cup {None} : Create(r, j, bound)
    BY <2>1 DEF Issue, BeginCreate
  <2>2. ASSUME NEW r \in Request, Accept(r) PROVE inv' = inv \/ Redeem(r)
    BY <2>2 DEF Accept, RedeemBootstrap, ReadInvitation, CheckRoles, Refuse
  <2>3. ASSUME NEW a \in Api, Boot(a)
        PROVE  inv' = inv \/ closeBootstrap(a) \/ Rotate(a) \/ \E j \in System : Mint(a, j)
    BY <2>3 DEF Boot, ensureSeed, LookForAdmin, FindInvitation, MintRefused
  <2>4. ASSUME NEW a \in Api, Crash(a) PROVE inv' = inv BY <2>4 DEF Crash
  <2>5. ASSUME \/ \E roles \in SUBSET Role : ChangeScope(roles)
               \/ HandOver \/ DisableAdminRole \/ LoseOther
        PROVE  inv' = inv
    BY <2>5 DEF ChangeScope, HandOver, DisableAdminRole, LoseOther
  <2>6. CASE UNCHANGED vars BY <2>6 DEF vars
  <2>7. QED BY <2>1, <2>2, <2>3, <2>4, <2>5, <2>6 DEF Next, Invitation
<1>9. QED BY <1>1, <1>2, <1>3, <1>4, <1>5, <1>6, <1>7, <1>8

-----------------------------------------------------------------------------
(* Redemption *)

\* Only a redemption registers anybody.
LEMMA AccountStep ==
  ASSUME [Next]_vars
  PROVE  account' = account \/ \E r \in Request : Redeem(r)
<1>1. ASSUME NEW r \in Request, Issue(r) PROVE account' = account
  BY <1>1 DEF Issue, BeginCreate, Create
<1>2. ASSUME NEW r \in Request, Accept(r) PROVE account' = account \/ Redeem(r)
  BY <1>2 DEF Accept, RedeemBootstrap, ReadInvitation, CheckRoles, Refuse
<1>3. ASSUME NEW a \in Api, Boot(a) \/ Crash(a) PROVE account' = account
  BY <1>3 DEF Boot, ensureSeed, LookForAdmin, closeBootstrap, FindInvitation, Rotate, Mint,
     MintRefused, Crash
<1>4. ASSUME \/ \E i \in Invitation : Revoke(i) \/ Expire(i)
             \/ \E roles \in SUBSET Role : ChangeScope(roles)
             \/ HandOver \/ DisableAdminRole \/ LoseOther
      PROVE  account' = account
  BY <1>4 DEF Revoke, Expire, ChangeScope, HandOver, DisableAdminRole, LoseOther
<1>5. CASE UNCHANGED vars BY <1>5 DEF vars
<1>6. QED BY <1>1, <1>2, <1>3, <1>4, <1>5 DEF Next, Invitation

\* A redemption is one use of a pending invitation and one account that is new.
LEMMA RedeemStep ==
  ASSUME TypeOK, RowsStay, NEW r \in Request, Redeem(r)
  PROVE  \E i \in Invitation, p \in Person :
           /\ i = req[r].inv /\ p = req[r].person /\ req[r] \in Redemption
           /\ inv[i] # None /\ inv[i].uses = 0 /\ ~inv[i].revoked /\ ~inv[i].expired
           /\ UsesOf(i) = 0 /\ UsesOf(i)' = 1
           /\ p \notin Registered(i)
           /\ Registered(i)' = Registered(i) \cup {p}
           /\ \A j \in Invitation \ {i} : Registered(j)' = Registered(j)
           /\ account' = [account EXCEPT ![p] = [via |-> i, roles |-> req[r].roles]]
<1>1. req[r] \in Redemption BY RequestShape DEF Redeem
<1>2. PICK i \in Invitation, p \in Person : i = req[r].inv /\ p = req[r].person
  BY <1>1 DEF Redemption
<1>3. inv[i] # None /\ TakeUse(i) BY <1>2 DEF Redeem, RowsStay, Redeems
<1>4. /\ inv' = [inv EXCEPT ![i] = [inv[i] EXCEPT !.uses = 1]]
      /\ [inv[i] EXCEPT !.uses = 1] \in InvitationRow
      /\ inv[i].uses = 0 /\ ~inv[i].revoked /\ ~inv[i].expired
  BY <1>3, UseTyped
<1>5. inv'[i] = [inv[i] EXCEPT !.uses = 1] BY <1>4 DEF TypeOK
<1>6. inv'[i] # None /\ inv'[i].uses = 1
  BY <1>3, <1>4, <1>5, RowShape, NoneAssumption DEF InvitationRow
<1>7. UsesOf(i) = 0 /\ UsesOf(i)' = 1 BY <1>3, <1>4, <1>6 DEF UsesOf
<1>8. /\ account[p] = None
      /\ account' = [account EXCEPT ![p] = [via |-> i, roles |-> req[r].roles]]
  BY <1>2 DEF Redeem
<1>9. [via |-> i, roles |-> req[r].roles] \in Account BY <1>1 DEF Redemption, Account
<1>10. account'[p] # None /\ account'[p].via = i
  BY <1>8, <1>9, NoneAssumption DEF TypeOK, Account
<1>11. \A q \in Person \ {p} : account'[q] = account[q] BY <1>8 DEF TypeOK
<1>12. p \notin Registered(i) /\ Registered(i)' = Registered(i) \cup {p}
  BY <1>8, <1>10, <1>11 DEF Registered
<1>13. \A j \in Invitation \ {i} : Registered(j)' = Registered(j)
  BY <1>8, <1>10, <1>11 DEF Registered
<1>14. QED BY <1>1, <1>2, <1>3, <1>4, <1>7, <1>8, <1>12, <1>13

\* How a request goes on: it waits while the scope it has met grows, it ends or is
\* an issue, or it takes one of the two steps before the redemption.
LEMMA RequestStep ==
  ASSUME TypeOK, [Next]_vars, NEW r \in Request
  PROVE  \/ /\ req'[r] = req[r]
            /\ req[r] # None => /\ reach[r] \subseteq reach'[r]
                                /\ scope' = scope \/ scope' \subseteq reach'[r]
         \/ req'[r] = None
         \/ \E roles \in SUBSET Role : req'[r] = [kind |-> "create", roles |-> roles]
         \/ \E p \in Person, i \in Invitation : ReadInvitation(r, p, i)
         \/ CheckRoles(r)
<1> DEFINE Waits == /\ req'[r] = req[r]
                    /\ req[r] # None => /\ reach[r] \subseteq reach'[r]
                                        /\ scope' = scope \/ scope' \subseteq reach'[r]
<1>1. ASSUME req' = req, reach' = reach, scope' = scope PROVE Waits
  BY <1>1
<1>2. ASSUME NEW s \in Request, Done(s), scope' = scope PROVE req'[r] = None \/ Waits
  BY <1>2 DEF Done, TypeOK
<1>3. ASSUME NEW s \in Request, NEW roles \in SUBSET Role, BeginCreate(s, roles)
      PROVE  req'[r] = [kind |-> "create", roles |-> roles] \/ Waits
  BY <1>3 DEF BeginCreate, authority, TypeOK
<1>4. ASSUME NEW s \in Request, NEW p \in Person, NEW i \in Invitation, ReadInvitation(s, p, i)
      PROVE  ReadInvitation(r, p, i) \/ Waits
  <2>1. CASE s = r BY <1>4, <2>1
  <2>2. CASE s # r BY <1>4, <2>2 DEF ReadInvitation, authority, TypeOK
  <2>3. QED BY <2>1, <2>2
<1>5. ASSUME NEW s \in Request, CheckRoles(s) PROVE CheckRoles(r) \/ Waits
  <2>1. CASE s = r BY <1>5, <2>1
  <2>2. CASE s # r BY <1>5, <2>2 DEF CheckRoles, authority, TypeOK
  <2>3. QED BY <2>1, <2>2
<1>6. ASSUME NEW s \in Request, Issue(s)
      PROVE  req'[r] = None \/ Waits \/ \E roles \in SUBSET Role :
                                         req'[r] = [kind |-> "create", roles |-> roles]
  <2>1. ASSUME NEW i \in Normal, NEW bound \in Person \cup {None}, Create(s, i, bound)
        PROVE  Done(s) /\ scope' = scope
    BY <2>1 DEF Create, authority
  <2>2. QED BY <1>2, <1>3, <1>6, <2>1 DEF Issue
<1>7. ASSUME NEW s \in Request, Accept(s)
      PROVE  \/ req'[r] = None \/ Waits
             \/ \E p \in Person, i \in Invitation : ReadInvitation(r, p, i)
             \/ CheckRoles(r)
  <2>1. ASSUME Redeem(s) \/ Refuse(s) PROVE Done(s) /\ scope' = scope
    BY <2>1 DEF Redeem, Refuse, authority
  <2>2. QED BY <1>2, <1>4, <1>5, <1>7, <2>1 DEF Accept, RedeemBootstrap, Invitation
<1>8. ASSUME NEW roles \in SUBSET Role, ChangeScope(roles) PROVE Waits
  BY <1>8 DEF ChangeScope, TypeOK
<1>9. ASSUME \/ \E i \in Invitation : Revoke(i) \/ Expire(i)
             \/ HandOver \/ DisableAdminRole \/ LoseOther
             \/ \E a \in Api : Boot(a) \/ Crash(a)
             \/ UNCHANGED vars
      PROVE  Waits
  <2>1. ASSUME NEW a \in Api, Boot(a) \/ Crash(a)
        PROVE  req' = req /\ reach' = reach /\ scope' = scope
    BY <2>1 DEF Boot, ensureSeed, LookForAdmin, closeBootstrap, FindInvitation, Rotate, Mint,
       MintRefused, Crash, authority
  <2>2. ASSUME NEW i \in Invitation, Revoke(i) \/ Expire(i)
        PROVE  req' = req /\ reach' = reach /\ scope' = scope
    BY <2>2 DEF Revoke, Expire, authority
  <2>3. ASSUME HandOver \/ DisableAdminRole \/ LoseOther
        PROVE  req' = req /\ reach' = reach /\ scope' = scope
    BY <2>3 DEF HandOver, DisableAdminRole, LoseOther
  <2>4. ASSUME UNCHANGED vars PROVE req' = req /\ reach' = reach /\ scope' = scope
    BY <2>4 DEF vars, authority
  <2>5. QED BY <1>1, <1>9, <2>1, <2>2, <2>3, <2>4
<1> HIDE DEF Waits
<1>10. Waits \/ req'[r] = None
       \/ (\E roles \in SUBSET Role : req'[r] = [kind |-> "create", roles |-> roles])
       \/ (\E p \in Person, i \in Invitation : ReadInvitation(r, p, i))
       \/ CheckRoles(r)
  BY <1>6, <1>7, <1>8, <1>9 DEF Next, Invitation
<1>11. QED BY <1>10 DEF Waits

\* A process finds an invitation that is there, or goes on with the one it found.
LEMMA FindStep ==
  ASSUME TypeOK, [Next]_vars, NEW a \in Api
  PROVE  api'[a].found \in {None, api[a].found} \/ inv[api'[a].found] # None
<1>1. ASSUME NEW b \in Api, Boot(b)
      PROVE  api'[a].found \in {None, api[a].found} \/ inv[api'[a].found] # None
  <2>1. ASSUME ensureSeed(b) \/ LookForAdmin(b) \/ closeBootstrap(b)
        PROVE  api'[a].found = api[a].found
    <3>1. \E phase : api' = [api EXCEPT ![b].phase = phase]
      BY <2>1 DEF ensureSeed, LookForAdmin, closeBootstrap
    <3>2. QED BY <3>1 DEF TypeOK
  <2>2. ASSUME FindInvitation(b)
        PROVE  api'[a].found \in {None, api[a].found} \/ inv[api'[a].found] # None
    <3>1. CASE a = b
      <4>1. api'[a].found = IF Live = {} THEN None ELSE CHOOSE i \in Live : TRUE
        BY <2>2, <3>1 DEF FindInvitation, TypeOK
      <4>2. CASE Live = {} BY <4>1, <4>2
      <4>3. CASE Live # {}
        <5>1. api'[a].found \in Live BY <4>1, <4>3
        <5>2. QED BY <5>1 DEF Live
      <4>4. QED BY <4>2, <4>3
    <3>2. CASE a # b BY <2>2, <3>2 DEF FindInvitation, TypeOK
    <3>3. QED BY <3>1, <3>2
  <2>3. ASSUME Rotate(b) \/ MintRefused(b) \/ \E i \in System : Mint(b, i)
        PROVE  api'[a].found \in {None, api[a].found}
    <3>1. \E phase, key : api' = [api EXCEPT ![b] = [phase |-> phase, found |-> None, token |-> key]]
      BY <2>3 DEF Rotate, MintRefused, Mint, Up, Down
    <3>2. QED BY <3>1 DEF TypeOK
  <2>4. QED BY <1>1, <2>1, <2>2, <2>3 DEF Boot
<1>2. ASSUME NEW b \in Api, Crash(b) PROVE api'[a].found \in {None, api[a].found}
  BY <1>2 DEF Crash, Down, TypeOK
<1>3. ASSUME NEW r \in Request, Issue(r) \/ Accept(r) PROVE api' = api
  BY <1>3 DEF Issue, BeginCreate, Create, Accept, RedeemBootstrap, ReadInvitation, CheckRoles,
     Redeem, Refuse
<1>4. ASSUME \/ \E i \in Invitation : Revoke(i) \/ Expire(i)
             \/ \E roles \in SUBSET Role : ChangeScope(roles)
             \/ HandOver \/ DisableAdminRole \/ LoseOther \/ UNCHANGED vars
      PROVE  api' = api
  BY <1>4 DEF Revoke, Expire, ChangeScope, HandOver, DisableAdminRole, LoseOther, vars
<1>5. QED BY <1>1, <1>2, <1>3, <1>4 DEF Next, Invitation

\* A request carries the invitation it found, a process the one it found.
LEMMA RowsStayStep ==
  ASSUME TypeOK, RowsStay, [Next]_vars
  PROVE  RowsStay'
<1>0. TypeOK' BY TypeStep
<1>1. ASSUME NEW r \in Request, Redeems(r)' PROVE (inv[req[r].inv] # None)'
  <2>1. req'[r] \in Redemption BY <1>0, <1>1, RequestShape DEF Redeems, TypeOK, Issuance
  <2>2. PICK i \in Invitation : i = req'[r].inv BY <2>1 DEF Redemption
  <2>3. CASE req'[r] = req[r]
    <3>1. inv[i] # None BY <1>1, <2>2, <2>3 DEF Redeems, RowsStay
    <3>2. QED BY <2>2, <3>1, RowStep
  <2>4. ASSUME NEW p \in Person, NEW j \in Invitation, ReadInvitation(r, p, j)
        PROVE  (inv[req[r].inv] # None)'
    <3>1. inv[j] # None /\ req'[r].inv = j BY <2>4 DEF ReadInvitation, TypeOK
    <3>2. QED BY <3>1, RowStep
  <2>5. CASE CheckRoles(r)
    <3>1. req[r] \in Redemption BY <2>5, RequestShape DEF CheckRoles
    <3>2. req'[r].inv = req[r].inv BY <2>5, <3>1 DEF CheckRoles, TypeOK, Redemption
    <3>3. inv[i] # None BY <2>2, <2>5, <3>2 DEF CheckRoles, RowsStay, Redeems
    <3>4. QED BY <2>2, <3>3, RowStep
  <2>6. ASSUME NEW roles \in SUBSET Role PROVE req'[r] # [kind |-> "create", roles |-> roles]
    BY <1>1 DEF Redeems
  <2>7. req'[r] # None BY <1>1 DEF Redeems
  <2>8. QED BY <2>3, <2>4, <2>5, <2>6, <2>7, RequestStep
<1>2. ASSUME NEW a \in Api, (api[a].found # None)' PROVE (inv[api[a].found] # None)'
  <2>1. PICK i \in System : i = api'[a].found BY <1>0, <1>2 DEF TypeOK
  <2>2. i \in Invitation BY DEF Invitation
  <2>3. inv[i] # None BY <1>2, <2>1, FindStep DEF RowsStay
  <2>4. QED BY <2>1, <2>2, <2>3, RowStep
<1>3. QED BY <1>1, <1>2 DEF RowsStay

LEMMA CountedStep ==
  ASSUME TypeOK, RowsStay, Counted, [Next]_vars
  PROVE  Counted'
<1>0. \A i \in Invitation : IsFiniteSet(Registered(i)) /\ Cardinality(Registered(i)) = UsesOf(i)
  BY DEF Counted, UsesOf
<1>1. SUFFICES ASSUME NEW i \in Invitation
               PROVE  (IsFiniteSet(Registered(i)) /\ Cardinality(Registered(i)) = UsesOf(i))'
  BY DEF Counted, UsesOf
<1>2. ASSUME NEW r \in Request, Redeem(r)
      PROVE  (IsFiniteSet(Registered(i)) /\ Cardinality(Registered(i)) = UsesOf(i))'
  <2>1. PICK j \in Invitation, p \in Person :
           /\ j = req[r].inv
           /\ UsesOf(j) = 0 /\ UsesOf(j)' = 1
           /\ p \notin Registered(j)
           /\ Registered(j)' = Registered(j) \cup {p}
           /\ \A k \in Invitation \ {j} : Registered(k)' = Registered(k)
    BY <1>2, RedeemStep
  <2>2. CASE i = j
    <3>1. IsFiniteSet(Registered(i)) /\ Cardinality(Registered(i)) = 0 BY <1>0, <2>1, <2>2
    <3>2. /\ IsFiniteSet(Registered(i) \cup {p})
          /\ Cardinality(Registered(i) \cup {p}) = Cardinality(Registered(i)) + 1
      BY <2>1, <2>2, <3>1, FS_AddElement
    <3>3. QED BY <2>1, <2>2, <3>1, <3>2
  <2>3. CASE i # j
    <3>1. Registered(i)' = Registered(i) BY <2>1, <2>3
    <3>2. ASSUME NEW s \in Request, Redeem(s) PROVE s = r
      BY <1>2, <3>2 DEF Redeem, Done, TypeOK
    <3>3. UsesOf(i)' = UsesOf(i) BY <2>1, <2>3, <3>2, RowStep
    <3>4. QED BY <1>0, <3>1, <3>3
  <2>4. QED BY <2>2, <2>3
<1>3. ASSUME ~ \E r \in Request : Redeem(r)
      PROVE  (IsFiniteSet(Registered(i)) /\ Cardinality(Registered(i)) = UsesOf(i))'
  <2>1. account' = account BY <1>3, AccountStep
  <2>2. Registered(i)' = Registered(i) BY <2>1 DEF Registered
  <2>3. UsesOf(i)' = UsesOf(i) BY <1>3, RowStep
  <2>4. QED BY <1>0, <2>2, <2>3
<1>4. QED BY <1>2, <1>3

LEMMA WithinReachStep ==
  ASSUME TypeOK, WithinReach, [Next]_vars
  PROVE  WithinReach'
<1> SUFFICES ASSUME NEW r \in Request, Redeems(r)'
             PROVE  (/\ req[r].kind = "read" => scope \subseteq reach[r]
                     /\ req[r].kind = "checked" /\ req[r].inv \in Normal
                          => req[r].roles \subseteq reach[r])'
  BY DEF WithinReach
<1>1. CASE /\ req'[r] = req[r]
           /\ req[r] # None => /\ reach[r] \subseteq reach'[r]
                               /\ scope' = scope \/ scope' \subseteq reach'[r]
  <2>1. Redeems(r) /\ req[r] # None BY <1>1 DEF Redeems
  <2>2. /\ req[r].kind = "read" => scope \subseteq reach[r]
        /\ req[r].kind = "checked" /\ req[r].inv \in Normal => req[r].roles \subseteq reach[r]
    BY <2>1 DEF WithinReach
  <2>3. reach[r] \subseteq reach'[r] /\ (scope' = scope \/ scope' \subseteq reach'[r])
    BY <1>1, <2>1
  <2>4. req'[r] = req[r] BY <1>1
  <2>5. req[r].kind = "read" => scope' \subseteq reach'[r] BY <2>2, <2>3
  <2>6. req[r].kind = "checked" /\ req[r].inv \in Normal => req[r].roles \subseteq reach'[r]
    BY <2>2, <2>3
  <2>7. QED BY <2>4, <2>5, <2>6
<1>2. ASSUME NEW p \in Person, NEW i \in Invitation, ReadInvitation(r, p, i)
      PROVE  req'[r].kind = "read" /\ scope' \subseteq reach'[r]
  BY <1>2 DEF ReadInvitation, authority, TypeOK
<1>3. CASE CheckRoles(r)
  <2>1. req[r] \in Redemption BY <1>3, RequestShape DEF CheckRoles
  <2>2. /\ req'[r].kind = "checked" /\ req'[r].inv = req[r].inv /\ req'[r].roles = req[r].roles
        /\ reach'[r] = reach[r]
    BY <1>3, <2>1 DEF CheckRoles, TypeOK, Redemption
  <2>3. scope \subseteq reach[r] BY <1>3 DEF CheckRoles, WithinReach, Redeems
  <2>4. req[r].inv \in Normal => req[r].roles \subseteq scope
    BY <1>3, KindAssumption DEF CheckRoles
  <2>5. QED BY <2>2, <2>3, <2>4
<1>4. ASSUME NEW roles \in SUBSET Role PROVE req'[r] # [kind |-> "create", roles |-> roles]
  BY DEF Redeems
<1>5. req'[r] # None BY DEF Redeems
<1>6. QED BY <1>1, <1>2, <1>3, <1>4, <1>5, RequestStep

-----------------------------------------------------------------------------
(* Theorems *)

InvitationsInv == TypeOK /\ RowsStay /\ Counted /\ WithinReach

LEMMA InvHolds == Spec => []InvitationsInv
<1>1. Init => InvitationsInv
  <2> SUFFICES ASSUME Init PROVE InvitationsInv
    OBVIOUS
  <2>1. TypeOK BY InitTyped
  <2>2. RowsStay /\ WithinReach BY DEF Init, RowsStay, WithinReach, Redeems, Down
  <2>3. ASSUME NEW i \in Invitation PROVE Registered(i) = {} /\ inv[i] = None
    BY DEF Init, Registered
  <2>4. Counted BY <2>3, FS_EmptySet DEF Counted
  <2>5. QED BY <2>1, <2>2, <2>4 DEF InvitationsInv
<1>2. InvitationsInv /\ [Next]_vars => InvitationsInv'
  BY TypeStep, RowsStayStep, CountedStep, WithinReachStep DEF InvitationsInv
<1>3. QED BY <1>1, <1>2, PTL DEF Spec

\* Type correctness of the rows and of what requests and processes remember
\* (invitations.service.ts, bootstrap.service.ts).
THEOREM InvitationsTypeCorrect == Spec => []TypeOK
BY InvHolds, PTL DEF InvitationsInv

\* Uses are accounts, for any number of requests and processes
\* (invitations.service.ts 348-359).
THEOREM UsesCounted == Spec => []UsesAreAccounts
<1>1. InvitationsInv => UsesAreAccounts
  BY DEF InvitationsInv, Counted, UsesAreAccounts
<1>2. QED BY <1>1, InvHolds, PTL

\* An invitation that was revoked or has expired registers nobody
\* (invitations.service.ts 350-359).
THEOREM EndAdmitsNobody == Spec => NoUseAfterEnd
<1>1. InvitationsInv /\ [Next]_vars
        => [\A i \in Invitation : inv[i] # None /\ (inv[i].revoked \/ inv[i].expired)
              => Registered(i)' = Registered(i)]_vars
  <2> SUFFICES ASSUME InvitationsInv, [Next]_vars, NEW i \in Invitation,
                      inv[i].revoked \/ inv[i].expired
               PROVE  Registered(i)' = Registered(i)
    OBVIOUS
  <2>1. CASE account' = account BY <2>1 DEF Registered
  <2>2. ASSUME NEW r \in Request, Redeem(r) PROVE Registered(i)' = Registered(i)
    BY <2>2, RedeemStep DEF InvitationsInv
  <2>3. QED BY <2>1, <2>2, AccountStep
<1>2. QED BY <1>1, InvHolds, PTL DEF Spec, NoUseAfterEnd

\* Nobody registers with a role that its issuer could not grant at any moment of the
\* request (invitations.service.ts 306-311).
THEOREM RolesWithinReach == Spec => RolesStillGrantable
<1>1. InvitationsInv /\ [Next]_vars
        => [\A p \in Person : account[p] = None /\ account'[p] # None /\ account'[p].via \in Normal
              => \E r \in Request : /\ req[r] # None /\ req'[r] = None
                                    /\ account'[p].roles \subseteq reach[r]]_vars
  <2> SUFFICES ASSUME InvitationsInv, [Next]_vars, NEW p \in Person,
                      account[p] = None, account'[p] # None, account'[p].via \in Normal
               PROVE  \E r \in Request : /\ req[r] # None /\ req'[r] = None
                                         /\ account'[p].roles \subseteq reach[r]
    OBVIOUS
  <2>1. PICK r \in Request : Redeem(r) BY AccountStep
  <2>2. PICK i \in Invitation, q \in Person :
           /\ i = req[r].inv /\ req[r] \in Redemption
           /\ account' = [account EXCEPT ![q] = [via |-> i, roles |-> req[r].roles]]
    BY <2>1, RedeemStep DEF InvitationsInv
  <2>3. p = q BY <2>2 DEF InvitationsInv, TypeOK
  <2>4. account'[p] = [via |-> i, roles |-> req[r].roles]
    BY <2>2, <2>3 DEF InvitationsInv, TypeOK
  <2>5. req[r].inv \in Normal /\ account'[p].roles = req[r].roles BY <2>2, <2>4
  <2>6. req[r].roles \subseteq reach[r]
    BY <2>1, <2>5 DEF Redeem, InvitationsInv, WithinReach, Redeems
  <2>7. req[r] # None /\ req'[r] = None
    BY <2>1 DEF Redeem, Done, InvitationsInv, TypeOK
  <2>8. QED BY <2>5, <2>6, <2>7
<1>2. QED BY <1>1, InvHolds, PTL DEF Spec, RolesStillGrantable
=============================================================================
