--------------------------- MODULE DeliveryProofs ---------------------------
(***************************************************************************)
(* What reaches somebody else, proved for any sockets and sessions, users, *)
(* requests, messages and pulls: the changes of a workspace through the    *)
(* session of the gateway (Gateway), and the events of a task through the  *)
(* notification table to its recipients (Notifications).  The two have     *)
(* their own state each and are proved side by side.                       *)
(***************************************************************************)
EXTENDS Gateway, Notifications, FiniteSetTheorems, TLAPS

-----------------------------------------------------------------------------
(* The gateway session *)

(***************************************************************************)
(* The session object, its socket and Discord each count the events of a   *)
(* session for themselves.  As long as no orphan speaks, the socket the    *)
(* object sends on counts as the object does, and whatever lies before     *)
(* that count rang the doorbell or was swept (Synced).                     *)
(***************************************************************************)
\* A socket has a session of Discord's from RESUME or READY on.
HasSession(s) == socket[s].stage \in {"resuming", "replaying", "ready"}

Stages == \A s \in Socket : socket[s].session # Nobody <=> HasSession(s)

TypeInv == TypeOK /\ Stages

Synced ==
  /\ ctx.sessionId = Nobody => ctx.sequenceNumber = 0
  /\ ctx.sessionId # Nobody =>
       \A c \in 1..(start[ctx.sessionId] + ctx.sequenceNumber) : Covered(c)
  /\ ws # Nobody /\ socket[ws].stage = "identifying" => ctx.sequenceNumber = 0
  /\ ws # Nobody /\ HasSession(ws) =>
       socket[ws].session = ctx.sessionId /\ socket[ws].sent = ctx.sequenceNumber

SyncedInv == TypeInv /\ swept <= changes /\ (~crossed => Synced)

-----------------------------------------------------------------------------
(* Types *)

LEMMA NobodyElse == Nobody \notin Socket /\ Nobody \notin Session
BY NobodyAssumption

LEMMA FirstSocket == (CHOOSE s \in Socket : TRUE) \in Socket
BY SocketAssumption

LEMMA AtTyped ==
  ASSUME NEW stage \in Stage
  PROVE  /\ At(stage) \in SocketState /\ At(stage).stage = stage
         /\ At(stage).session = Nobody /\ At(stage).sent = 0
BY BoundAssumption DEF At, SocketState

LEMMA ClosedTyped == Closed \in SocketState /\ Closed.stage = "closed" /\ Closed.session = Nobody
BY BoundAssumption DEF Closed, SocketState, Stage

\* As many sockets as there are have as many sessions; a socket that identifies
\* has none, so with the session that the object remembers one is still left.
LEMMA OneUnused ==
  ASSUME TypeInv, NEW s \in Socket, socket[s].session = Nobody
  PROVE  /\ (CHOOSE j \in Session : Unused(j)) \in Session
         /\ Unused(CHOOSE j \in Session : Unused(j))
<1> DEFINE Others == Socket \ {s}
           f == [t \in Others |-> socket[t].session]
           Taken == {socket[t].session : t \in Others}
<1>1. IsFiniteSet(Others) /\ Cardinality(Others) = Cardinality(Socket) - 1
  BY SocketAssumption, FS_RemoveElement
<1>2. f \in Surjection(Others, Taken)
  <2>1. f \in [Others -> Taken] OBVIOUS
  <2>2. \A i \in Taken : \E t \in Others : f[t] = i OBVIOUS
  <2> HIDE DEF Others, f, Taken
  <2> QED BY <2>1, <2>2 DEF Surjection
<1>3. IsFiniteSet(Taken) /\ Cardinality(Taken) <= Cardinality(Others)
  <2> HIDE DEF Others, f, Taken
  <2> QED BY <1>1, <1>2, FS_Surjection
<1>4. Attached \subseteq Taken BY DEF Attached
<1>5. IsFiniteSet(Taken \cup {ctx.sessionId})
      /\ Cardinality(Taken \cup {ctx.sessionId}) <= Cardinality(Taken) + 1
  <2> HIDE DEF Taken
  <2>1. Cardinality(Taken) \in Nat BY <1>3, FS_CardinalityType
  <2>2. /\ IsFiniteSet(Taken \cup {ctx.sessionId})
        /\ Cardinality(Taken \cup {ctx.sessionId})
             = IF ctx.sessionId \in Taken THEN Cardinality(Taken) ELSE Cardinality(Taken) + 1
    BY <1>3, FS_AddElement
  <2> QED BY <2>1, <2>2
<1>6. ~(Session \subseteq Taken \cup {ctx.sessionId})
  <2> HIDE DEF Others, f, Taken
  <2>1. Cardinality(Socket) \in Nat /\ Cardinality(Session) \in Nat
    BY SocketAssumption, FreshAssumption, FS_CardinalityType
  <2>2. /\ Cardinality(Taken) \in Nat /\ Cardinality(Others) \in Nat
        /\ Cardinality(Taken \cup {ctx.sessionId}) \in Nat
    BY <1>1, <1>3, <1>5, FS_CardinalityType
  <2>3. ASSUME Session \subseteq Taken \cup {ctx.sessionId} PROVE FALSE
    <3>1. Cardinality(Session) <= Cardinality(Taken \cup {ctx.sessionId})
      BY <1>5, <2>3, FS_Subset
    <3> QED BY <1>1, <1>3, <1>5, <2>1, <2>2, <3>1, FreshAssumption
  <2> QED BY <2>3
<1>7. \E j \in Session : Unused(j) BY <1>4, <1>6 DEF Unused
<1> QED BY <1>7

LEMMA InitTypes == Init => TypeInv
<1> SUFFICES ASSUME Init PROVE TypeInv OBVIOUS
<1>1. ctx \in GatewayContext BY BoundAssumption DEF Init, initialContext, GatewayContext
<1>2. ws \in Socket BY FirstSocket DEF Init
<1>3. socket \in [Socket -> SocketState] /\ Stages
  BY AtTyped, ClosedTyped DEF Init, Stages, HasSession, Stage
<1>4. live \in [Session -> BOOLEAN] /\ start \in [Session -> 0..MaxChanges]
  BY BoundAssumption DEF Init
<1>5. {heartbeat, reconnect, healthy} \subseteq BOOLEAN /\ rung \subseteq 1..MaxChanges
  BY DEF Init
<1>6. /\ age \in 0..HealthyFloor /\ changes \in 0..MaxChanges /\ swept \in 0..MaxChanges
      /\ troubles \in 0..MaxTroubles
  BY BoundAssumption DEF Init
<1> QED BY <1>1, <1>2, <1>3, <1>4, <1>5, <1>6 DEF TypeInv, TypeOK

-----------------------------------------------------------------------------
(* Steps keep the types *)

\* A socket that moves to another stage.
LEMMA SocketMoves ==
  ASSUME TypeInv, NEW s \in Socket, NEW state \in SocketState,
         state.session # Nobody <=> state.stage \in {"resuming", "replaying", "ready"},
         socket' = [socket EXCEPT ![s] = state]
  PROVE  socket' \in [Socket -> SocketState] /\ Stages'
BY DEF TypeInv, TypeOK, Stages, HasSession

LEMMA ForgetTyped ==
  ASSUME TypeOK, NEW resumable \in BOOLEAN
  PROVE  Forget(ctx, resumable) \in GatewayContext
<1>1. ctx \in GatewayContext BY DEF TypeOK
<1>2. [ctx EXCEPT !.sessionId = Nobody, !.sequenceNumber = 0] \in GatewayContext
  <2>1. 0 \in 0..MaxChanges BY BoundAssumption
  <2> QED BY <1>1, <2>1 DEF GatewayContext
<1> QED BY <1>1, <1>2 DEF Forget

LEMMA DisconnectedTyped ==
  ASSUME NEW c \in GatewayContext
  PROVE  /\ [c EXCEPT !.state = "disconnected", !.missed = 0] \in GatewayContext
         /\ [c EXCEPT !.missed = 0, !.state = "disconnected"] \in GatewayContext
<1>1. 0 \in 0..2 OBVIOUS
<1> QED BY <1>1 DEF GatewayContext

LEMMA TroubleTyped ==
  TypeOK /\ (Trouble \/ UNCHANGED troubles) => troubles' \in 0..MaxTroubles
BY BoundAssumption DEF TypeOK, Trouble

LEMMA OpenTypes == ASSUME TypeInv, NEW s \in Socket, OpenReceived(s) PROVE TypeInv'
<1>1. socket' \in [Socket -> SocketState] /\ Stages'
  BY SocketMoves, AtTyped DEF OpenReceived, Stage
<1>2. ctx' \in GatewayContext BY DEF TypeInv, TypeOK, OpenReceived, GatewayContext
<1> QED BY <1>1, <1>2 DEF TypeInv, TypeOK, OpenReceived, discord, floor

\* What goes out when a socket says HELLO.
LEMMA AskTyped ==
  ASSUME TypeInv, NEW s \in Socket, socket' = AskOn(s, ws)
  PROVE  socket' \in [Socket -> SocketState] /\ Stages'
<1>1. At("greeted") \in SocketState /\ At("greeted").session = Nobody /\ At("greeted").stage = "greeted"
  BY AtTyped DEF Stage
<1>2. CASE ws = Nobody \/ ~(IsOpen(ws) \/ ws = s)
  BY <1>1, <1>2, SocketMoves DEF AskOn
<1>3. CASE ~(ws = Nobody \/ ~(IsOpen(ws) \/ ws = s))
  <2> DEFINE asked == IF ws = s /\ CanResume
                      THEN [stage |-> "resuming", session |-> ctx.sessionId,
                            sent |-> ctx.sequenceNumber]
                      ELSE IF ws = s THEN At("identifying") ELSE At("refused")
  <2>1. socket' = [[socket EXCEPT ![s] = At("greeted")] EXCEPT ![ws] = asked]
    BY <1>3 DEF AskOn
  <2>2. /\ asked \in SocketState
        /\ asked.session # Nobody <=> asked.stage \in {"resuming", "replaying", "ready"}
    <3>1. CASE ws = s /\ CanResume
      BY <3>1 DEF TypeInv, TypeOK, CanResume, GatewayContext, SocketState, Stage
    <3>2. CASE ~(ws = s /\ CanResume)
      BY <3>2, AtTyped DEF Stage
    <3> QED BY <3>1, <3>2
  <2>3. ws \in Socket BY <1>3 DEF TypeInv, TypeOK
  <2> HIDE DEF asked
  <2>4. \A t \in Socket : socket'[t] = IF t = ws THEN asked ELSE IF t = s THEN At("greeted")
                                      ELSE socket[t]
    BY <2>1, <2>3 DEF TypeInv, TypeOK
  <2>5. socket' \in [Socket -> SocketState] BY <1>1, <2>1, <2>2, <2>3 DEF TypeInv, TypeOK
  <2> QED BY <1>1, <2>2, <2>4, <2>5 DEF TypeInv, Stages, HasSession
<1> QED BY <1>2, <1>3

LEMMA HelloTypes == ASSUME TypeInv, NEW s \in Socket, HelloReceived(s) PROVE TypeInv'
<1>1. socket' \in [Socket -> SocketState] /\ Stages' BY AskTyped DEF HelloReceived
<1>2. ctx' \in GatewayContext BY DEF TypeInv, TypeOK, HelloReceived, GatewayContext
<1> QED BY <1>1, <1>2 DEF TypeInv, TypeOK, HelloReceived, discord, floor

LEMMA ReadyTypes == ASSUME TypeInv, NEW s \in Socket, ReadyReceived(s) PROVE TypeInv'
<1> DEFINE i == CHOOSE j \in Session : Unused(j)
<1>1. socket[s].session = Nobody BY DEF ReadyReceived, TypeInv, Stages, HasSession
<1>2. i \in Session BY <1>1, OneUnused
<1>3. /\ socket' = [socket EXCEPT ![s] = [stage |-> "ready", session |-> i, sent |-> 0]]
      /\ live' = [j \in Session |-> j = i \/ (live[j] /\ j \in Attached)]
      /\ start' = [j \in Session |-> IF j = i THEN changes ELSE IF j \in Attached THEN start[j] ELSE 0]
      /\ ctx' = [ctx EXCEPT !.state = "ready", !.sessionId = i]
      /\ swept' = changes /\ healthy' = TRUE /\ age' = 0
      /\ UNCHANGED <<ws, heartbeat, reconnect, changes, rung, troubles>>
  BY DEF ReadyReceived, EmitHealth, persistGateway
<1> HIDE DEF i
<1>4. socket' \in [Socket -> SocketState] /\ Stages'
  <2> DEFINE state == [stage |-> "ready", session |-> i, sent |-> 0]
  <2>1. 0 \in 0..MaxChanges BY BoundAssumption
  <2>2. state \in SocketState BY <1>2, <2>1 DEF SocketState, Stage
  <2>3. state.session # Nobody /\ state.stage = "ready" BY <1>2, NobodyElse
  <2> HIDE DEF state
  <2> QED BY <1>3, <2>2, <2>3, SocketMoves DEF state
<1>5. ctx' \in GatewayContext BY <1>2, <1>3 DEF TypeInv, TypeOK, GatewayContext
<1>6. live' \in [Session -> BOOLEAN] BY <1>3 DEF TypeInv, TypeOK
<1>7. start' \in [Session -> 0..MaxChanges] BY <1>3, BoundAssumption DEF TypeInv, TypeOK
<1>8. age' \in 0..HealthyFloor BY <1>3, BoundAssumption
<1> QED BY <1>3, <1>4, <1>5, <1>6, <1>7, <1>8 DEF TypeInv, TypeOK

LEMMA ResumedTypes == ASSUME TypeInv, NEW s \in Socket, ResumedReceived(s) PROVE TypeInv'
<1>1. /\ [socket[s] EXCEPT !.stage = "ready"] \in SocketState
      /\ [socket[s] EXCEPT !.stage = "ready"].stage = "ready"
      /\ [socket[s] EXCEPT !.stage = "ready"].session = socket[s].session
  BY DEF TypeInv, TypeOK, SocketState, Stage
<1>2. socket' \in [Socket -> SocketState] /\ Stages'
  BY <1>1, SocketMoves DEF ResumedReceived, TypeInv, Stages, HasSession
<1>3. ctx' \in GatewayContext BY DEF TypeInv, TypeOK, ResumedReceived, GatewayContext
<1>4. age' \in 0..HealthyFloor BY BoundAssumption DEF ResumedReceived, EmitHealth, persistGateway
<1> QED BY <1>2, <1>3, <1>4 DEF TypeInv, TypeOK, ResumedReceived, EmitHealth, discord

LEMMA DispatchTypes ==
  ASSUME TypeInv, NEW s \in Socket, NEW oneMember \in BOOLEAN, DispatchReceived(s, oneMember)
  PROVE  TypeInv'
<1> DEFINE c == start[socket[s].session] + socket[s].sent + 1
<1>1. /\ socket[s].stage \in {"replaying", "ready"} /\ c <= changes
      /\ socket' = [socket EXCEPT ![s].sent = @ + 1]
      /\ ctx' = [ctx EXCEPT !.sequenceNumber = socket[s].sent + 1]
      /\ rung' = IF oneMember THEN rung \cup {c} ELSE rung
      /\ swept' = IF oneMember THEN swept ELSE changes
      /\ age' = 0
      /\ UNCHANGED <<ws, heartbeat, reconnect, healthy, changes, live, start, troubles>>
  BY DEF DispatchReceived, Serving, discord, persistGateway
<1>2. socket[s].session \in Session
  <2>1. HasSession(s) BY <1>1 DEF HasSession
  <2>2. socket[s] \in SocketState BY DEF TypeInv, TypeOK
  <2> QED BY <2>1, <2>2 DEF TypeInv, Stages, SocketState
<1>3. /\ start[socket[s].session] \in 0..MaxChanges /\ changes \in 0..MaxChanges
      /\ socket[s] \in SocketState /\ socket[s].sent \in 0..MaxChanges
  BY <1>2 DEF TypeInv, TypeOK, SocketState
<1>4. c \in 1..MaxChanges /\ socket[s].sent + 1 \in 0..MaxChanges
  BY <1>1, <1>3, BoundAssumption
<1>5. [socket[s] EXCEPT !.sent = @ + 1] \in SocketState BY <1>3, <1>4 DEF SocketState
<1>6. /\ socket' \in [Socket -> SocketState]
      /\ \A t \in Socket : socket'[t].session = socket[t].session /\ socket'[t].stage = socket[t].stage
  BY <1>1, <1>3, <1>5 DEF TypeInv, TypeOK, SocketState
<1>7. Stages' BY <1>6 DEF TypeInv, Stages, HasSession
<1>8. ctx' \in GatewayContext BY <1>1, <1>4 DEF TypeInv, TypeOK, GatewayContext
<1>9. age' \in 0..HealthyFloor BY <1>1, BoundAssumption
<1> HIDE DEF c
<1>10. rung' \subseteq 1..MaxChanges /\ swept' \in 0..MaxChanges
  BY <1>1, <1>4 DEF TypeInv, TypeOK
<1> QED BY <1>1, <1>6, <1>7, <1>8, <1>9, <1>10 DEF TypeInv, TypeOK

\* The session is invalidated: refused, or while it serves.
LEMMA InvalidTypes ==
  ASSUME TypeInv, NEW s \in Socket, NEW resumable \in BOOLEAN, InvalidSession(s, resumable),
         Trouble \/ UNCHANGED troubles
  PROVE  TypeInv'
<1>1. socket' \in [Socket -> SocketState] /\ Stages'
  BY SocketMoves, AtTyped DEF InvalidSession, Stage
<1>2. ctx' \in GatewayContext
  BY ForgetTyped DEF TypeInv, InvalidSession, GatewayContext
<1>3. live' \in [Session -> BOOLEAN] BY DEF InvalidSession, TypeInv, TypeOK
<1>4. age' \in 0..HealthyFloor BY BoundAssumption DEF InvalidSession, persistGateway
<1>5. troubles' \in 0..MaxTroubles BY TroubleTyped DEF TypeInv
<1> QED BY <1>1, <1>2, <1>3, <1>4, <1>5 DEF TypeInv, TypeOK, InvalidSession, ScheduleReconnect

LEMMA CloseTypes ==
  ASSUME TypeInv, NEW s \in Socket, NEW resumable \in BOOLEAN, CloseReceived(s, resumable),
         Trouble \/ UNCHANGED troubles
  PROVE  TypeInv'
<1>1. socket' \in [Socket -> SocketState] /\ Stages'
  BY SocketMoves, ClosedTyped DEF CloseReceived
<1>2. ctx' \in GatewayContext
  <2>1. Forget(ctx, resumable) \in GatewayContext BY ForgetTyped DEF TypeInv
  <2>2. ctx' = [Forget(ctx, resumable) EXCEPT !.state = "disconnected", !.missed = 0]
    BY DEF CloseReceived
  <2> QED BY <2>1, <2>2, DisconnectedTyped
<1>3. age' \in 0..HealthyFloor BY BoundAssumption DEF CloseReceived, EmitHealth, persistGateway
<1>4. troubles' \in 0..MaxTroubles BY TroubleTyped DEF TypeInv
<1> QED BY <1>1, <1>2, <1>3, <1>4
        DEF TypeInv, TypeOK, CloseReceived, ScheduleReconnect, EmitHealth, discord

LEMMA ReconnectTypes == ASSUME TypeInv, ReconnectFires PROVE TypeInv'
<1> DEFINE s == CHOOSE t \in Socket : t \in FreeSockets
<1>1. s \in Socket BY DEF ReconnectFires, FreeSockets
<1>2. /\ ws' = s /\ socket' = [socket EXCEPT ![s] = At("connecting")] /\ age' = 0
      /\ reconnect' = FALSE
      /\ UNCHANGED <<ctx, heartbeat, healthy, changes, live, start, rung, swept, troubles>>
  BY DEF ReconnectFires, connect, persistGateway, discord
<1> HIDE DEF s
<1>3. socket' \in [Socket -> SocketState] /\ Stages'
  BY <1>1, <1>2, SocketMoves, AtTyped DEF Stage
<1>4. age' \in 0..HealthyFloor BY <1>2, BoundAssumption
<1> QED BY <1>1, <1>2, <1>3, <1>4 DEF TypeInv, TypeOK

LEMMA HeartbeatTypes == ASSUME TypeInv, HeartbeatMissed PROVE TypeInv'
<1>1. ctx' \in GatewayContext
  <2>1. ctx \in GatewayContext /\ ctx.missed \in 0..2 BY DEF TypeInv, TypeOK, GatewayContext
  <2>2. CASE ctx.missed < 2
    <3>1. ctx.missed + 1 \in 0..2 /\ ctx' = [ctx EXCEPT !.missed = ctx.missed + 1]
      BY <2>1, <2>2 DEF HeartbeatMissed
    <3> QED BY <2>1, <3>1 DEF GatewayContext
  <2>3. CASE ~(ctx.missed < 2)
    <3>1. ctx' = [ctx EXCEPT !.missed = 0, !.state = "disconnected"] BY <2>3 DEF HeartbeatMissed
    <3> QED BY <2>1, <3>1, DisconnectedTyped
  <2> QED BY <2>2, <2>3
<1>2. age' \in 0..HealthyFloor
  BY BoundAssumption DEF TypeInv, TypeOK, HeartbeatMissed, EmitHealth, persistGateway
<1>3. troubles' \in 0..MaxTroubles BY TroubleTyped DEF TypeInv, HeartbeatMissed
<1>4. {heartbeat, reconnect, healthy}' \subseteq BOOLEAN /\ ws' \in Socket \cup {Nobody}
  BY DEF TypeInv, TypeOK, HeartbeatMissed, ScheduleReconnect, EmitHealth
<1>5. UNCHANGED <<socket, changes, live, start, rung, swept>>
  BY DEF HeartbeatMissed, discord
<1> QED BY <1>1, <1>2, <1>3, <1>4, <1>5 DEF TypeInv, TypeOK, Stages, HasSession

LEMMA AckTypes == ASSUME TypeInv, NEW s \in Socket, HeartbeatAck(s) PROVE TypeInv'
<1>1. ctx' \in GatewayContext BY DEF TypeInv, TypeOK, HeartbeatAck, GatewayContext
<1> QED BY <1>1 DEF TypeInv, TypeOK, Stages, HasSession, HeartbeatAck, discord, floor

LEMMA RestartTypes == ASSUME TypeInv, Restart PROVE TypeInv'
<1>1. ctx' \in GatewayContext
  BY BoundAssumption DEF Restart, initialContext, GatewayContext
<1>2. ws' \in Socket BY FirstSocket DEF Restart
<1>3. socket' \in [Socket -> SocketState] /\ Stages'
  BY AtTyped, ClosedTyped DEF Restart, Stages, HasSession, Stage
<1>4. live' \in [Session -> BOOLEAN] /\ start' \in [Session -> 0..MaxChanges]
  BY BoundAssumption DEF Restart
<1>5. age' \in 0..HealthyFloor BY BoundAssumption DEF Restart, persistGateway
<1>6. troubles' \in 0..MaxTroubles BY TroubleTyped DEF TypeInv, Restart
<1> QED BY <1>1, <1>2, <1>3, <1>4, <1>5, <1>6 DEF TypeInv, TypeOK, Restart

LEMMA TickTypes == ASSUME TypeInv, reconcileFloorTick PROVE TypeInv'
<1>1. age' \in 0..HealthyFloor /\ swept' \in 0..MaxChanges
  BY BoundAssumption DEF TypeInv, TypeOK, reconcileFloorTick
<1> QED BY <1>1 DEF TypeInv, TypeOK, Stages, HasSession, reconcileFloorTick, discord

LEMMA ResumeTypes == ASSUME TypeInv, NEW s \in Socket, ResumeAccepted(s) PROVE TypeInv'
<1>1. /\ [socket[s] EXCEPT !.stage = "replaying"] \in SocketState
      /\ [socket[s] EXCEPT !.stage = "replaying"].stage = "replaying"
      /\ [socket[s] EXCEPT !.stage = "replaying"].session = socket[s].session
  BY DEF TypeInv, TypeOK, SocketState, Stage
<1>2. socket[s].session # Nobody BY DEF ResumeAccepted, TypeInv, Stages, HasSession
<1>3. socket' \in [Socket -> SocketState] /\ Stages'
  BY <1>1, <1>2, AtTyped DEF ResumeAccepted, TypeInv, TypeOK, Stages, HasSession, Stage
<1> QED BY <1>3 DEF TypeInv, TypeOK, ResumeAccepted, discord, floor

LEMMA DiscordTypes == ASSUME TypeInv, WorkspaceChanges \/ SessionExpires PROVE TypeInv'
<1>1. CASE WorkspaceChanges
  BY <1>1, BoundAssumption DEF TypeInv, TypeOK, Stages, HasSession, WorkspaceChanges
<1>2. CASE SessionExpires
  <2>1. live' \in [Session -> BOOLEAN] BY <1>2 DEF TypeInv, TypeOK, SessionExpires
  <2>2. troubles' \in 0..MaxTroubles BY <1>2, TroubleTyped DEF TypeInv, SessionExpires
  <2> QED BY <1>2, <2>1, <2>2 DEF TypeInv, TypeOK, Stages, HasSession, SessionExpires, floor
<1> QED BY <1>1, <1>2

LEMMA NextTypes == TypeInv /\ [Next]_vars => TypeInv'
<1> SUFFICES ASSUME TypeInv, [Next]_vars PROVE TypeInv' OBVIOUS
<1>1. CASE UNCHANGED vars BY <1>1 DEF TypeInv, TypeOK, Stages, HasSession, vars
<1>2. ASSUME NEW s \in Socket, Protocol(s) PROVE TypeInv'
  BY <1>2, OpenTypes, HelloTypes, ReadyTypes, ResumedTypes, ResumeTypes, InvalidTypes, DispatchTypes
     DEF Protocol, ResumeRefused
<1>3. ASSUME NEW s \in Socket, NEW resumable \in BOOLEAN,
             \/ Invalidated(s, resumable) \/ NeglectedCloses(s, resumable)
             \/ ConnectionLost(s, resumable) \/ ConnectionRefused(s)
      PROVE  TypeInv'
  BY <1>3, InvalidTypes, CloseTypes
     DEF Invalidated, NeglectedCloses, ConnectionLost, ConnectionRefused
<1> QED BY <1>1, <1>2, <1>3, AckTypes, ReconnectTypes, HeartbeatTypes, RestartTypes, TickTypes,
           DiscordTypes DEF Next

\* Sockets, the session kept for a resume, and what Discord sends keep their types.
THEOREM TypesKept == Spec => []TypeInv
BY InitTypes, NextTypes, PTL DEF Spec

\* The type invariant of the runs, for any number of sockets and role changes.
THEOREM Typed == Spec => []TypeOK
BY TypesKept, PTL DEF TypeInv

-----------------------------------------------------------------------------
(* Nothing is missed *)

LEMMA SweptStep == TypeInv /\ swept <= changes /\ [Next]_vars => swept' <= changes'
<1> SUFFICES ASSUME TypeInv, swept <= changes, [Next]_vars PROVE swept' <= changes' OBVIOUS
<1>1. swept \in Nat /\ changes \in Nat BY BoundAssumption DEF TypeInv, TypeOK
<1>2. swept' \in {swept, changes} /\ changes' \in {changes, changes + 1}
  BY DEF Next, Protocol, OpenReceived, HelloReceived, ReadyReceived, ResumedReceived, ResumeAccepted,
         ResumeRefused, DispatchReceived, HeartbeatAck, ConnectionRefused, Invalidated,
         NeglectedCloses, ConnectionLost, InvalidSession, CloseReceived, ReconnectFires,
         HeartbeatMissed, Restart, SessionExpires, WorkspaceChanges, reconcileFloorTick,
         discord, floor, vars
<1> QED BY <1>1, <1>2

\* Once an orphan has spoken it has.
LEMMA CrossedStep == ASSUME [Next]_vars, crossed PROVE crossed'
BY DEF Next, Protocol, OpenReceived, HelloReceived, ReadyReceived, ResumedReceived, ResumeAccepted,
       ResumeRefused, DispatchReceived, HeartbeatAck, ConnectionRefused, Invalidated,
       NeglectedCloses, ConnectionLost, InvalidSession, CloseReceived, ReconnectFires,
       HeartbeatMissed, Restart, SessionExpires, WorkspaceChanges, reconcileFloorTick, Heard, vars

\* What the session's socket may become without a word to the session.
SocketKept ==
  \/ ws' = Nobody
  \/ ws' \in Socket /\ socket'[ws'].stage \in {"connecting", "open", "greeted", "refused"}
  \/ /\ ws' = ws
     /\ ws # Nobody => /\ socket'[ws].session = socket[ws].session
                       /\ socket'[ws].sent = socket[ws].sent
                       /\ socket'[ws].stage = "identifying" => socket[ws].stage = "identifying"
                       /\ HasSession(ws)' => HasSession(ws)

\* Sweeps and doorbells are not taken back.
CoverageKept ==
  /\ rung \subseteq rung'
  /\ swept' \in {swept, changes}

LEMMA StillCovered ==
  ASSUME TypeInv, swept <= changes, CoverageKept, NEW c \in Nat, Covered(c)
  PROVE  Covered(c)'
BY BoundAssumption DEF TypeInv, TypeOK, CoverageKept, Covered

LEMMA SyncedStays ==
  ASSUME TypeInv, swept <= changes, Synced, SocketKept, CoverageKept, UNCHANGED start,
         ctx'.sessionId = ctx.sessionId, ctx'.sequenceNumber = ctx.sequenceNumber
  PROVE  Synced'
<1>1. ctx'.sessionId # Nobody =>
        \A c \in 1..(start'[ctx'.sessionId] + ctx'.sequenceNumber) : Covered(c)'
  BY StillCovered DEF Synced
<1>2. /\ ws' # Nobody /\ socket'[ws'].stage = "identifying" => ctx'.sequenceNumber = 0
      /\ ws' # Nobody /\ HasSession(ws)' =>
           socket'[ws'].session = ctx'.sessionId /\ socket'[ws'].sent = ctx'.sequenceNumber
  BY DEF Synced, SocketKept, HasSession
<1> QED BY <1>1, <1>2 DEF Synced

\* The session object may let go of its socket, and of the session with it.
LEMMA SyncedForgets ==
  ASSUME TypeInv, swept <= changes, Synced, CoverageKept, UNCHANGED start, ws' = Nobody,
         ctx'.sessionId = Nobody, ctx'.sequenceNumber = 0
  PROVE  Synced'
BY DEF Synced

LEMMA LetGo ==
  ASSUME TypeInv, swept <= changes, Synced, NEW s \in Socket, NEW resumable \in BOOLEAN,
         InvalidSession(s, resumable) \/ CloseReceived(s, resumable)
  PROVE  Synced'
<1>1. CoverageKept /\ UNCHANGED start /\ ws' = Nobody
  BY DEF InvalidSession, CloseReceived, ScheduleReconnect, CoverageKept, discord
<1>2. ctx'.sessionId = Forget(ctx, resumable).sessionId
      /\ ctx'.sequenceNumber = Forget(ctx, resumable).sequenceNumber
  <2>1. Forget(ctx, resumable) \in GatewayContext BY ForgetTyped DEF TypeInv
  <2>2. \/ ctx' = [Forget(ctx, resumable) EXCEPT !.state = "identifying"]
        \/ ctx' = [Forget(ctx, resumable) EXCEPT !.state = "disconnected", !.missed = 0]
    BY DEF InvalidSession, CloseReceived
  <2> QED BY <2>1, <2>2 DEF GatewayContext
<1>3. CASE resumable
  BY <1>1, <1>2, <1>3, SyncedStays DEF Forget, SocketKept
<1>4. CASE ~resumable
  <2>1. ctx'.sessionId = Nobody /\ ctx'.sequenceNumber = 0
    BY <1>2, <1>4 DEF Forget, TypeInv, TypeOK, GatewayContext
  <2> QED BY <1>1, <2>1, SyncedForgets
<1> QED BY <1>3, <1>4

\* RESUME goes out for the session, and from the event, that the object has.
LEMMA HelloSynced ==
  ASSUME TypeInv, swept <= changes, Synced, NEW s \in Socket, HelloReceived(s), ~crossed'
  PROVE  Synced'
<1>1. s = ws /\ ws # Nobody BY NobodyElse DEF HelloReceived, Heard
<1>2. /\ ctx'.sessionId = ctx.sessionId /\ ctx'.sequenceNumber = ctx.sequenceNumber
      /\ ws' = ws /\ UNCHANGED <<start, rung, swept>>
  BY DEF HelloReceived, TypeInv, TypeOK, GatewayContext, discord, floor
<1>3. socket'[ws] = IF CanResume THEN [stage |-> "resuming", session |-> ctx.sessionId,
                                       sent |-> ctx.sequenceNumber]
                    ELSE At("identifying")
  BY <1>1 DEF HelloReceived, AskOn, TypeInv, TypeOK
<1>4. CASE CanResume
  BY <1>1, <1>2, <1>3, <1>4 DEF Synced, HasSession, Covered
<1>5. CASE ~CanResume
  <2>1. ctx.sequenceNumber = 0
    <3>1. ctx.sequenceNumber \in 0..MaxChanges BY DEF TypeInv, TypeOK, GatewayContext
    <3> QED BY <1>5, <3>1, BoundAssumption DEF CanResume, Synced
  <2>2. socket'[ws].stage = "identifying" BY <1>3, <1>5 DEF At
  <2> QED BY <1>2, <2>1, <2>2 DEF Synced, HasSession, Covered
<1> QED BY <1>4, <1>5

\* A new session begins with the changes that its sweep covers.
LEMMA ReadySynced ==
  ASSUME TypeInv, swept <= changes, Synced, NEW s \in Socket, ReadyReceived(s), ~crossed'
  PROVE  Synced'
<1> DEFINE i == CHOOSE j \in Session : Unused(j)
<1>1. s = ws /\ ws # Nobody BY NobodyElse DEF ReadyReceived, Heard
<1>2. i \in Session BY OneUnused DEF ReadyReceived, TypeInv, Stages, HasSession
<1>3. /\ socket[s].stage = "identifying"
      /\ socket' = [socket EXCEPT ![s] = [stage |-> "ready", session |-> i, sent |-> 0]]
      /\ start' = [j \in Session |-> IF j = i THEN changes ELSE IF j \in Attached THEN start[j] ELSE 0]
      /\ ctx' = [ctx EXCEPT !.state = "ready", !.sessionId = i]
      /\ swept' = changes /\ UNCHANGED <<ws, changes>>
  BY DEF ReadyReceived
<1> HIDE DEF i
<1>4. ctx'.sessionId = i /\ ctx'.sequenceNumber = 0
  BY <1>1, <1>3 DEF TypeInv, TypeOK, GatewayContext, Synced
<1>5. socket'[ws'] = [stage |-> "ready", session |-> i, sent |-> 0]
  BY <1>1, <1>3 DEF TypeInv, TypeOK
<1>6. start'[i] = changes /\ changes \in Nat BY <1>2, <1>3, BoundAssumption DEF TypeInv, TypeOK
<1>7. \A c \in 1..(start'[ctx'.sessionId] + ctx'.sequenceNumber) : Covered(c)'
  BY <1>3, <1>4, <1>6 DEF Covered
<1>8. i # Nobody BY <1>2, NobodyElse
<1> QED BY <1>4, <1>5, <1>7, <1>8 DEF Synced, HasSession

\* The next event of the session rings or is swept.
LEMMA DispatchSynced ==
  ASSUME TypeInv, swept <= changes, Synced, NEW s \in Socket, NEW oneMember \in BOOLEAN,
         DispatchReceived(s, oneMember), ~crossed'
  PROVE  Synced'
<1> PICK n : n = start[socket[s].session] + socket[s].sent + 1 OBVIOUS
<1>1. s = ws /\ ws # Nobody BY NobodyElse DEF DispatchReceived, Heard
<1>2. /\ socket[s].stage \in {"replaying", "ready"} /\ n <= changes
      /\ socket' = [socket EXCEPT ![s].sent = @ + 1]
      /\ ctx' = [ctx EXCEPT !.sequenceNumber = socket[s].sent + 1]
      /\ rung' = IF oneMember THEN rung \cup {n} ELSE rung
      /\ swept' = IF oneMember THEN swept ELSE changes
      /\ UNCHANGED <<ws, start, changes>>
  BY DEF DispatchReceived, Serving, discord
<1>3. HasSession(s) BY <1>2 DEF HasSession
<1>4. socket[s].session = ctx.sessionId /\ socket[s].sent = ctx.sequenceNumber
  BY <1>1, <1>3 DEF Synced
<1>5. socket[s].session \in Session /\ ctx.sessionId # Nobody
  BY <1>3, <1>4 DEF TypeInv, TypeOK, Stages, SocketState
<1>6. start[socket[s].session] \in Nat /\ socket[s].sent \in Nat /\ changes \in Nat /\ n \in Nat
  BY <1>5, BoundAssumption DEF TypeInv, TypeOK, SocketState
<1>7. ctx'.sessionId = ctx.sessionId /\ ctx'.sequenceNumber = socket[s].sent + 1
  BY <1>2 DEF TypeInv, TypeOK, GatewayContext
<1>8. /\ socket'[s].stage = socket[s].stage /\ socket'[s].session = socket[s].session
      /\ socket'[s].sent = socket[s].sent + 1
  BY <1>2 DEF TypeInv, TypeOK, SocketState
<1>9. CoverageKept BY <1>2 DEF CoverageKept
<1>10. Covered(n)' BY <1>2, <1>6 DEF Covered
<1>11. ASSUME NEW c \in 1..(start'[ctx'.sessionId] + ctx'.sequenceNumber) PROVE Covered(c)'
  <2>1. start'[ctx'.sessionId] + ctx'.sequenceNumber = n BY <1>2, <1>4, <1>6, <1>7
  <2>2. CASE c = n BY <1>10, <2>2
  <2>3. CASE c # n
    <3>1. c \in 1..(start[ctx.sessionId] + ctx.sequenceNumber)
      BY <1>4, <1>6, <2>1, <2>3
    <3>2. Covered(c) BY <1>5, <3>1 DEF Synced
    <3> QED BY <1>9, <3>2, StillCovered
  <2> QED BY <2>2, <2>3
<1> QED BY <1>1, <1>2, <1>4, <1>5, <1>7, <1>8, <1>11 DEF Synced, HasSession

\* The other words of the session's socket, and what happens without a word.
LEMMA QuietSynced ==
  ASSUME TypeInv, swept <= changes, Synced, ~crossed',
         \/ \E s \in Socket : OpenReceived(s) \/ ResumedReceived(s) \/ ResumeAccepted(s) \/ HeartbeatAck(s)
         \/ ReconnectFires \/ HeartbeatMissed \/ SessionExpires \/ WorkspaceChanges
         \/ reconcileFloorTick \/ UNCHANGED vars
  PROVE  Synced'
<1>1. CoverageKept /\ UNCHANGED start
  BY DEF OpenReceived, ResumedReceived, ResumeAccepted, HeartbeatAck, ReconnectFires, HeartbeatMissed,
         SessionExpires, WorkspaceChanges, reconcileFloorTick, CoverageKept, discord, floor, vars
<1>2. ctx'.sessionId = ctx.sessionId /\ ctx'.sequenceNumber = ctx.sequenceNumber
  BY DEF OpenReceived, ResumedReceived, ResumeAccepted, HeartbeatAck, ReconnectFires, HeartbeatMissed,
         SessionExpires, WorkspaceChanges, reconcileFloorTick, vars, TypeInv, TypeOK, GatewayContext
<1>3. SocketKept
  <2>1. ASSUME NEW s \in Socket, OpenReceived(s) PROVE SocketKept
    BY <2>1 DEF OpenReceived, Heard, SocketKept, At, TypeInv, TypeOK
  <2>2. ASSUME NEW s \in Socket, ResumedReceived(s) PROVE SocketKept
    BY <2>2 DEF ResumedReceived, SocketKept, HasSession, TypeInv, TypeOK, SocketState
  <2>3. ASSUME NEW s \in Socket, ResumeAccepted(s) PROVE SocketKept
    BY <2>3 DEF ResumeAccepted, SocketKept, HasSession, At, TypeInv, TypeOK, SocketState
  <2>4. CASE ReconnectFires
    BY <2>4, AtTyped DEF ReconnectFires, connect, FreeSockets, SocketKept, Stage, TypeInv, TypeOK
  <2>5. CASE HeartbeatMissed
    BY <2>5 DEF HeartbeatMissed, ScheduleReconnect, SocketKept, HasSession
  <2>6. ASSUME UNCHANGED <<ws, socket>> PROVE SocketKept
    BY <2>6 DEF SocketKept, HasSession
  <2> QED BY <2>1, <2>2, <2>3, <2>4, <2>5, <2>6
          DEF HeartbeatAck, SessionExpires, WorkspaceChanges, reconcileFloorTick, vars
<1> QED BY <1>1, <1>2, <1>3, SyncedStays

LEMMA RestartSynced == ASSUME TypeInv, Restart PROVE Synced'
<1>1. ws' \in Socket /\ socket'[ws'] = At("connecting") BY FirstSocket DEF Restart
<1>2. ctx'.sessionId = Nobody /\ ctx'.sequenceNumber = 0 BY DEF Restart, initialContext
<1> QED BY <1>1, <1>2 DEF Synced, HasSession, At

LEMMA SyncedStep == SyncedInv /\ [Next]_vars => SyncedInv'
<1> SUFFICES ASSUME TypeInv, swept <= changes, ~crossed => Synced, [Next]_vars, ~crossed'
             PROVE  Synced'
  BY NextTypes, SweptStep DEF SyncedInv
<1>1. Synced BY CrossedStep
<1>2. ASSUME NEW s \in Socket, Protocol(s) PROVE Synced'
  BY <1>1, <1>2, QuietSynced, HelloSynced, ReadySynced, DispatchSynced, LetGo
     DEF Protocol, ResumeRefused
<1>3. ASSUME NEW s \in Socket, NEW resumable \in BOOLEAN,
             \/ Invalidated(s, resumable) \/ NeglectedCloses(s, resumable)
             \/ ConnectionLost(s, resumable) \/ ConnectionRefused(s)
      PROVE  Synced'
  BY <1>1, <1>3, LetGo DEF Invalidated, NeglectedCloses, ConnectionLost, ConnectionRefused
<1> QED BY <1>1, <1>2, <1>3, QuietSynced, RestartSynced DEF Next

\* Property NothingMissed of module Gateway: when the session is ready and has all
\* the events of its Discord session, every change has rung or is swept, however
\* often the socket closed and the session was resumed, replaced or restarted, as
\* long as no orphan spoke.
THEOREM NothingIsMissed == Spec => []NothingMissed
<1>1. Init => SyncedInv
  <2> SUFFICES ASSUME Init PROVE SyncedInv OBVIOUS
  <2>1. swept <= changes BY DEF Init
  <2>2. ws \in Socket /\ socket[ws] = At("connecting") BY FirstSocket DEF Init
  <2>3. ctx.sessionId = Nobody /\ ctx.sequenceNumber = 0 BY DEF Init, initialContext
  <2> QED BY <2>1, <2>2, <2>3, InitTypes DEF SyncedInv, Synced, HasSession, At
<1>2. SyncedInv => NothingMissed
  <2> SUFFICES ASSUME SyncedInv, CaughtUp, ~crossed, NEW c \in 1..changes PROVE Covered(c)
    BY DEF NothingMissed
  <2>1. ws # Nobody /\ HasSession(ws) /\ ws \in Socket
    BY DEF CaughtUp, HasSession, SyncedInv, TypeInv, TypeOK
  <2>2. socket[ws].session = ctx.sessionId /\ socket[ws].sent = ctx.sequenceNumber
    BY <2>1 DEF SyncedInv, Synced, CaughtUp
  <2>3. ctx.sessionId # Nobody BY <2>1, <2>2 DEF SyncedInv, TypeInv, Stages
  <2>4. start[ctx.sessionId] + ctx.sequenceNumber = changes BY <2>2 DEF CaughtUp
  <2> QED BY <2>3, <2>4 DEF SyncedInv, Synced
<1> QED BY <1>1, <1>2, SyncedStep, PTL DEF Spec

-----------------------------------------------------------------------------
(* Notifications *)

(***************************************************************************)
(* An event is counted in one step and written in a later one.  What makes *)
(* the count still right as it is written: the numbers of a type and       *)
(* subject leave no gap (SeqsStand), and of two requests that have counted *)
(* for one type and subject neither is alone - claims and changes hold the *)
(* row of the task (LockStands), a message is its own subject, and changes *)
(* or alerts that run at once are marked as overlapped (RunsStand).        *)
(* Whoever was counted as concerned still is (DueStands).                  *)
(***************************************************************************)

Sort == {"claim", "requester", "message", "alert"}

Subject == Message \cup {Task}

\* The numbers of a type and subject among some rows.
Seqs(some, type, subject) == {n.seq : n \in {k \in some : k.type = type /\ k.subject = subject}}

Gapless(some, type, subject) == \E k \in Nat : Seqs(some, type, subject) = 1..k

\* A number that leaves no gap, and one that is new.
Fits(some, t) == \E k \in Nat : Seqs(some, t.kind, t.subject) = 1..k /\ t.seq \in 1..(k + 1)

Fresh(some, t) == t.seq \notin Seqs(some, t.kind, t.subject)

Shape == {"to", "type", "subject", "seq", "read"}

\* Where a request is, and of what.
Progress(t) ==
  /\ t.at \in {"waits", "counts", "writes", "pings"}
  /\ t.at = "pings" => t.kind = "sent"
  /\ t.at # "pings" => t.kind \in Sort /\ t.subject \in Subject
  /\ t.at = "waits" => t.kind \in {"claim", "requester"} /\ "at" \in DOMAIN t
  /\ t.at \in {"writes", "pings"} => None \notin t.to

TxStands == DOMAIN tx = Request /\ \A r \in Request : tx[r] # None => Progress(tx[r])

\* Claims and changes of the requester hold the row from their count on.
LockStands ==
  \A r \in Runs("claim") \cup Runs("requester") : tx[r].at \in {"counts", "writes"} => lock = r

\* No two requests write one message; changes and alerts that run at once are known.
RunsStand ==
  /\ \A r, q \in Runs("message") : tx[r].subject = tx[q].subject => r = q
  /\ \A kind \in {"requester", "alert"} : \A r, q \in Runs(kind) : r # q => r \in overlapped

\* Numbers have no gap, and who has counted alone has the next one.
SeqsStand ==
  /\ \A type \in Sort, subject \in Subject : Gapless(rows, type, subject)
  /\ \A r \in Request : tx[r] # None /\ tx[r].at = "writes" =>
       Fits(rows, tx[r]) /\ (r \notin overlapped => Fresh(rows, tx[r]))

\* Whoever is to be told still is.
DueStands ==
  /\ requester \in User
  /\ \A r \in Runs("requester") :
       /\ tx[r].at \in {"waits", "counts"} =>
            /\ tx[r].new \in User
            /\ r \notin overlapped => tx[r].ids = {requester, tx[r].new}
       /\ tx[r].at = "writes" =>
            /\ tx[r].of.new \in User
            /\ r \notin overlapped => tx[r].to = {requester, tx[r].of.new} \ {tx[r].of.actor}
  /\ \A r \in Runs("claim") : tx[r].at = "writes" => tx[r].to = {requester} \ {tx[r].of.actor}

\* Of one pull: its rows are rows, and of whoever is signed in.
Pulls(p) ==
  DOMAIN p = {"at", "who", "some", "clock", "unread"} /\ \A n \in p.some : DOMAIN n = Shape

Ours(p) == online # None /\ p.who = online /\ \A n \in p.some : n.to = online

\* Rows have the columns of a notification wherever they are shown.
RowsStand ==
  /\ DOMAIN pull = Pull /\ \A q \in Pull : pull[q] # None => Pulls(pull[q])
  /\ \A n \in rows \cup feed : DOMAIN n = Shape

\* Pulls are of who is signed in, unless they outlived a sign-out.
FeedStands ==
  /\ pings \in Nat /\ (pings > 0 => online # None) /\ late \in BOOLEAN
  /\ ~late => \A q \in Pull : pull[q] # None => Ours(pull[q])
  /\ ~late /\ online = None => feed = {}
  /\ OwnFeed

Counting == TxStands /\ LockStands /\ RunsStand /\ SeqsStand /\ DueStands

Shown == RowsStand /\ FeedStands

FeedInv == Counting /\ Shown

\* One request takes a step, the others stay where they are.
LEMMA SetTx ==
  ASSUME TxStands, NEW r \in Request, NEW t, tx' = [tx EXCEPT ![r] = t]
  PROVE  DOMAIN tx' = Request /\ tx'[r] = t /\ \A q \in Request \ {r} : tx'[q] = tx[q]
BY DEF TxStands

\* A request takes a step.
LEMMA TxSet ==
  ASSUME TxStands, NEW r \in Request, NEW t, tx' = [tx EXCEPT ![r] = t], t # None => Progress(t)
  PROVE  TxStands'
BY SetTx DEF TxStands, Progress, Sort, Subject

\* What the browser does, and a message that is retired or revived, counts nothing.
LEMMA Same ==
  ASSUME Counting, UNCHANGED <<tx, lock, overlapped, rows, requester>>
  PROVE  Counting'
<1>1. \A kind : Runs(kind)' = Runs(kind) BY DEF Runs
<1>3. TxStands' BY DEF Counting, TxStands, Progress, Sort, Subject
<1>4. LockStands' /\ RunsStand' BY <1>1 DEF Counting, LockStands, RunsStand
<1>5. SeqsStand' BY DEF Counting, SeqsStand
<1>6. DueStands' BY <1>1 DEF Counting, DueStands
<1> QED BY <1>3, <1>4, <1>5, <1>6 DEF Counting

\* Nothing is numbered; one request takes a step in which it has not counted yet, or no longer.
LEMMA NotCounted ==
  ASSUME SeqsStand, TxStands, NEW r \in Request, NEW t, tx' = [tx EXCEPT ![r] = t],
         t # None => t.at # "writes",
         rows' = rows, \A q \in Request \ {r} : q \in overlapped => q \in overlapped'
  PROVE  SeqsStand'
<1>1. ASSUME NEW q \in Request, tx'[q] # None, tx'[q].at = "writes" PROVE q # r /\ tx'[q] = tx[q]
  BY <1>1, SetTx
<1> QED BY <1>1 DEF SeqsStand

\* A change of the requester joins those that run, or runs alone.
LEMMA BeginChangeCounts ==
  ASSUME Counting, NEW r \in Request, NEW u \in User, NEW v \in User, BeginChange(r, u, v)
  PROVE  Counting'
<1> DEFINE t == [kind |-> "requester", at |-> "waits", subject |-> Task, actor |-> u, new |-> v,
                 ids |-> {requester, v}]
<1>1. /\ t.kind = "requester" /\ t.at = "waits" /\ t.subject = Task /\ t.new = v /\ t.ids = {requester, v}
      /\ "at" \in DOMAIN t
      /\ tx' = [tx EXCEPT ![r] = t] /\ UNCHANGED <<lock, rows, requester>> /\ tx[r] = None
  BY DEF BeginChange, task, Free
<1>2. overlapped' = IF Runs("requester") = {} THEN overlapped \ {r}
                       ELSE overlapped \cup Runs("requester") \cup {r}
  BY DEF BeginChange
<1> HIDE DEF t
<1>3. TxStands' BY <1>1, TxSet DEF Counting, Progress, Sort, Subject
<1>4. tx'[r] = t /\ \A q \in Request \ {r} : tx'[q] = tx[q] BY <1>1, SetTx DEF Counting
<1>5. \A kind : Runs(kind)' \subseteq Runs(kind) \cup {r} BY <1>4 DEF Runs
<1>6. LockStands' BY <1>1, <1>4 DEF LockStands, Runs, Counting
<1>7. RunsStand'
  <2>1. ASSUME NEW p \in Runs("message")',
               NEW q \in Runs("message")', tx'[p].subject = tx'[q].subject
        PROVE  p = q
    BY <1>1, <1>4, <2>1 DEF RunsStand, Runs, Counting
  <2>2. ASSUME NEW p \in Runs("requester")', NEW q \in Runs("requester")', p # q
        PROVE  p \in overlapped'
    BY <1>1, <1>2, <1>4, <2>2 DEF RunsStand, Runs, Counting
  <2>3. ASSUME NEW p \in Runs("alert")', NEW q \in Runs("alert")', p # q PROVE p \in overlapped'
    BY <1>1, <1>2, <1>4, <2>3 DEF RunsStand, Runs, Counting
  <2> QED BY <2>1, <2>2, <2>3 DEF RunsStand
<1>8. SeqsStand' BY <1>1, <1>2, NotCounted DEF Counting
<1>9. DueStands'
  BY <1>1, <1>2, <1>4 DEF DueStands, Runs, Counting
<1> QED BY <1>3, <1>6, <1>7, <1>8, <1>9 DEF Counting

\* A claim has not counted as it begins.
LEMMA BeginClaimCounts ==
  ASSUME Counting, NEW r \in Request, NEW u \in User, BeginClaim(r, u)
  PROVE  Counting'
<1> DEFINE t == [kind |-> "claim", at |-> "waits", subject |-> Task, actor |-> u]
<1>1. /\ t.kind = "claim" /\ t.at = "waits" /\ t.subject = Task /\ "at" \in DOMAIN t
      /\ tx' = [tx EXCEPT ![r] = t] /\ UNCHANGED <<lock, rows, requester, overlapped>>
  BY DEF BeginClaim, task
<1> HIDE DEF t
<1>3. TxStands' BY <1>1, TxSet DEF Counting, Progress, Sort, Subject
<1>4. tx'[r] = t /\ \A q \in Request \ {r} : tx'[q] = tx[q] BY <1>1, SetTx DEF Counting
<1>6. LockStands' BY <1>1, <1>4 DEF LockStands, Runs, Counting
<1>7. RunsStand' BY <1>1, <1>4 DEF RunsStand, Runs, Counting
<1>8. SeqsStand' BY <1>1, NotCounted DEF Counting
<1>9. DueStands' BY <1>1, <1>4 DEF DueStands, Runs, Counting
<1> QED BY <1>3, <1>6, <1>7, <1>8, <1>9 DEF Counting

\* The row is free as it is locked: nobody else has counted under the lock.
LEMMA LockTaskCounts ==
  ASSUME Counting, NEW r \in Request, LockTask(r)
  PROVE  Counting'
<1> DEFINE t == [tx[r] EXCEPT !.at = "counts"]
<1>1. /\ tx[r] # None /\ tx[r].at = "waits" /\ lock = None /\ lock' = r
      /\ tx' = [tx EXCEPT ![r] = t] /\ UNCHANGED <<rows, requester, overlapped>>
  BY DEF LockTask, task
<1>2. /\ t.kind = tx[r].kind /\ t.subject = tx[r].subject /\ t.at = "counts"
      /\ t.new = tx[r].new /\ t.ids = tx[r].ids
  BY <1>1
<1> HIDE DEF t
<1>3. Progress(tx[r]) BY <1>1 DEF Counting, TxStands
<1>4. TxStands' BY <1>1, <1>2, <1>3, TxSet DEF Counting, Progress
<1>5. tx'[r] = t /\ \A q \in Request \ {r} : tx'[q] = tx[q] BY <1>1, SetTx DEF Counting
<1>6. LockStands'
  <2>1. \A q \in Request : lock # q BY <1>1, NoneAssumption
  <2> QED BY <1>1, <1>5, <2>1 DEF LockStands, Runs, Counting
<1>7. RunsStand' BY <1>1, <1>2, <1>5 DEF RunsStand, Runs, Counting
<1>8. SeqsStand' BY <1>1, <1>2, NotCounted DEF Counting
<1>9. DueStands' BY <1>1, <1>2, <1>5 DEF DueStands, Runs, Counting
<1> QED BY <1>4, <1>6, <1>7, <1>8, <1>9 DEF Counting

\* A request ends, or its process does.
LEMMA EndCounts ==
  ASSUME Counting, NEW r \in Request, tx' = [tx EXCEPT ![r] = None],
         UNCHANGED <<lock, rows, requester, overlapped>>
  PROVE  Counting'
<1>1. tx'[r] = None /\ \A q \in Request \ {r} : tx'[q] = tx[q] BY SetTx DEF Counting
<1>2. TxStands' BY TxSet DEF Counting
<1>3. LockStands' /\ RunsStand' BY <1>1 DEF LockStands, RunsStand, Runs, Counting
<1>4. SeqsStand' BY NotCounted DEF Counting
<1>5. DueStands' BY <1>1 DEF DueStands, Runs, Counting
<1> QED BY <1>2, <1>3, <1>4, <1>5 DEF Counting

\* A message is written under an identity no running request has taken.
LEMMA BeginCreateCounts ==
  ASSUME Counting, NEW r \in Request, NEW u \in User, NEW m \in Message, NEW p,
         BeginCreate(r, u, m, p)
  PROVE  Counting'
<1> DEFINE t == [kind |-> "message", at |-> "counts", actor |-> u, subject |-> m, parent |-> p]
<1>1. /\ t.kind = "message" /\ t.at = "counts" /\ t.subject = m
      /\ tx' = [tx EXCEPT ![r] = t] /\ UNCHANGED <<lock, rows, requester, overlapped>>
  BY DEF BeginCreate, task
<1> HIDE DEF t
<1>2. \A q \in Runs("message") : tx[q].subject # m
  <2>1. Claimed[m] = None BY DEF BeginCreate, Free
  <2>2. SUFFICES ASSUME NEW q \in Runs("message"), tx[q].subject = m PROVE FALSE OBVIOUS
  <2>3. Claimed[m] = Task BY <2>2 DEF Claimed
  <2> QED BY <2>1, <2>3, NoneAssumption
<1>3. TxStands' BY <1>1, TxSet DEF Counting, Progress, Sort, Subject
<1>4. tx'[r] = t /\ \A q \in Request \ {r} : tx'[q] = tx[q] BY <1>1, SetTx DEF Counting
<1>6. LockStands' BY <1>1, <1>4 DEF LockStands, Runs, Counting
<1>7. RunsStand' BY <1>1, <1>2, <1>4 DEF RunsStand, Runs, Counting
<1>8. SeqsStand' BY <1>1, NotCounted DEF Counting
<1>9. DueStands' BY <1>1, <1>4 DEF DueStands, Runs, Counting
<1> QED BY <1>3, <1>6, <1>7, <1>8, <1>9 DEF Counting

\* An alert joins those that run, or runs alone.
LEMMA BeginAlertCounts ==
  ASSUME Counting, NEW r \in Request, BeginAlert(r)
  PROVE  Counting'
<1> DEFINE t == [kind |-> "alert", at |-> "counts", subject |-> Task, actor |-> None]
<1>1. /\ t.kind = "alert" /\ t.at = "counts" /\ t.subject = Task
      /\ tx' = [tx EXCEPT ![r] = t] /\ UNCHANGED <<lock, rows, requester>> /\ tx[r] = None
  BY DEF BeginAlert, task, Free
<1>2. overlapped' = IF Runs("alert") = {} THEN overlapped \ {r}
                       ELSE overlapped \cup Runs("alert") \cup {r}
  BY DEF BeginAlert
<1> HIDE DEF t
<1>3. TxStands' BY <1>1, TxSet DEF Counting, Progress, Sort, Subject
<1>4. tx'[r] = t /\ \A q \in Request \ {r} : tx'[q] = tx[q] BY <1>1, SetTx DEF Counting
<1>6. LockStands' BY <1>1, <1>4 DEF LockStands, Runs, Counting
<1>7. RunsStand'
  <2>1. ASSUME NEW p \in Runs("message")',
               NEW q \in Runs("message")', tx'[p].subject = tx'[q].subject
        PROVE  p = q
    BY <1>1, <1>4, <2>1 DEF RunsStand, Runs, Counting
  <2>2. ASSUME NEW p \in Runs("requester")', NEW q \in Runs("requester")', p # q
        PROVE  p \in overlapped'
    BY <1>1, <1>2, <1>4, <2>2 DEF RunsStand, Runs, Counting
  <2>3. ASSUME NEW p \in Runs("alert")', NEW q \in Runs("alert")', p # q PROVE p \in overlapped'
    BY <1>1, <1>2, <1>4, <2>3 DEF RunsStand, Runs, Counting
  <2> QED BY <2>1, <2>2, <2>3 DEF RunsStand
<1>8. SeqsStand' BY <1>1, <1>2, NotCounted DEF Counting
<1>9. DueStands' BY <1>1, <1>2, <1>4 DEF DueStands, Runs, Counting
<1> QED BY <1>3, <1>6, <1>7, <1>8, <1>9 DEF Counting

\* The number of the next event is one more than there are.
LEMMA NextSeq ==
  ASSUME NEW type, NEW subject, NEW k \in Nat, Seqs(rows, type, subject) = 1..k
  PROVE  nextEventSeq(type, subject) = k + 1
<1>1. Cardinality(1..k) = k BY FS_Interval
<1> QED BY <1>1 DEF nextEventSeq, Seqs

\* Who counts takes the first number that is free.
LEMMA CountCounts ==
  ASSUME Counting, NEW r \in Request, Count(r)
  PROVE  Counting'
<1> DEFINE old == tx[r]
           to  == computeRecipients(Recipients(old), old.actor)
           t   == [at |-> "writes", to |-> to, seq |-> nextEventSeq(old.kind, old.subject), of |-> old,
                   kind |-> old.kind, subject |-> old.subject]
<1>1. /\ tx[r] # None /\ old.at = "counts" /\ tx' = [tx EXCEPT ![r] = t]
      /\ UNCHANGED <<lock, rows, requester, overlapped>>
  BY DEF Count, task
<1>2. /\ t.at = "writes" /\ t.to = to /\ t.seq = nextEventSeq(old.kind, old.subject) /\ t.of = old
      /\ t.kind = old.kind /\ t.subject = old.subject
  OBVIOUS
<1>3. None \notin to BY DEF computeRecipients
<1>4. old.kind = "requester" => to = old.ids \ {old.actor, None}
  BY DEF computeRecipients, Recipients
<1>5. old.kind = "claim" => to = {requester} \ {old.actor, None}
  BY DEF computeRecipients, Recipients
<1> HIDE DEF t, to
<1>6. Progress(old) /\ old.kind \in Sort /\ old.subject \in Subject
  BY <1>1 DEF Counting, TxStands, Progress
<1>7. TxStands' BY <1>1, <1>2, <1>3, <1>6, TxSet DEF Counting, Progress
<1>8. tx'[r] = t /\ \A q \in Request \ {r} : tx'[q] = tx[q] BY <1>1, SetTx DEF Counting
<1>9. LockStands' BY <1>1, <1>2, <1>8 DEF LockStands, Runs, Counting
<1>10. RunsStand' BY <1>1, <1>2, <1>8 DEF RunsStand, Runs, Counting
<1>11. SeqsStand'
  <2>1. PICK k \in Nat : Seqs(rows, old.kind, old.subject) = 1..k BY <1>6 DEF SeqsStand, Gapless, Counting
  <2>2. t.seq = k + 1 BY <1>2, <2>1, NextSeq
  <2>3. t.seq \in 1..(k + 1) /\ t.seq \notin 1..k BY <2>2
  <2>4. Fits(rows, t) /\ Fresh(rows, t) BY <1>2, <2>1, <2>3 DEF Fits, Fresh
  <2> QED BY <1>1, <1>8, <2>4 DEF SeqsStand, Counting
<1>12. DueStands'
  <2>1. requester \in User /\ requester # None BY NoneAssumption DEF DueStands, Counting
  <2>2. old.kind = "requester" =>
          old.new \in User /\ (r \notin overlapped => old.ids = {requester, old.new})
    BY <1>1 DEF DueStands, Runs, Counting
  <2>3. old.kind = "requester" /\ r \notin overlapped => to = {requester, old.new} \ {old.actor}
    BY <1>4, <2>1, <2>2, NoneAssumption
  <2>4. old.kind = "claim" => to = {requester} \ {old.actor} BY <1>5, <2>1
  <2> QED BY <1>1, <1>2, <1>8, <2>1, <2>2, <2>3, <2>4 DEF DueStands, Runs, Counting
<1> QED BY <1>7, <1>9, <1>10, <1>11, <1>12 DEF Counting

\* What has not committed is gone, alerts apart.
LEMMA CrashCounts ==
  ASSUME Counting, Crash
  PROVE  Counting'
<1>1. /\ DOMAIN tx' = Request /\ UNCHANGED <<rows, requester, overlapped>>
      /\ \A q \in Request : tx'[q] = IF q \in Runs("alert") THEN tx[q] ELSE None
  BY DEF Crash, task
<1>2. \A q \in Request : tx'[q] # None => tx'[q] = tx[q] /\ tx[q].kind = "alert" BY <1>1 DEF Runs
<1>3. TxStands' BY <1>1, <1>2 DEF Counting, TxStands, Progress, Sort, Subject
<1>4. LockStands' BY <1>2 DEF LockStands, Runs
<1>5. RunsStand' BY <1>1, <1>2 DEF RunsStand, Runs, Counting
<1>6. SeqsStand' BY <1>1, <1>2 DEF SeqsStand, Counting
<1>7. DueStands' BY <1>1, <1>2 DEF DueStands, Runs, Counting
<1> QED BY <1>3, <1>4, <1>5, <1>6, <1>7 DEF Counting

\* The rows change, their numbers do not.
LEMMA SameNumbers ==
  ASSUME Counting, UNCHANGED <<tx, lock, overlapped, requester>>,
         \A type, subject : Seqs(rows', type, subject) = Seqs(rows, type, subject)
  PROVE  Counting'
<1>1. \A kind : Runs(kind)' = Runs(kind) BY DEF Runs
<1>2. \A type, subject : Gapless(rows', type, subject) = Gapless(rows, type, subject) BY DEF Gapless
<1>3. \A t : Fits(rows', t) = Fits(rows, t) /\ Fresh(rows', t) = Fresh(rows, t) BY DEF Fits, Fresh
<1>4. TxStands' BY DEF Counting, TxStands, Progress, Sort, Subject
<1>5. LockStands' /\ RunsStand' BY <1>1 DEF Counting, LockStands, RunsStand
<1>6. SeqsStand' BY <1>2, <1>3 DEF Counting, SeqsStand
<1>7. DueStands' BY <1>1 DEF Counting, DueStands
<1> QED BY <1>4, <1>5, <1>6, <1>7 DEF Counting

\* A row that is read keeps who it is for and which event it is of.
LEMMA ReadRow ==
  ASSUME NEW n, DOMAIN n = Shape
  PROVE  LET m == [n EXCEPT !.read = TRUE] IN
         DOMAIN m = Shape /\ m.to = n.to /\ m.type = n.type /\ m.subject = n.subject /\ m.seq = n.seq
BY DEF Shape

\* Marking rows as read renumbers none.
LEMMA MarkCounts ==
  ASSUME Counting, RowsStand, NEW q \in Pull, NEW some, Mark(q, some)
  PROVE  Counting'
<1> DEFINE hit == {n \in rows : n \in some /\ n.to = online}
           as(n) == [n EXCEPT !.read = TRUE]
<1>1. rows' = (rows \ hit) \cup {as(n) : n \in hit} BY DEF Mark
<1>2. \A n \in hit : as(n).type = n.type /\ as(n).subject = n.subject /\ as(n).seq = n.seq
  BY ReadRow DEF RowsStand
<1>3. hit \subseteq rows OBVIOUS
<1> HIDE DEF hit, as
<1>4. ASSUME NEW type, NEW subject PROVE Seqs(rows', type, subject) = Seqs(rows, type, subject)
  <2>1. ASSUME NEW n \in rows
        PROVE  \E m \in rows' : m.type = n.type /\ m.subject = n.subject /\ m.seq = n.seq
    BY <1>1, <1>2
  <2>2. ASSUME NEW m \in rows'
        PROVE  \E n \in rows : m.type = n.type /\ m.subject = n.subject /\ m.seq = n.seq
    BY <1>1, <1>2, <1>3
  <2> QED BY <2>1, <2>2 DEF Seqs
<1> QED BY <1>4, SameNumbers DEF Mark, task

\* What is written carries the number of its event.
LEMMA InsertedSeqs ==
  ASSUME NEW t, NEW type, NEW subject
  PROVE  \/ Seqs(rows \cup Inserted(t), type, subject) = Seqs(rows, type, subject)
         \/ /\ type = t.kind /\ subject = t.subject
            /\ Seqs(rows \cup Inserted(t), type, subject) = Seqs(rows, type, subject) \cup {t.seq}
<1>1. \A n \in Inserted(t) : n.type = t.kind /\ n.subject = t.subject /\ n.seq = t.seq
  BY DEF Inserted
<1>2. CASE type = t.kind /\ subject = t.subject
  <2>1. CASE Inserted(t) = {} BY <2>1
  <2>2. CASE Inserted(t) # {}
    <3>1. \E n \in Inserted(t) : n.seq = t.seq /\ n.type = type /\ n.subject = subject
      BY <1>1, <1>2, <2>2
    <3>2. Seqs(rows \cup Inserted(t), type, subject) = Seqs(rows, type, subject) \cup {t.seq}
      BY <1>1, <3>1 DEF Seqs
    <3> QED BY <1>2, <3>2
  <2> QED BY <2>1, <2>2
<1>3. CASE ~(type = t.kind /\ subject = t.subject)
  <2>1. {n \in rows \cup Inserted(t) : n.type = type /\ n.subject = subject} =
        {n \in rows : n.type = type /\ n.subject = subject}
    BY <1>1, <1>3
  <2> QED BY <2>1 DEF Seqs
<1> QED BY <1>2, <1>3

\* The numbers stay without a gap, and those already given go on to fit.
LEMMA InsertedFits ==
  ASSUME NEW t, Fits(rows, t)
  PROVE  /\ \A type, subject : Gapless(rows, type, subject) 
                                    => Gapless(rows \cup Inserted(t), type, subject)
         /\ \A o : Fits(rows, o) => Fits(rows \cup Inserted(t), o)
         /\ \A o : Fresh(rows, o) /\ ~(o.kind = t.kind /\ o.subject = t.subject)
                     => Fresh(rows \cup Inserted(t), o)
<1>1. \A k \in Nat : \A n \in 1..(k + 1) : \E j \in Nat : 1..k \cup {n} = 1..j /\ k <= j
  <2>1. ASSUME NEW k \in Nat, NEW n \in 1..(k + 1) PROVE \E j \in Nat : 1..k \cup {n} = 1..j /\ k <= j
    <3>1. CASE n = k + 1
      <4>1. 1..k \cup {n} = 1..(k + 1) BY <3>1
      <4> QED BY <4>1
    <3>2. CASE n # k + 1
      <4>1. 1..k \cup {n} = 1..k BY <3>2
      <4> QED BY <4>1
    <3> QED BY <3>1, <3>2
  <2> QED BY <2>1
<1>2. ASSUME NEW type, NEW subject, NEW k \in Nat, Seqs(rows, type, subject) = 1..k
      PROVE  \E j \in Nat : Seqs(rows \cup Inserted(t), type, subject) = 1..j /\ k <= j
  <2>1. CASE Seqs(rows \cup Inserted(t), type, subject) = Seqs(rows, type, subject) BY <1>2, <2>1
  <2>2. CASE /\ type = t.kind /\ subject = t.subject
             /\ Seqs(rows \cup Inserted(t), type, subject) = Seqs(rows, type, subject) \cup {t.seq}
    <3>1. PICK i \in Nat : Seqs(rows, t.kind, t.subject) = 1..i /\ t.seq \in 1..(i + 1) BY DEF Fits
    <3>2. PICK j \in Nat : 1..i \cup {t.seq} = 1..j /\ i <= j BY <1>1, <3>1
    <3>3. Seqs(rows \cup Inserted(t), type, subject) = 1..j /\ 1..k = 1..i BY <1>2, <2>2, <3>1, <3>2
    <3>4. k <= j BY <3>2, <3>3
    <3> QED BY <3>3, <3>4
  <2> QED BY <2>1, <2>2, InsertedSeqs
<1>3. ASSUME NEW o, Fits(rows, o) PROVE Fits(rows \cup Inserted(t), o)
  <2>1. PICK k \in Nat : Seqs(rows, o.kind, o.subject) = 1..k /\ o.seq \in 1..(k + 1) BY <1>3 DEF Fits
  <2>2. PICK j \in Nat : Seqs(rows \cup Inserted(t), o.kind, o.subject) = 1..j /\ k <= j
    BY <1>2, <2>1
  <2>3. o.seq \in 1..(j + 1) BY <2>1, <2>2
  <2> QED BY <2>2, <2>3 DEF Fits
<1>4. ASSUME NEW o, Fresh(rows, o), ~(o.kind = t.kind /\ o.subject = t.subject)
      PROVE  Fresh(rows \cup Inserted(t), o)
  BY <1>4, InsertedSeqs DEF Fresh
<1> QED BY <1>2, <1>3, <1>4 DEF Gapless

\* Of those about to write, only overlapping changes and alerts are of one type and subject.
LEMMA WritesAlone ==
  ASSUME TxStands, LockStands, RunsStand, NEW r \in Request, NEW q \in Request, q # r, q \notin overlapped,
         tx[r] # None, tx[r].at = "writes", tx[q] # None, tx[q].at = "writes"
  PROVE  ~(tx[q].kind = tx[r].kind /\ tx[q].subject = tx[r].subject)
<1>1. SUFFICES ASSUME tx[q].kind = tx[r].kind, tx[q].subject = tx[r].subject PROVE FALSE OBVIOUS
<1>2. tx[r].kind \in Sort BY DEF TxStands, Progress
<1>3. CASE tx[r].kind \in {"claim", "requester"} BY <1>1, <1>3 DEF LockStands, Runs
<1>4. CASE tx[r].kind \in {"message", "alert"} BY <1>1, <1>4 DEF RunsStand, Runs
<1> QED BY <1>2, <1>3, <1>4 DEF Sort

\* A commit adds its number, and nobody else alone had counted for it.
LEMMA CommitCounts ==
  ASSUME Counting, NEW r \in Request, Commit(r)
  PROVE  Counting'
<1> DEFINE t == tx[r]
           o == IF t.kind = "alert" THEN None ELSE [kind |-> "sent", at |-> "pings", to |-> t.to]
<1>1. /\ t # None /\ t.at = "writes" /\ rows' = rows \cup Inserted(t) /\ UNCHANGED overlapped
      /\ tx' = [tx EXCEPT ![r] = o] /\ lock' = IF lock = r THEN None ELSE lock
      /\ requester' = IF t.kind = "requester" THEN t.of.new ELSE requester
  BY DEF Commit
<1>2. o # None => o.at = "pings" /\ o.kind = "sent" /\ o.to = t.to OBVIOUS
<1> HIDE DEF o
<1>3. Progress(t) /\ t.kind \in Sort /\ t.subject \in Subject BY <1>1 DEF Counting, TxStands, Progress
<1>4. TxStands' BY <1>1, <1>2, <1>3, TxSet DEF Counting, Progress
<1>5. tx'[r] = o /\ \A q \in Request \ {r} : tx'[q] = tx[q] BY <1>1, SetTx DEF Counting
<1>6. \A q \in Request, kind \in Sort :
        q \in Runs(kind)' => q # r /\ q \in Runs(kind) /\ tx'[q] = tx[q]
  BY <1>2, <1>5 DEF Runs, Sort
<1>7. LockStands' BY <1>1, <1>6 DEF LockStands, Counting, Sort, Runs
<1>8. RunsStand'
  <2>1. ASSUME NEW p \in Runs("message")',
               NEW q \in Runs("message")', tx'[p].subject = tx'[q].subject
        PROVE  p = q
    BY <1>6, <2>1 DEF RunsStand, Counting, Runs, Sort
  <2>2. ASSUME NEW kind \in {"requester", "alert"},
               NEW p \in Runs(kind)', NEW q \in Runs(kind)', p # q
        PROVE  p \in overlapped'
    BY <1>1, <1>6, <2>2 DEF RunsStand, Counting, Runs, Sort
  <2> QED BY <2>1, <2>2 DEF RunsStand
<1>9. SeqsStand'
  <2>1. Fits(rows, t) BY <1>1 DEF SeqsStand, Counting
  <2>2. ASSUME NEW type \in Sort, NEW subject \in Subject PROVE Gapless(rows', type, subject)
    BY <1>1, <2>1, InsertedFits DEF SeqsStand, Counting
  <2>3. ASSUME NEW q \in Request, tx'[q] # None, tx'[q].at = "writes"
        PROVE  Fits(rows', tx'[q]) /\ (q \notin overlapped' => Fresh(rows', tx'[q]))
    <3>1. q # r /\ tx'[q] = tx[q] BY <1>2, <1>5, <2>3
    <3>2. Fits(rows, tx[q]) /\ (q \notin overlapped => Fresh(rows, tx[q]))
      BY <2>3, <3>1 DEF SeqsStand, Counting
    <3>3. q \notin overlapped => ~(tx[q].kind = t.kind /\ tx[q].subject = t.subject)
      BY <1>1, <2>3, <3>1, WritesAlone DEF Counting
    <3> QED BY <1>1, <2>1, <3>1, <3>2, <3>3, InsertedFits
  <2> QED BY <2>2, <2>3 DEF SeqsStand
<1>10. DueStands'
  <2>1. t.kind = "requester" => t.of.new \in User BY <1>1 DEF DueStands, Runs, Counting
  <2>2. requester' \in User BY <1>1, <2>1 DEF DueStands, Counting
  <2>3. ASSUME NEW q \in Request, q \in Runs("requester")'
        PROVE  /\ tx'[q].at \in {"waits", "counts"} =>
                    /\ tx'[q].new \in User
                    /\ q \notin overlapped' => tx'[q].ids = {requester', tx'[q].new}
               /\ tx'[q].at = "writes" =>
                    /\ tx'[q].of.new \in User
                    /\ q \notin overlapped' => tx'[q].to = {requester', tx'[q].of.new} \ {tx'[q].of.actor}
    <3>1. q # r /\ q \in Runs("requester") /\ tx'[q] = tx[q] BY <1>6, <2>3 DEF Sort
    <3>2. CASE t.kind = "requester"
      <4>1. q \in overlapped BY <1>1, <3>1, <3>2 DEF RunsStand, Counting, Runs
      <4> QED BY <1>1, <3>1, <4>1 DEF DueStands, Counting
    <3>3. CASE t.kind # "requester" BY <1>1, <3>1, <3>3 DEF DueStands, Counting
    <3> QED BY <3>2, <3>3
  <2>4. ASSUME NEW q \in Request, q \in Runs("claim")', tx'[q].at = "writes"
        PROVE  tx'[q].to = {requester'} \ {tx'[q].of.actor}
    <3>1. q # r /\ q \in Runs("claim") /\ tx'[q] = tx[q] BY <1>6, <2>4 DEF Sort
    <3>2. t.kind # "requester" BY <1>1, <2>4, <3>1 DEF LockStands, Counting, Runs
    <3> QED BY <1>1, <2>4, <3>1, <3>2 DEF DueStands, Counting
  <2>5. Runs("requester")' \subseteq Request /\ Runs("claim")' \subseteq Request
    BY DEF Runs
  <2> QED BY <2>2, <2>3, <2>4, <2>5 DEF DueStands
<1> QED BY <1>4, <1>7, <1>8, <1>9, <1>10 DEF Counting

\* One pull takes a step, the others stay where they are.
LEMMA SetPull ==
  ASSUME RowsStand, NEW q \in Pull, NEW p, pull' = [pull EXCEPT ![q] = p]
  PROVE  DOMAIN pull' = Pull /\ pull'[q] = p /\ \A k \in Pull \ {q} : pull'[k] = pull[k]
BY DEF RowsStand

\* A pull takes a step; rows and feed stay.
LEMMA PullShown ==
  ASSUME Shown, NEW q \in Pull, NEW p, pull' = [pull EXCEPT ![q] = p], p # None => Pulls(p),
         ~late /\ p # None => Ours(p), UNCHANGED <<rows, feed, online, late>>,
         pings' \in Nat, pings' > 0 => pings > 0
  PROVE  Shown'
<1>1. DOMAIN pull' = Pull /\ pull'[q] = p /\ \A k \in Pull \ {q} : pull'[k] = pull[k] BY SetPull DEF Shown
<1>2. RowsStand' BY <1>1 DEF Shown, RowsStand, Pulls
<1>3. FeedStands' BY <1>1 DEF Shown, FeedStands, Ours, OwnFeed
<1> QED BY <1>2, <1>3 DEF Shown

\* What the server does short of a commit shows nothing.
LEMMA SameShown ==
  ASSUME Shown, UNCHANGED <<rows, browser>>
  PROVE  Shown'
BY DEF Shown, RowsStand, FeedStands, Ours, OwnFeed, browser

\* Rows are written with the columns of a notification.
LEMMA CommitShown ==
  ASSUME Shown, NEW r \in Request, Commit(r)
  PROVE  Shown'
<1>1. \A n \in Inserted(tx[r]) : DOMAIN n = Shape BY DEF Inserted, Shape
<1>2. rows' = rows \cup Inserted(tx[r]) /\ UNCHANGED browser BY DEF Commit
<1>3. RowsStand' BY <1>1, <1>2 DEF Shown, RowsStand, browser
<1>4. FeedStands' BY <1>2 DEF Shown, FeedStands, Ours, OwnFeed, browser
<1> QED BY <1>3, <1>4 DEF Shown

\* A ping goes to somebody who is signed in.
LEMMA publishShown ==
  ASSUME Shown, TxStands, NEW r \in Request, publish(r)
  PROVE  Shown'
<1>1. online \in tx[r].to => online # None BY DEF publish, TxStands, Progress
<1>2. RowsStand' BY DEF Shown, RowsStand, publish
<1>3. FeedStands' BY <1>1 DEF Shown, FeedStands, Ours, OwnFeed, publish
<1> QED BY <1>2, <1>3 DEF Shown

\* A crash ends pulls and begins none.
LEMMA CrashShown ==
  ASSUME Shown, Crash
  PROVE  Shown'
<1>1. DOMAIN pull' = Pull /\ \A q \in Pull : pull'[q] # None => pull'[q] = pull[q] BY DEF Crash
<1>2. RowsStand' BY <1>1 DEF Shown, RowsStand, Crash
<1>3. FeedStands' BY <1>1 DEF Shown, FeedStands, Ours, OwnFeed, Crash
<1> QED BY <1>2, <1>3 DEF Shown

\* Who signs in finds an empty feed, and no pull unless it is late.
LEMMA connectShown ==
  ASSUME Shown, NEW u \in User, connectStream(u)
  PROVE  Shown'
<1>1. u # None BY NoneAssumption
<1>2. RowsStand' BY DEF Shown, RowsStand, connectStream, server
<1>3. FeedStands' BY <1>1 DEF Shown, FeedStands, Ours, OwnFeed, connectStream, server
<1> QED BY <1>2, <1>3 DEF Shown

\* Who signs out takes the feed along; a pull under way is late from then on.
LEMMA disconnectShown ==
  ASSUME Shown, disconnect
  PROVE  Shown'
<1>1. RowsStand' BY DEF Shown, RowsStand, disconnect, server
<1>2. late \in BOOLEAN /\ late' = (late \/ \E q \in Pull : pull[q] # None)
  BY DEF Shown, FeedStands, disconnect
<1>3. late' \in BOOLEAN /\ (~late' => \A q \in Pull : pull[q] = None) BY <1>2, Zenon
<1>4. online' = None /\ pings' = 0 /\ feed' = {} /\ pull' = pull BY DEF disconnect
<1>5. FeedStands' BY <1>3, <1>4 DEF FeedStands, Ours, OwnFeed
<1> QED BY <1>1, <1>5 DEF Shown

\* A pull begins for who is signed in.
LEMMA reconcileShown ==
  ASSUME Shown, NEW q \in Pull, reconcile(q)
  PROVE  Shown'
<1> DEFINE p == [at |-> "lists", who |-> online, some |-> {}, clock |-> clock, unread |-> 0]
<1>1. Pulls(p) BY DEF Pulls
<1>2. Ours(p) BY DEF Ours, Shown, FeedStands, reconcile
<1>3. /\ pull' = [pull EXCEPT ![q] = p] /\ UNCHANGED <<rows, feed, online, late>>
      /\ pings' \in Nat /\ (pings' > 0 => pings > 0)
  BY DEF reconcile, server, Shown, FeedStands
<1> QED BY <1>1, <1>2, <1>3, PullShown

\* The rows of a user are addressed to the user.
LEMMA OwnShape ==
  ASSUME RowsStand, NEW u
  PROVE  \A n \in Own(u) : DOMAIN n = Shape /\ n.to = u
BY DEF RowsStand, Own

\* The rows pulled are those of who asked.
LEMMA listShown ==
  ASSUME Shown, NEW q \in Pull, listForUser(q)
  PROVE  Shown'
<1> DEFINE p == [pull[q] EXCEPT !.at = "numbers", !.some = Own(pull[q].who), !.clock = clock]
<1>1. DOMAIN pull[q] = {"at", "who", "some", "clock", "unread"}
  BY DEF listForUser, Shown, RowsStand, Pulls
<1>2. /\ DOMAIN p = {"at", "who", "some", "clock", "unread"}
      /\ p.some = Own(pull[q].who) /\ p.who = pull[q].who
  BY <1>1 DEF Pulls
<1>3. /\ pull' = [pull EXCEPT ![q] = p] /\ UNCHANGED <<rows, feed, online, late>>
      /\ pings' \in Nat /\ (pings' > 0 => pings > 0) /\ pull[q] # None
  BY DEF listForUser, server, Shown, FeedStands
<1> HIDE DEF p
<1>4. Pulls(p) BY <1>2, OwnShape DEF Pulls, Shown
<1>5. ~late => Ours(p) BY <1>2, <1>3, OwnShape DEF Ours, Shown, FeedStands
<1> QED BY <1>3, <1>4, <1>5, PullShown

\* Their number changes no rows.
LEMMA unreadCountShown ==
  ASSUME Shown, NEW q \in Pull, unreadCount(q)
  PROVE  Shown'
<1> DEFINE p == [pull[q] EXCEPT !.at = IF pull[q].at = "marks" THEN "marked" ELSE "answers",
                                !.unread = Unread(pull[q].who)]
<1>1. DOMAIN pull[q] = {"at", "who", "some", "clock", "unread"} /\ Pulls(pull[q])
  BY DEF unreadCount, Shown, RowsStand, Pulls
<1>2. DOMAIN p = {"at", "who", "some", "clock", "unread"} /\ p.some = pull[q].some /\ p.who = pull[q].who
  BY <1>1 DEF Pulls
<1>3. /\ pull' = [pull EXCEPT ![q] = p] /\ UNCHANGED <<rows, feed, online, late>>
      /\ pings' \in Nat /\ (pings' > 0 => pings > 0) /\ pull[q] # None
  BY DEF unreadCount, server, Shown, FeedStands
<1> HIDE DEF p
<1>4. Pulls(p) BY <1>1, <1>2 DEF Pulls
<1>5. ~late => Ours(p) BY <1>2, <1>3 DEF Ours, Shown, FeedStands
<1> QED BY <1>3, <1>4, <1>5, PullShown

\* A pull that fails shows nothing.
LEMMA FailsShown ==
  ASSUME Shown, NEW q \in Pull, PullFails(q)
  PROVE  Shown'
<1>1. /\ pull' = [pull EXCEPT ![q] = None] /\ UNCHANGED <<rows, feed, online, late, pings>>
      /\ pings' \in Nat
  BY DEF PullFails, server, Shown, FeedStands
<1> QED BY <1>1, PullShown

\* An answer replaces the feed.
LEMMA ShowShown ==
  ASSUME Shown, NEW q \in Pull, Show(q)
  PROVE  Shown'
<1>1. DOMAIN pull' = Pull /\ pull'[q] = None /\ \A k \in Pull \ {q} : pull'[k] = pull[k]
  BY SetPull DEF Show, Shown
<1>2. feed' = pull[q].some /\ pull[q] # None /\ UNCHANGED <<rows, online, late, pings>>
  BY DEF Show, server
<1>3. RowsStand' BY <1>1, <1>2 DEF Shown, RowsStand, Pulls
<1>4. FeedStands' BY <1>1, <1>2 DEF Shown, FeedStands, Ours, OwnFeed
<1> QED BY <1>3, <1>4 DEF Shown

\* The answer to a mark keeps the rows shown, some of them read.
LEMMA ShowMarkShown ==
  ASSUME Shown, NEW q \in Pull, ShowMark(q)
  PROVE  Shown'
<1>1. DOMAIN pull' = Pull /\ pull'[q] = None /\ \A k \in Pull \ {q} : pull'[k] = pull[k]
  BY SetPull DEF ShowMark, Shown
<1> DEFINE as(n) == IF n \in pull[q].some THEN [n EXCEPT !.read = TRUE] ELSE n
<1>2. feed' = {as(n) : n \in feed} /\ pull[q] # None /\ UNCHANGED <<rows, online, late, pings>>
  BY DEF ShowMark, server
<1>3. \A n \in feed : DOMAIN as(n) = Shape /\ as(n).to = n.to BY ReadRow DEF Shown, RowsStand
<1> HIDE DEF as
<1>4. RowsStand' BY <1>1, <1>2, <1>3 DEF Shown, RowsStand
<1>5. FeedStands' BY <1>1, <1>2, <1>3 DEF Shown, FeedStands, Ours, OwnFeed
<1> QED BY <1>4, <1>5 DEF Shown

\* A mark is asked for rows that are shown.
LEMMA MarkShown ==
  ASSUME Shown, NEW q \in Pull, NEW some, Mark(q, some)
  PROVE  Shown'
<1> DEFINE p == [at |-> "marks", who |-> online, some |-> some, clock |-> clock', unread |-> 0]
           hit == {n \in rows : n \in some /\ n.to = online}
           as(n) == [n EXCEPT !.read = TRUE]
<1>1. /\ rows' = (rows \ hit) \cup {as(n) : n \in hit} /\ online # None /\ some \subseteq feed
      /\ pull' = [pull EXCEPT ![q] = p] /\ UNCHANGED <<feed, online, late, pings>>
  BY DEF Mark
<1>2. hit \subseteq rows /\ \A n \in hit : DOMAIN as(n) = Shape BY ReadRow DEF Shown, RowsStand
<1>3. Pulls(p) BY <1>1 DEF Pulls, Shown, RowsStand
<1>4. ~late => Ours(p) BY <1>1 DEF Ours, Shown, FeedStands, Ours, OwnFeed
<1> HIDE DEF p, hit, as
<1>5. \A n \in rows' : DOMAIN n = Shape BY <1>1, <1>2 DEF Shown, RowsStand
<1>6. DOMAIN pull' = Pull /\ pull'[q] = p /\ \A k \in Pull \ {q} : pull'[k] = pull[k]
  BY <1>1, SetPull DEF Shown
<1>7. RowsStand' BY <1>1, <1>3, <1>5, <1>6 DEF Shown, RowsStand, Pulls
<1>8. FeedStands' BY <1>1, <1>4, <1>6 DEF Shown, FeedStands, Ours, OwnFeed
<1> QED BY <1>7, <1>8 DEF Shown

\* Every step keeps numbers and feed in order.
LEMMA StepKeeps ==
  ASSUME FeedInv, [FeedNext]_feedVars
  PROVE  FeedInv'
<1>1. CASE UNCHANGED feedVars
  BY <1>1, Same, SameShown DEF FeedInv, feedVars, task, server, browser
<1>2. ASSUME NEW r \in Request, NEW u \in User, NEW v \in User, BeginChange(r, u, v) PROVE FeedInv'
  BY <1>2, BeginChangeCounts, SameShown DEF FeedInv, BeginChange
<1>3. ASSUME NEW r \in Request, NEW u \in User, BeginClaim(r, u) PROVE FeedInv'
  BY <1>3, BeginClaimCounts, SameShown DEF FeedInv, BeginClaim
<1>4. ASSUME NEW r \in Request, NEW u \in User, NEW m \in Message, NEW p \in Message \cup {None},
             BeginCreate(r, u, m, p)
      PROVE  FeedInv'
  BY <1>4, BeginCreateCounts, SameShown DEF FeedInv, BeginCreate
<1>5. ASSUME NEW r \in Request, BeginAlert(r) PROVE FeedInv'
  BY <1>5, BeginAlertCounts, SameShown DEF FeedInv, BeginAlert
<1>6. ASSUME NEW r \in Request, LockTask(r) PROVE FeedInv'
  BY <1>6, LockTaskCounts, SameShown DEF FeedInv, LockTask
<1>7. ASSUME NEW r \in Request, Refuse(r) PROVE FeedInv'
  BY <1>7, EndCounts, SameShown DEF FeedInv, Refuse, task
<1>8. ASSUME NEW r \in Request, Count(r) PROVE FeedInv'
  BY <1>8, CountCounts, SameShown DEF FeedInv, Count
<1>9. ASSUME NEW r \in Request, Commit(r) PROVE FeedInv'
  BY <1>9, CommitCounts, CommitShown DEF FeedInv
<1>10. ASSUME NEW r \in Request, publish(r) PROVE FeedInv'
  BY <1>10, EndCounts, publishShown DEF FeedInv, publish, task, Counting
<1>11. ASSUME NEW m \in Message, RetireMessage(m) \/ ReviveMessage(m) PROVE FeedInv'
  BY <1>11, Same, SameShown DEF FeedInv, RetireMessage, ReviveMessage, server
<1>12. CASE Crash BY <1>12, CrashCounts, CrashShown DEF FeedInv
<1>13. CASE disconnect
  BY <1>13, Same, disconnectShown DEF FeedInv, disconnect, task, server
<1>14. ASSUME NEW u \in User, connectStream(u) PROVE FeedInv'
  BY <1>14, Same, connectShown DEF FeedInv, connectStream, task, server
<1>15. ASSUME NEW q \in Pull, reconcile(q) PROVE FeedInv'
  BY <1>15, Same, reconcileShown DEF FeedInv, reconcile, task, server
<1>16. ASSUME NEW q \in Pull, listForUser(q) PROVE FeedInv'
  BY <1>16, Same, listShown DEF FeedInv, listForUser, task, server
<1>17. ASSUME NEW q \in Pull, unreadCount(q) PROVE FeedInv'
  BY <1>17, Same, unreadCountShown DEF FeedInv, unreadCount, task, server
<1>18. ASSUME NEW q \in Pull, Show(q) PROVE FeedInv'
  BY <1>18, Same, ShowShown DEF FeedInv, Show, task, server
<1>19. ASSUME NEW q \in Pull, ShowMark(q) PROVE FeedInv'
  BY <1>19, Same, ShowMarkShown DEF FeedInv, ShowMark, task, server
<1>20. ASSUME NEW q \in Pull, PullFails(q) PROVE FeedInv'
  BY <1>20, Same, FailsShown DEF FeedInv, PullFails, task, server
<1>21. ASSUME NEW q \in Pull, NEW some \in SUBSET feed, Mark(q, some) PROVE FeedInv'
  BY <1>21, MarkCounts, MarkShown DEF FeedInv, Shown
<1> QED
  BY <1>1, <1>2, <1>3, <1>4, <1>5, <1>6, <1>7, <1>8, <1>9, <1>10, <1>11, <1>12, <1>13, <1>14, <1>15, <1>16,
     <1>17, <1>18, <1>19, <1>20, <1>21
  DEF FeedNext, Work, Answer

\* Nothing is numbered, nothing is shown.
LEMMA InitKeeps == FeedInit => FeedInv
<1> SUFFICES ASSUME FeedInit PROVE FeedInv OBVIOUS
<1>1. \A r \in Request : tx[r] = None BY DEF FeedInit
<1>2. \A kind : Runs(kind) = {} BY <1>1 DEF Runs
<1>3. TxStands /\ LockStands /\ RunsStand BY <1>1, <1>2 DEF FeedInit, TxStands, LockStands, RunsStand
<1>4. DueStands BY <1>2 DEF FeedInit, DueStands
<1>5. ASSUME NEW type, NEW subject PROVE Gapless(rows, type, subject)
  <2>1. Seqs(rows, type, subject) = {} BY DEF FeedInit, Seqs
  <2>2. 1..0 = {} OBVIOUS
  <2> QED BY <2>1, <2>2 DEF Gapless
<1>6. SeqsStand BY <1>1, <1>5 DEF SeqsStand
<1>7. RowsStand BY DEF FeedInit, RowsStand
<1>8. FeedStands
  <2>1. late = FALSE /\ pings = 0 /\ feed = {} /\ \A q \in Pull : pull[q] = None BY DEF FeedInit
  <2>2. pings \in Nat /\ ~(pings > 0) BY <2>1
  <2>3. late \in BOOLEAN BY <2>1, Zenon
  <2> QED BY <2>1, <2>2, <2>3 DEF FeedStands, Ours, OwnFeed
<1> QED BY <1>3, <1>4, <1>6, <1>7, <1>8 DEF FeedInv, Counting, Shown

\* As long as no pull was under way at a sign-out, a browser never shows a row
\* of anybody but who is signed in there: answers are shown as they come, so
\* the rows of every pull under way are those of the one it is shown to.
THEOREM FeedIsOwn == FeedSpec => []OwnFeed
<1>1. FeedInv => OwnFeed BY DEF FeedInv, Shown, FeedStands
<1>2. FeedInit => FeedInv BY InitKeeps
<1>3. FeedInv /\ [FeedNext]_feedVars => FeedInv' BY StepKeeps
<1> QED BY <1>1, <1>2, <1>3, PTL DEF FeedSpec

\* Only a commit writes rows for an event.
LEMMA OnlyCommit ==
  ASSUME [FeedNext]_feedVars, clock' # clock
  PROVE  (\E r \in Request : Commit(r)) \/ tx' = tx
<1>1. CASE UNCHANGED feedVars BY <1>1, Zenon DEF feedVars, server
<1>2. CASE FeedNext
  BY <1>2, ZenonT(30)
  DEF FeedNext, Work, Answer, BeginChange, BeginClaim, BeginCreate,
      BeginAlert, LockTask, Refuse, Count, publish, RetireMessage,
      ReviveMessage, Crash, disconnect, connectStream, reconcile,
      listForUser, unreadCount, Show, ShowMark, PullFails, Mark,
      task, server, browser
<1> QED BY <1>1, <1>2

\* A row for everybody whose number is new.
LEMMA AllInserted ==
  ASSUME NEW t, Fresh(rows, t)
  PROVE  {n.to : n \in Inserted(t) \ rows} = t.to
<1>1. \A n \in rows : ~(n.type = t.kind /\ n.subject = t.subject /\ n.seq = t.seq) BY DEF Fresh, Seqs
<1>2. {v \in t.to : ~\E n \in rows : n.to = v /\ n.type = t.kind /\ n.seq = t.seq
                                     /\ n.subject = t.subject} = t.to
  BY <1>1
<1> DEFINE row(u) == [to |-> u, type |-> t.kind, subject |-> t.subject, seq |-> t.seq, read |-> FALSE]
<1>3. Inserted(t) = {row(u) : u \in t.to} BY <1>2 DEF Inserted
<1>4. \A u : /\ row(u).to = u /\ row(u).type = t.kind
             /\ row(u).subject = t.subject /\ row(u).seq = t.seq
  OBVIOUS
<1> HIDE DEF row
<1>5. \A u : row(u) \notin rows BY <1>1, <1>4
<1>6. Inserted(t) \ rows = {row(u) : u \in t.to} BY <1>3, <1>5
<1> QED BY <1>4, <1>6

\* A commit that did not overlap tells everybody it has to.
LEMMA TellsAll ==
  ASSUME FeedInv, NEW r \in Request, r \notin overlapped, [FeedNext]_feedVars,
         tx[r] # None, tx[r].at = "writes", clock' # clock, tx'[r] # tx[r]
  PROVE  {n.to : n \in rows' \ rows} = Due(tx[r])
<1>1. PICK q \in Request : Commit(q) BY OnlyCommit
<1>2. q = r
  <2>1. tx' = [tx EXCEPT ![q] = IF tx[q].kind = "alert" THEN None
                                ELSE [kind |-> "sent", at |-> "pings", to |-> tx[q].to]]
    BY <1>1 DEF Commit
  <2> QED BY <2>1, SetTx DEF FeedInv, Counting
<1>3. rows' = rows \cup Inserted(tx[r]) BY <1>1, <1>2 DEF Commit
<1>4. Fresh(rows, tx[r]) BY DEF FeedInv, Counting, SeqsStand
<1>5. rows' \ rows = Inserted(tx[r]) \ rows BY <1>3
<1>6. {n.to : n \in rows' \ rows} = tx[r].to BY <1>4, <1>5, AllInserted
<1>7. tx[r].to = Due(tx[r])
  <2>1. CASE tx[r].kind = "requester" BY <2>1 DEF Due, FeedInv, Counting, DueStands, Runs
  <2>2. CASE tx[r].kind = "claim" BY <2>2 DEF Due, FeedInv, Counting, DueStands, Runs
  <2>3. CASE tx[r].kind \notin {"requester", "claim"} BY <2>3 DEF Due
  <2> QED BY <2>1, <2>2, <2>3
<1> QED BY <1>6, <1>7

\* Every event that ran alone leaves a new row for exactly those it concerns:
\* the number it counted was not given to another event before it commits, so
\* skipDuplicates skips none of its rows, and whom it counted as concerned is
\* still concerned.
THEOREM EverybodyIsTold == FeedSpec => EveryoneTold
<1>1. FeedInit => FeedInv BY InitKeeps
<1>2. FeedInv /\ [FeedNext]_feedVars => FeedInv' BY StepKeeps
<1> DEFINE Tells == \A r \in Request \ overlapped :
                      tx[r] # None /\ tx[r].at = "writes" /\ clock' # clock /\ tx'[r] # tx[r]
                        => {n.to : n \in rows' \ rows} = Due(tx[r])
<1>3. FeedInv /\ [FeedNext]_feedVars => [Tells]_feedVars BY TellsAll
<1> QED BY <1>1, <1>2, <1>3, PTL DEF FeedSpec, EveryoneTold
=============================================================================
