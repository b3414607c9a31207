------------------------------- MODULE Gateway -------------------------------
(***************************************************************************)
(* The gateway session of one connection: the state machine of             *)
(* gateway-connection.state-machine.ts, the sockets and timers that        *)
(* integration-gateway.service.ts drives it with, and the reconcile floor  *)
(* of sync.service.ts that reads its health.                               *)
(*                                                                         *)
(* A socket dispatches whatever it receives to the one session object,     *)
(* also after the session has moved on to another socket: such a socket is *)
(* an orphan.  Discord answers IDENTIFY and RESUME, sends the events of a  *)
(* gateway session in order, keeps a session for resuming after its socket *)
(* is gone, and closes a socket that sends no heartbeat; the network may   *)
(* close any socket.  An event is lost with the socket it travels on and   *)
(* sent again when the session resumes.                                    *)
(*                                                                         *)
(* Time is the tick of the floor: half an hour.  MaxTroubles bounds the    *)
(* troubles (closed sockets, expired and invalidated sessions, reconnects  *)
(* that take three heartbeats, restarts), MaxChanges the changes in the     *)
(* workspace; a socket that has closed frees its identity.                 *)
(***************************************************************************)
EXTENDS Naturals, FiniteSets

CONSTANTS
  Socket,          \* identities of sockets
  Session,         \* identities of Discord's gateway sessions
  Nobody,          \* no socket, no session
  MaxChanges, MaxTroubles,
  HealthyFloor     \* ticks without a write before a healthy connection is swept

ASSUME NobodyAssumption == Nobody \notin Socket \cup Session
ASSUME SocketAssumption == IsFiniteSet(Socket) /\ Socket # {}
ASSUME FreshAssumption  == IsFiniteSet(Session) /\ Cardinality(Session) > Cardinality(Socket)
ASSUME BoundAssumption  == {MaxChanges, MaxTroubles} \subseteq Nat /\ HealthyFloor \in Nat \ {0}

VARIABLES
  ctx,             \* GatewayContext: state, sessionId, sequenceNumber (0: null), missed
  ws,              \* the socket the session sends on
  socket,          \* socket[s]: how far s is in the protocol, as Discord sees it
  heartbeat,       \* the heartbeat timer runs
  reconnect,       \* a reconnection is scheduled
  healthy,         \* as sync.service keeps it
  age,             \* ticks since the row of the connection was last written
  changes,         \* changes made in the workspace so far
  live,            \* live[i]: Discord would still resume session i
  start,           \* start[i]: changes made before session i began
  rung, swept,     \* changes a doorbell was rung for; changes covered by a sweep
  crossed,         \* history: an orphan has spoken to the session
  troubles

discord == <<changes, live, start>>
floor   == <<age, swept>>
vars    == <<ctx, ws, socket, heartbeat, reconnect, healthy, age, changes,
             live, start, rung, swept, crossed, troubles>>

Closed    == [stage |-> "closed", session |-> Nobody, sent |-> 0]
At(stage) == [stage |-> stage, session |-> Nobody, sent |-> 0]

IsOpen(s)  == socket[s].stage \notin {"closed", "connecting"}
Serving(s) == socket[s].stage \in {"replaying", "ready"}
Orphans    == {s \in Socket : socket[s].stage # "closed" /\ s # ws}

initialContext ==
  [state |-> "disconnected", sessionId |-> Nobody, sequenceNumber |-> 0, missed |-> 0]

\* An identity nobody refers to is as good as any other.
Attached    == {socket[s].session : s \in Socket} \ {Nobody}
Unused(i)   == i \notin Attached \cup {ctx.sessionId}
FreeSockets == {s \in Socket : socket[s] = Closed}

Trouble == troubles < MaxTroubles /\ troubles' = troubles + 1

Heard(s) == crossed' = (crossed \/ s # ws)

\* Any write of the connection's row, whichever state it records, bumps updatedAt.
persistGateway == age' = 0

-----------------------------------------------------------------------------
(* What the session does *)

connect(s) ==
  /\ ws' = s
  /\ socket' = [socket EXCEPT ![s] = At("connecting")]
  /\ persistGateway

ReconnectFires ==
  /\ reconnect /\ FreeSockets # {}
  /\ connect(CHOOSE s \in Socket : s \in FreeSockets)
  /\ reconnect' = FALSE
  /\ UNCHANGED <<ctx, heartbeat, healthy, discord, rung, swept, troubles, crossed>>

\* The socket is let go, not closed.
ScheduleReconnect == ws' = Nobody /\ reconnect' = TRUE

EmitHealth(h) == healthy' = h /\ persistGateway

Forget(c, resumable) ==
  IF resumable THEN c ELSE [c EXCEPT !.sessionId = Nobody, !.sequenceNumber = 0]

OpenReceived(s) ==
  /\ socket[s].stage = "connecting"
  /\ socket' = [socket EXCEPT ![s] = At("open")]
  /\ ctx' = [ctx EXCEPT !.state = "connecting"]
  /\ Heard(s)
  /\ UNCHANGED <<ws, heartbeat, reconnect, healthy, floor, discord, rung, troubles>>

CanResume == ctx.sessionId # Nobody /\ ctx.sequenceNumber > 0

\* IDENTIFY or RESUME goes out on the session's socket, whichever said HELLO.
\* With none it is dropped, and a second one on a socket makes Discord close it.
AskOn(s, t) ==
  IF t = Nobody \/ ~(IsOpen(t) \/ t = s) THEN [socket EXCEPT ![s] = At("greeted")]
  ELSE LET asked == IF t = s /\ CanResume
                    THEN [stage |-> "resuming", session |-> ctx.sessionId,
                          sent |-> ctx.sequenceNumber]
                    ELSE IF t = s THEN At("identifying") ELSE At("refused")
       IN [[socket EXCEPT ![s] = At("greeted")] EXCEPT ![t] = asked]

HelloReceived(s) ==
  /\ socket[s].stage = "open"
  /\ socket' = AskOn(s, ws)
  /\ ctx' = [ctx EXCEPT !.state = IF CanResume THEN "resuming" ELSE "identifying"]
  /\ heartbeat' = TRUE
  /\ Heard(s)
  /\ UNCHANGED <<ws, reconnect, healthy, floor, discord, rung, troubles>>

\* Mutant: a new session triggers no sweep.
ReadyWithoutSweep(s) ==
  LET i == CHOOSE j \in Session : Unused(j) IN
  /\ socket[s].stage = "identifying"
  /\ socket' = [socket EXCEPT ![s] = [stage |-> "ready", session |-> i, sent |-> 0]]
  /\ live' = [j \in Session |-> j = i \/ (live[j] /\ j \in Attached)]
  /\ start' = [j \in Session |-> IF j = i THEN changes ELSE IF j \in Attached THEN start[j] ELSE 0]
  /\ ctx' = [ctx EXCEPT !.state = "ready", !.sessionId = i]
  /\ EmitHealth(TRUE)
  /\ Heard(s)
  /\ UNCHANGED <<swept, ws, heartbeat, reconnect, changes, rung, troubles>>

\* A new session: a sweep covers whatever happened before it.
\* One that no socket has is out of reach from now on.
ReadyReceived(s) ==
  LET i == CHOOSE j \in Session : Unused(j) IN
  /\ socket[s].stage = "identifying"
  /\ socket' = [socket EXCEPT ![s] = [stage |-> "ready", session |-> i, sent |-> 0]]
  /\ live' = [j \in Session |-> j = i \/ (live[j] /\ j \in Attached)]
  /\ start' = [j \in Session |-> IF j = i THEN changes ELSE IF j \in Attached THEN start[j] ELSE 0]
  /\ ctx' = [ctx EXCEPT !.state = "ready", !.sessionId = i]
  /\ swept' = changes
  /\ EmitHealth(TRUE)
  /\ Heard(s)
  /\ UNCHANGED <<ws, heartbeat, reconnect, changes, rung, troubles>>

\* A clean resume: the missed events have been sent again, no sweep.
ResumedReceived(s) ==
  /\ socket[s].stage = "replaying"
  /\ socket[s].sent + start[socket[s].session] = changes
  /\ socket' = [socket EXCEPT ![s].stage = "ready"]
  /\ ctx' = [ctx EXCEPT !.state = "ready"]
  /\ EmitHealth(TRUE)
  /\ Heard(s)
  /\ UNCHANGED <<ws, heartbeat, reconnect, discord, rung, swept, troubles>>

\* An event of the workspace: the doorbell rings for one member, or for the
\* whole connection when a role of the workspace changed.
DispatchReceived(s, oneMember) ==
  LET c == start[socket[s].session] + socket[s].sent + 1 IN
  /\ Serving(s) /\ c <= changes
  /\ socket' = [socket EXCEPT ![s].sent = @ + 1]
  /\ ctx' = [ctx EXCEPT !.sequenceNumber = socket[s].sent + 1]
  /\ rung' = IF oneMember THEN rung \cup {c} ELSE rung
  /\ swept' = IF oneMember THEN swept ELSE changes
  /\ persistGateway
  /\ Heard(s)
  /\ UNCHANGED <<ws, heartbeat, reconnect, healthy, discord, troubles>>

\* Health is left as it was, and the socket stays open.
InvalidSession(s, resumable) ==
  /\ ctx' = [Forget(ctx, resumable) EXCEPT !.state = "identifying"]
  /\ ScheduleReconnect /\ persistGateway
  /\ socket' = [socket EXCEPT ![s] = At("refused")]
  /\ live' = IF resumable \/ socket[s].session = Nobody THEN live
             ELSE [live EXCEPT ![socket[s].session] = FALSE]
  /\ UNCHANGED <<heartbeat, healthy, changes, start, rung, swept, crossed>>

\* Mutant: a socket that closes does not schedule another.
CloseWithoutReconnect(s, resumable) ==
  /\ socket' = [socket EXCEPT ![s] = Closed]
  /\ ctx' = [Forget(ctx, resumable) EXCEPT !.state = "disconnected", !.missed = 0]
  /\ ws' = Nobody /\ UNCHANGED reconnect
  /\ EmitHealth(FALSE)
  /\ UNCHANGED <<heartbeat, discord, rung, swept, crossed>>

\* Whichever socket closes, the session lets go of the one it has.
CloseReceived(s, resumable) ==
  /\ socket' = [socket EXCEPT ![s] = Closed]
  /\ ctx' = [Forget(ctx, resumable) EXCEPT !.state = "disconnected", !.missed = 0]
  /\ ScheduleReconnect
  /\ EmitHealth(FALSE)
  /\ UNCHANGED <<heartbeat, discord, rung, swept, crossed>>

\* Mutant: the zombie is noticed one heartbeat late.
MissesOneMore ==
  /\ heartbeat /\ ws \notin {s \in Socket : IsOpen(s)}
  /\ IF ctx.missed < 3
     THEN /\ ctx' = [ctx EXCEPT !.missed = @ + 1]
          /\ UNCHANGED <<ws, reconnect, healthy, age, troubles>>
     ELSE /\ Trouble /\ ctx' = [ctx EXCEPT !.missed = 0, !.state = "disconnected"]
          /\ ScheduleReconnect /\ EmitHealth(FALSE)
  /\ UNCHANGED <<socket, heartbeat, discord, rung, swept, crossed>>

\* The heartbeat timer never stops; it fires without an open socket.
HeartbeatMissed ==
  /\ heartbeat /\ ws \notin {s \in Socket : IsOpen(s)}
  /\ IF ctx.missed < 2
     THEN /\ ctx' = [ctx EXCEPT !.missed = @ + 1]
          /\ UNCHANGED <<ws, reconnect, healthy, age, troubles>>
     ELSE /\ Trouble /\ ctx' = [ctx EXCEPT !.missed = 0, !.state = "disconnected"]
          /\ ScheduleReconnect /\ EmitHealth(FALSE)
  /\ UNCHANGED <<socket, heartbeat, discord, rung, swept, crossed>>

HeartbeatAck(s) ==
  /\ s = ws /\ IsOpen(s) /\ heartbeat /\ ctx.missed > 0
  /\ ctx' = [ctx EXCEPT !.missed = 0]
  /\ UNCHANGED <<ws, socket, heartbeat, reconnect, healthy, floor, discord, rung, troubles, crossed>>

\* The worker stops and starts: sockets close, a new session object connects.
Restart ==
  LET s == CHOOSE t \in Socket : TRUE IN
  /\ Trouble
  /\ ctx' = initialContext /\ ws' = s
  /\ socket' = [t \in Socket |-> IF t = s THEN At("connecting") ELSE Closed]
  /\ heartbeat' = FALSE /\ reconnect' = FALSE /\ healthy' = FALSE
  /\ persistGateway
  /\ live' = [i \in Session |-> FALSE] /\ start' = [i \in Session |-> 0]
  /\ UNCHANGED <<changes, rung, swept, crossed>>

\* The tick of the reconcile floor: a sweep writes the row when it runs.
reconcileFloorTick ==
  /\ IF age >= (IF healthy THEN HealthyFloor ELSE 1)
     THEN age' = 0 /\ swept' = changes
     ELSE age' = age + 1 /\ UNCHANGED swept
  /\ UNCHANGED <<ctx, ws, socket, heartbeat, reconnect, healthy, discord, rung, troubles, crossed>>

-----------------------------------------------------------------------------
(* Discord and the network *)

WorkspaceChanges ==
  /\ changes < MaxChanges /\ changes' = changes + 1
  /\ UNCHANGED <<ctx, ws, socket, heartbeat, reconnect, healthy, age, live, start,
                 rung, swept, troubles, crossed>>

MayReplay(s) ==
  /\ live[socket[s].session]
  /\ start[socket[s].session] + socket[s].sent <= changes

\* The session moves to the socket that resumes it.
ResumeAccepted(s) ==
  LET i == socket[s].session IN
  /\ socket[s].stage = "resuming" /\ MayReplay(s)
  /\ socket' = [t \in Socket |->
                  IF t = s THEN [socket[s] EXCEPT !.stage = "replaying"]
                  ELSE IF Serving(t) /\ socket[t].session = i THEN At("refused")
                  ELSE socket[t]]
  /\ UNCHANGED <<ctx, ws, heartbeat, reconnect, healthy, floor, discord, rung, troubles, crossed>>

ResumeRefused(s) ==
  /\ socket[s].stage = "resuming" /\ ~MayReplay(s)
  /\ InvalidSession(s, FALSE)
  /\ UNCHANGED troubles

Invalidated(s, resumable) ==
  /\ Serving(s) /\ Trouble
  /\ InvalidSession(s, resumable)

SessionExpires ==
  /\ ctx.sessionId # Nobody /\ live[ctx.sessionId]
  /\ \A s \in Socket : Serving(s) => socket[s].session # ctx.sessionId
  /\ Trouble
  /\ live' = [live EXCEPT ![ctx.sessionId] = FALSE]
  /\ UNCHANGED <<ctx, ws, socket, heartbeat, reconnect, healthy, floor, changes, start, rung, crossed>>

\* A socket without heartbeats, or refused, is closed by Discord.
Neglected(s) == IsOpen(s) /\ (s # ws \/ socket[s].stage \in {"greeted", "refused"})

NeglectedCloses(s, resumable) ==
  /\ Neglected(s)
  /\ CloseReceived(s, resumable)
  /\ UNCHANGED troubles

ConnectionRefused(s) ==
  /\ socket[s].stage = "connecting"
  /\ CloseReceived(s, TRUE)
  /\ UNCHANGED troubles

ConnectionLost(s, resumable) ==
  /\ IsOpen(s) /\ Trouble
  /\ CloseReceived(s, resumable)

-----------------------------------------------------------------------------

\* The worker has just started.
Init ==
  /\ ctx = initialContext /\ ws = (CHOOSE s \in Socket : TRUE)
  /\ socket = [s \in Socket |-> IF s = ws THEN At("connecting") ELSE Closed]
  /\ heartbeat = FALSE /\ reconnect = FALSE /\ healthy = FALSE
  /\ age = 0
  /\ changes = 0 /\ live = [i \in Session |-> FALSE] /\ start = [i \in Session |-> 0]
  /\ rung = {} /\ swept = 0 /\ crossed = FALSE /\ troubles = 0

\* One message, or one answer of Discord.
Protocol(s) ==
  \/ OpenReceived(s) \/ HelloReceived(s) \/ ReadyReceived(s) \/ ResumedReceived(s)
  \/ ResumeAccepted(s) \/ ResumeRefused(s)
  \/ \E oneMember \in BOOLEAN : DispatchReceived(s, oneMember)

Next ==
  \/ \E s \in Socket :
       \/ Protocol(s) \/ HeartbeatAck(s) \/ ConnectionRefused(s)
       \/ \E resumable \in BOOLEAN :
            \/ Invalidated(s, resumable)
            \/ NeglectedCloses(s, resumable)
            \/ ConnectionLost(s, resumable)
  \/ ReconnectFires \/ HeartbeatMissed \/ Restart \/ SessionExpires
  \/ WorkspaceChanges \/ reconcileFloorTick

\* Timers fire, Discord answers and closes what it hears nothing from.
Fairness ==
  /\ WF_vars(ReconnectFires)
  /\ \A s \in Socket :
       /\ WF_vars(Protocol(s))
       /\ WF_vars(\E resumable \in BOOLEAN : NeglectedCloses(s, resumable))
  /\ WF_vars(reconcileFloorTick)

\* Discord does not refuse connections for ever.
Spec == Init /\ [][Next]_vars /\ Fairness /\ SF_vars(\E s \in Socket : OpenReceived(s))

-----------------------------------------------------------------------------
(* Properties *)

GatewayContext ==
  [state : {"disconnected", "connecting", "identifying", "ready", "resuming"},
   sessionId : Session \cup {Nobody}, sequenceNumber : 0..MaxChanges, missed : 0..2]

Stage == {"closed", "connecting", "open", "greeted", "identifying", "resuming", "replaying",
          "ready", "refused"}

SocketState == [stage : Stage, session : Session \cup {Nobody}, sent : 0..MaxChanges]

TypeOK ==
  /\ ctx \in GatewayContext /\ ws \in Socket \cup {Nobody}
  /\ socket \in [Socket -> SocketState]
  /\ {heartbeat, reconnect, healthy} \subseteq BOOLEAN
  /\ age \in 0..HealthyFloor
  /\ changes \in 0..MaxChanges /\ swept \in 0..MaxChanges /\ troubles \in 0..MaxTroubles
  /\ live \in [Session -> BOOLEAN] /\ start \in [Session -> 0..MaxChanges]
  /\ rung \subseteq 1..MaxChanges

Covered(c) == c <= swept \/ c \in rung

CaughtUp ==
  /\ ws # Nobody /\ socket[ws].stage = "ready"
  /\ start[socket[ws].session] + socket[ws].sent = changes

\* Once the session is ready and has received all its events, every change in
\* the workspace has rung the doorbell or is covered by a sweep, whatever was
\* lost, resumed or begun anew before: a clean resume may go without a sweep
\* (state machine 127-133), a new session may not (116-125).  As long as no
\* orphan spoke to the session.
NothingMissed == CaughtUp /\ ~crossed => \A c \in 1..changes : Covered(c)

\* If no socket is left open behind the session's back for ever, the gateway
\* ends up healthy for good once the troubles have stopped.
Recovers == <>[](Orphans = {}) => <>[]healthy
=============================================================================
