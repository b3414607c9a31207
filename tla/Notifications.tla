--------------------------- MODULE Notifications ---------------------------
(***************************************************************************)
(* Messages of a task and the notifications of its events:                 *)
(* messages.service.ts, notifications.service.ts and its controller, the   *)
(* in-process pub/sub, and the store of a browser (notification.store.ts). *)
(*                                                                         *)
(* An event writes one row per recipient in the transaction of its cause,  *)
(* numbered by the highest number of its type and subject; a row that is   *)
(* there already is skipped.  After the commit the recipients' streams get *)
(* a ping without content, and a browser pulls its rows.  Claims and a     *)
(* change of the requester hold the task's row while they count; alerts of *)
(* a sync job count and write without a transaction, in a process without  *)
(* streams.  TaskBoard has the other handlers of a task, which notify as a *)
(* claim does.  The feed's limit of 50 and its order are left out.         *)
(***************************************************************************)
EXTENDS Naturals, FiniteSets

CONSTANTS
  User, Admin,      \* users, effective administrators
  Request,          \* requests and jobs at once, numbered
  Message, Pull,    \* messages, pulls of a browser at once, numbered
  Task,             \* the task, as the subject of its events
  None,
  MaxEvents,        \* bound on requests
  MaxMishaps        \* bound on crashes, lost pulls and sign-outs

ASSUME AdminAssumption == Admin \subseteq User
ASSUME NoneAssumption  == None \notin User \cup Request \cup Message \cup {Task}
ASSUME NumbersAssumption == Request \cup Message \cup Pull \subseteq Nat
ASSUME LimitAssumption == MaxEvents \in Nat /\ MaxMishaps \in Nat

VARIABLES
  requester, slots, \* of the task
  message,          \* message[m]: None or [sender, parent, retired]
  lock,             \* None or the request that holds the task's row
  tx,               \* tx[r]: None or the progress of a request
  rows,             \* the notification table
  overlapped,       \* history: changes of requester, and alerts, that ran at once
  online,           \* None or who is signed in to the browser
  pings,            \* pings on the way to the browser
  pull,             \* pull[q]: None or a pull of rows, or the answer to a mark
  feed, unread,     \* what the browser shows
  newest, stale,    \* history: the newest answer to a pull, whether it is not what is shown
  late,             \* history: a pull of somebody who signed out may be shown
  clock,            \* changes of the table so far
  events, mishaps

task    == <<requester, slots, message>>
server  == <<lock, tx, rows, overlapped, clock>>
browser == <<online, pings, pull, feed, unread, newest, stale, late>>
feedVars == <<task, server, browser, events, mishaps>>

Happens == events < MaxEvents /\ events' = events + 1

Mishap == mishaps < MaxMishaps /\ mishaps' = mishaps + 1

\* Numbers are names: the least free one is taken.
Free(f, x) == f[x] = None /\ \A y \in DOMAIN f : y < x => f[y] # None

\* The sender hears nothing of the own event.
computeRecipients(ids, sender) == ids \ {sender, None}

nextEventSeq(type, subject) ==
  Cardinality({n.seq : n \in {k \in rows : k.type = type /\ k.subject = subject}}) + 1

-----------------------------------------------------------------------------
(* Events *)

Runs(kind) == {r \in Request : tx[r] # None /\ tx[r].kind = kind}

\* The outgoing requester is read before the row is locked.
BeginChange(r, actor, new) ==
  /\ Free(tx, r) /\ Happens /\ new # requester
  /\ tx' = [tx EXCEPT ![r] = [kind |-> "requester", at |-> "waits", subject |-> Task, actor |-> actor,
                              new |-> new, ids |-> {requester, new}]]
  /\ overlapped' = IF Runs("requester") = {} THEN overlapped \ {r}
                   ELSE overlapped \cup Runs("requester") \cup {r}
  /\ UNCHANGED <<task, lock, rows, clock, browser, mishaps>>

BeginClaim(r, u) ==
  /\ Free(tx, r) /\ Happens /\ u \notin slots
  /\ tx' = [tx EXCEPT ![r] = [kind |-> "claim", at |-> "waits", subject |-> Task, actor |-> u]]
  /\ UNCHANGED <<task, lock, rows, overlapped, clock, browser, mishaps>>

\* Mutant: the task's row is not locked.
NoLock(r) ==
  /\ tx[r] # None /\ tx[r].at = "waits"
  /\ ~(tx[r].kind = "claim" /\ tx[r].actor \in slots)
  /\ tx' = [tx EXCEPT ![r].at = "counts"]
  /\ UNCHANGED <<task, lock, rows, overlapped, clock, browser, events, mishaps>>

LockTask(r) ==
  /\ tx[r] # None /\ tx[r].at = "waits" /\ lock = None
  /\ ~(tx[r].kind = "claim" /\ tx[r].actor \in slots)
  /\ lock' = r
  /\ tx' = [tx EXCEPT ![r].at = "counts"]
  /\ UNCHANGED <<task, rows, overlapped, clock, browser, events, mishaps>>

\* A slot is held once.
Refuse(r) ==
  /\ tx[r] # None /\ tx[r].at = "waits" /\ lock = None
  /\ tx[r].kind = "claim" /\ tx[r].actor \in slots
  /\ tx' = [tx EXCEPT ![r] = None]
  /\ UNCHANGED <<task, lock, rows, overlapped, clock, browser, events, mishaps>>

\* Messages, those being written included.
Claimed == [m \in Message |-> IF \E q \in Runs("message") : tx[q].subject = m THEN Task ELSE message[m]]

\* A message needs no lock: it is its own subject.  Parents are top-level; that
\* they may be retired is not looked at.
BeginCreate(r, actor, m, parent) ==
  /\ Free(tx, r) /\ Happens /\ Free(Claimed, m)
  /\ parent # None => message[parent] # None /\ message[parent].parent = None
  /\ tx' = [tx EXCEPT ![r] = [kind |-> "message", at |-> "counts", actor |-> actor,
                              subject |-> m, parent |-> parent]]
  /\ UNCHANGED <<task, lock, rows, overlapped, clock, browser, mishaps>>

\* Of a job whose push was refused.
BeginAlert(r) ==
  /\ Free(tx, r) /\ Happens /\ Admin # {}
  /\ tx' = [tx EXCEPT ![r] = [kind |-> "alert", at |-> "counts", subject |-> Task, actor |-> None]]
  /\ overlapped' = IF Runs("alert") = {} THEN overlapped \ {r}
                   ELSE overlapped \cup Runs("alert") \cup {r}
  /\ UNCHANGED <<task, lock, rows, clock, browser, mishaps>>

threadParticipantIds(m) ==
  {message[k].sender : k \in {k \in Message : message[k] # None /\ (k = m \/ message[k].parent = m)}}

\* The recipient matrix, on what is committed when it is asked for.
Recipients(t) ==
  CASE t.kind = "claim"     -> {requester}
    [] t.kind = "requester" -> t.ids
    [] t.kind = "alert"     -> Admin
    [] t.kind = "message"   -> IF t.parent = None THEN {requester} \cup slots
                               ELSE threadParticipantIds(t.parent)

\* emit: who is told, and the number of the event.
Count(r) ==
  /\ tx[r] # None /\ tx[r].at = "counts"
  /\ tx' = [tx EXCEPT ![r] = [at |-> "writes", to |-> computeRecipients(Recipients(tx[r]), tx[r].actor),
                              seq |-> nextEventSeq(tx[r].kind, tx[r].subject), of |-> tx[r],
                              kind |-> tx[r].kind, subject |-> tx[r].subject]]
  /\ UNCHANGED <<task, lock, rows, overlapped, clock, browser, events, mishaps>>

\* skipDuplicates: a row of the same recipient, type, subject and number stays.
Inserted(t) ==
  {[to |-> u, type |-> t.kind, subject |-> t.subject, seq |-> t.seq, read |-> FALSE] :
     u \in {v \in t.to : ~\E n \in rows : n.to = v /\ n.type = t.kind /\ n.seq = t.seq
                                          /\ n.subject = t.subject}}

Commit(r) ==
  LET t == tx[r] IN
  /\ tx[r] # None /\ tx[r].at = "writes"
  /\ rows' = rows \cup Inserted(t)
  /\ clock' = clock + 1
  /\ requester' = IF t.kind = "requester" THEN t.of.new ELSE requester
  /\ slots' = IF t.kind = "claim" THEN slots \cup {t.of.actor} ELSE slots
  /\ message' = IF t.kind # "message" THEN message
                ELSE [message EXCEPT ![t.subject] = [sender |-> t.of.actor, parent |-> t.of.parent,
                                                        retired |-> FALSE]]
  /\ lock' = IF lock = r THEN None ELSE lock
  /\ tx' = [tx EXCEPT ![r] = IF t.kind = "alert" THEN None ELSE [kind |-> "sent", at |-> "pings", to |-> t.to]]
  /\ UNCHANGED <<overlapped, browser, events, mishaps>>

\* The stream of the browser is a subscriber if one of the recipients is there.
publish(r) ==
  /\ tx[r] # None /\ tx[r].at = "pings"
  /\ pings' = IF online \in tx[r].to THEN pings + 1 ELSE pings
  /\ tx' = [tx EXCEPT ![r] = None]
  /\ UNCHANGED <<task, lock, rows, overlapped, clock, online, pull, feed, unread, newest, stale, late,
                 events, mishaps>>

\* The api process stops: its transactions roll back, pings and requests are
\* lost, streams break and open again.  Jobs are in a process of their own.
Crash ==
  /\ Mishap
  /\ tx' = [r \in Request |-> IF r \in Runs("alert") THEN tx[r] ELSE None] /\ lock' = None
  /\ pings' = IF online = None THEN 0 ELSE 1
  /\ pull' = [q \in Pull |-> IF pull[q] # None /\ pull[q].at \in {"answers", "marked"} THEN pull[q] ELSE None]
  /\ UNCHANGED <<task, rows, overlapped, clock, online, feed, unread, newest, stale, late, events>>

\* update changes the text alone.
RetireMessage(m) ==
  /\ message[m] # None /\ ~message[m].retired /\ Happens
  /\ message' = [message EXCEPT ![m].retired = TRUE]
  /\ UNCHANGED <<requester, slots, server, browser, mishaps>>

ReviveMessage(m) ==
  /\ message[m] # None /\ message[m].retired
  /\ message' = [message EXCEPT ![m].retired = FALSE]
  /\ UNCHANGED <<requester, slots, server, browser, events, mishaps>>

-----------------------------------------------------------------------------
(* The browser *)

Own(u) == {n \in rows : n.to = u}

Unread(u) == Cardinality({n \in Own(u) : ~n.read})

\* Mutant: a stream that opens does not ping.
ConnectQuietly(u) ==
  /\ online = None
  /\ online' = u /\ pings' = 0
  /\ UNCHANGED <<task, server, pull, feed, unread, newest, stale, late, events, mishaps>>

\* The stream pings as it opens.
connectStream(u) ==
  /\ online = None
  /\ online' = u /\ pings' = 1
  /\ UNCHANGED <<task, server, pull, feed, unread, newest, stale, late, events, mishaps>>

\* Mutant: the shown rows stay for the next one to sign in.
DisconnectKeeping ==
  /\ online # None /\ Mishap
  /\ online' = None /\ pings' = 0
  /\ late' = (late \/ \E q \in Pull : pull[q] # None)
  /\ UNCHANGED <<task, server, pull, feed, unread, newest, stale, events>>

\* Pulls under way are not called off.
disconnect ==
  /\ online # None /\ Mishap
  /\ online' = None /\ pings' = 0 /\ feed' = {} /\ unread' = 0
  /\ late' = (late \/ \E q \in Pull : pull[q] # None)
  /\ UNCHANGED <<task, server, pull, newest, stale, events>>

\* A ping starts a pull, whether or not another is under way.
reconcile(q) ==
  /\ pings > 0 /\ Free(pull, q)
  /\ pings' = pings - 1
  /\ pull' = [pull EXCEPT ![q] = [at |-> "lists", who |-> online, some |-> {}, clock |-> clock, unread |-> 0]]
  /\ UNCHANGED <<task, server, online, feed, unread, newest, stale, late, events, mishaps>>

\* The rows first, then their number, in two statements.
listForUser(q) ==
  /\ pull[q] # None /\ pull[q].at = "lists"
  /\ pull' = [pull EXCEPT ![q].at = "numbers", ![q].some = Own(pull[q].who), ![q].clock = clock]
  /\ UNCHANGED <<task, server, online, pings, feed, unread, newest, stale, late, events, mishaps>>

unreadCount(q) ==
  /\ pull[q] # None /\ pull[q].at \in {"numbers", "marks"}
  /\ pull' = [pull EXCEPT ![q].at = IF pull[q].at = "marks" THEN "marked" ELSE "answers",
                          ![q].unread = Unread(pull[q].who)]
  /\ UNCHANGED <<task, server, online, pings, feed, unread, newest, stale, late, events, mishaps>>

\* Answers come in any order and are shown as they come.
Show(q) ==
  /\ pull[q] # None /\ pull[q].at = "answers"
  /\ feed' = pull[q].some /\ unread' = pull[q].unread
  /\ stale' = (pull[q].clock < newest)
  /\ newest' = IF pull[q].clock < newest THEN newest ELSE pull[q].clock
  /\ pull' = [pull EXCEPT ![q] = None]
  /\ UNCHANGED <<task, server, online, pings, late, events, mishaps>>

\* What was shown before is kept.
PullFails(q) ==
  /\ pull[q] # None /\ Mishap
  /\ stale' = TRUE
  /\ newest' = IF pull[q].clock < newest THEN newest ELSE pull[q].clock
  /\ pull' = [pull EXCEPT ![q] = None]
  /\ UNCHANGED <<task, server, online, pings, feed, unread, late, events>>

\* markRead and markAllRead; the browser marks the same rows when the answer comes.
Mark(q, some) ==
  /\ online # None /\ Free(pull, q) /\ Happens
  /\ some # {} /\ some \subseteq {n \in feed : ~n.read}
  /\ Cardinality(some) = 1 \/ some = {n \in feed : ~n.read}
  /\ LET hit == {n \in rows : n \in some /\ n.to = online} IN
       rows' = (rows \ hit) \cup {[n EXCEPT !.read = TRUE] : n \in hit}
  /\ clock' = clock + 1
  /\ pull' = [pull EXCEPT ![q] = [at |-> "marks", who |-> online, some |-> some, clock |-> clock', unread |-> 0]]
  /\ UNCHANGED <<task, lock, tx, overlapped, online, pings, feed, unread, newest, stale, late, mishaps>>

ShowMark(q) ==
  /\ pull[q] # None /\ pull[q].at = "marked"
  /\ unread' = pull[q].unread
  /\ feed' = {IF n \in pull[q].some THEN [n EXCEPT !.read = TRUE] ELSE n : n \in feed}
  /\ stale' = (pull[q].clock < newest)
  /\ newest' = IF pull[q].clock < newest THEN newest ELSE pull[q].clock
  /\ pull' = [pull EXCEPT ![q] = None]
  /\ UNCHANGED <<task, server, online, pings, late, events, mishaps>>

-----------------------------------------------------------------------------

FeedInit ==
  /\ requester \in User /\ slots = {} /\ message = [m \in Message |-> None]
  /\ lock = None /\ tx = [r \in Request |-> None] /\ rows = {} /\ overlapped = {} /\ clock = 0
  /\ online = None /\ pings = 0 /\ pull = [q \in Pull |-> None]
  /\ feed = {} /\ unread = 0 /\ newest = 0 /\ stale = FALSE /\ late = FALSE
  /\ events = 0 /\ mishaps = 0

Work(r) == LockTask(r) \/ Refuse(r) \/ Count(r) \/ Commit(r) \/ publish(r)

Answer(q) == listForUser(q) \/ unreadCount(q) \/ Show(q) \/ ShowMark(q)

FeedNext ==
  \/ \E r \in Request :
       \/ \E u, v \in User : BeginChange(r, u, v)
       \/ \E u \in User : BeginClaim(r, u)
       \/ \E u \in User, m \in Message, p \in Message \cup {None} : BeginCreate(r, u, m, p)
       \/ BeginAlert(r) \/ Work(r)
  \/ \E m \in Message : RetireMessage(m) \/ ReviveMessage(m)
  \/ Crash \/ disconnect
  \/ \E u \in User : connectStream(u)
  \/ \E q \in Pull : reconcile(q) \/ Answer(q) \/ PullFails(q) \/ \E some \in SUBSET feed : Mark(q, some)

FeedSpec ==
  /\ FeedInit /\ [][FeedNext]_feedVars
  /\ \A r \in Request : WF_feedVars(Work(r))
  /\ \A q \in Pull : WF_feedVars(Answer(q))
  /\ WF_feedVars(\E q \in Pull : reconcile(q))

-----------------------------------------------------------------------------
(* Properties *)

\* Who has to be told as the event is committed.
Due(t) ==
  CASE t.kind = "requester" -> {requester, t.of.new} \ {t.of.actor}
    [] t.kind = "claim"     -> {requester} \ {t.of.actor}
    [] OTHER                -> t.to

\* Each event leaves a row of its own for everybody it concerns, and none for
\* its actor, however many run at once; the exceptions are changes of the
\* requester, and alerts, that overlap (tasks.service.ts 732-765,
\* notifications.service.ts 52-78, discord.adapter.ts 574-588).
EveryoneTold ==
  [][\A r \in Request \ overlapped :
       tx[r] # None /\ tx[r].at = "writes" /\ clock' # clock /\ tx'[r] # tx[r]
         => {n.to : n \in rows' \ rows} = Due(tx[r])]_feedVars

\* The browser shows the rows of who is signed in there and nobody else's, as
\* long as no pull was under way at a sign-out (notification.store.ts 59-75).
OwnFeed == ~late => \A n \in feed : n.to = online

\* A badge settles on the number of unread rows, unless the newest answer failed
\* or an older one was shown after it; alerts wait for the next ping
\* (notifications.controller.ts 48-66, notification.store.ts 46-75).
BadgeSettles ==
  []<>(online # None => stale \/ late \/ unread = Unread(online)
                          \/ \E n \in Own(online) \ feed : n.type = "alert")
=============================================================================
