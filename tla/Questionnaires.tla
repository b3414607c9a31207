--------------------------- MODULE Questionnaires ---------------------------
(***************************************************************************)
(* Request templates and the submissions that answer them                  *)
(* (request-templates.service.ts, validate-submission.ts, and the part of  *)
(* submissions.service.ts and tasks.service.ts that reads templates).      *)
(*                                                                         *)
(* A put deletes the questions of a template and writes new ones; two puts *)
(* may overlap, and a claimant may be validated against questions that a   *)
(* put is about to delete.  The database is what stands between them: a    *)
(* DELETE takes the rows its snapshot saw and are still there, (template,  *)
(* ordinal) is unique, and a question with answers cannot be deleted.      *)
(*                                                                         *)
(* One division with one task, whose claimants all hold a slot (TaskBoard  *)
(* is about the slots).  A JavaScript value is a record of what String(),  *)
(* Number() and Array.isArray make of it.                                  *)
(***************************************************************************)
EXTENDS SequencesExt

CONSTANTS
  User,
  Put,               \* requests that may write a template at the same time
  Bodies,            \* lists of questions that may be sent
  Value,             \* values an answer may carry
  File,              \* attachments
  FileTypes,         \* content type and kind of each file
  None,
  MaxPuts, MaxSubmissions, MaxAnswers    \* bounds

Type == {"text", "numeric", "choice", "attachment"}

ASSUME BodiesAssumption ==
  \A body \in Bodies : body \in Seq(ToSet(body)) /\ \A q \in ToSet(body) : q.type \in Type

\* String and Number answer something for every value, and an option is one to choose.
ASSUME ValueAssumption ==
  \A v \in Value : v.text # None /\ v.number # None /\ <<v.option>> # None

ASSUME BoundAssumption == MaxPuts \in Nat /\ MaxSubmissions \in Nat /\ MaxAnswers \in Nat

Owner == {"division", "task"}

VARIABLES
  rows,              \* rows of the table of questions
  nextId,
  has,               \* the owners that have a template
  puts,              \* writes of templates in flight
  begun,             \* how many were begun
  submissions,       \* versions of each claimant
  submitting,        \* submissions validated and not yet written
  files              \* active or retired, and the version and answer that owns it

vars == <<rows, nextId, has, puts, begun, submissions, submitting, files>>

QuestionsOf(owner) == {r \in rows : r.owner = owner}

-----------------------------------------------------------------------------
(* What may be asked: the schema of a put *)

Ordered(low, high) == low # None /\ high # None => low <= high

Accepts(q) ==
  LET c == q.constraints IN
  CASE q.type = "text"       -> Ordered(c.minChars, c.maxChars)
    [] q.type = "numeric"    -> Ordered(c.min, c.max)
    [] q.type = "choice"     -> c.options # {} /\ Ordered(c.minSelect, c.maxSelect)
    [] q.type = "attachment" -> TRUE

putRequestTemplateSchema(body) == \A i \in DOMAIN body : Accepts(body[i])

-----------------------------------------------------------------------------
(* What may be answered: validateSubmission, as the set of its errors *)

\* A value as the type of the question takes it.
toValidatorAnswer(type, a) ==
  CASE type = "text"       -> IF a.value = None THEN None ELSE a.value.text
    [] type = "numeric"    -> IF a.value = None THEN None ELSE a.value.number
    [] type = "choice"     -> IF a.value = None THEN None
                              ELSE IF a.value.list # None THEN a.value.list
                              ELSE <<a.value.option>>
    [] type = "attachment" -> a.files

isEmpty(type, said) ==
  CASE type = "text"    -> said = None \/ (said # None /\ said.blank)
    [] type = "numeric" -> said = None
    [] type = "choice"  -> said = None \/ said = <<>>
    [] type = "attachment" -> said = <<>>

Below(n, low)  == low # None /\ n < low
Above(n, high) == high # None /\ n > high

validateText(c, said) ==
  {e \in {"too_short", "too_long"} :
     IF e = "too_short" THEN Below(said.length, c.minChars) ELSE Above(said.length, c.maxChars)}

validateNumber(c, said) ==
  IF ~said.finite THEN {"wrong_type"}
  ELSE (IF c.kind = "integer" /\ ~said.whole THEN {"not_integer"} ELSE {})
       \cup (IF Below(said.n, c.min) \/ Above(said.n, c.max) THEN {"out_of_range"} ELSE {})

validateChoice(c, said) ==
  {e \in {"invalid_option", "multi_not_allowed", "too_few_selected", "too_many_selected"} :
     CASE e = "invalid_option"    -> ~ToSet(said) \subseteq c.options
       [] e = "multi_not_allowed" -> ~c.multi /\ Len(said) > 1
       [] e = "too_few_selected"  -> Below(Len(said), c.minSelect)
       [] e = "too_many_selected" -> Above(Len(said), c.maxSelect)}

validateAnswer(q, said) ==
  CASE q.type = "text"       -> validateText(q.constraints, said)
    [] q.type = "numeric"    -> validateNumber(q.constraints, said)
    [] q.type = "choice"     -> validateChoice(q.constraints, said)
    [] q.type = "attachment" -> {}

\* Only an active file is found; no allowed type means any.
validateAttachment(q, said) ==
  LET c == q.constraints IN
  (IF Above(Len(said), c.maxFiles) THEN {"too_many_files"} ELSE {})
  \cup {IF files[f].life = "retired" THEN "attachment_not_found" ELSE "wrong_attachment_type" :
          f \in {g \in ToSet(said) : \/ files[g].life = "retired"
                                     \/ c.allowedTypes # {} /\ c.allowedTypes \cap FileTypes[g] = {}}}

\* Of two answers to a question the later one counts.
byQuestion(answers, id) ==
  LET of == {i \in DOMAIN answers : answers[i].question = id}
  IN  IF of = {} THEN None ELSE answers[CHOOSE i \in of : \A j \in of : j <= i]

errorsOf(row, answers) ==
  LET q == row.q
      a == byQuestion(answers, row.id)
  IN  IF IF a = None THEN TRUE ELSE isEmpty(q.type, toValidatorAnswer(q.type, a))
      THEN IF q.required THEN {"required_missing"} ELSE {}
      ELSE LET said == toValidatorAnswer(q.type, a)
           IN  validateAnswer(q, said) \cup (IF q.type = "attachment" THEN validateAttachment(q, said) ELSE {})

validateSubmission(template, answers) ==
  {<<answers[i].question, "unknown_question">> :
     i \in {j \in DOMAIN answers : \A row \in template : row.id # answers[j].question}}
  \cup UNION {{row.id} \X errorsOf(row, answers) : row \in template}

-----------------------------------------------------------------------------
(* Templates *)

NoPut == [at |-> "idle"]

\* The rows of a list of questions; `of` remembers the list they came from.
Fresh(owner, body) ==
  {[id |-> nextId + i, owner |-> owner, ordinal |-> i - 1, q |-> body[i], of |-> body] : i \in DOMAIN body}

\* The lock at the first submission is read before the transaction.
putForTask(p) ==
  /\ "task" \in has
  /\ \A u \in User : \A i \in DOMAIN submissions[u] : submissions[u][i].life = "retired"
  /\ \E body \in Bodies : putRequestTemplateSchema(body) /\
       puts' = [puts EXCEPT ![p] = [at |-> "read", owner |-> "task", body |-> body, existing |-> TRUE]]

putForDivision(p) ==
  \E body \in Bodies : putRequestTemplateSchema(body) /\
    puts' = [puts EXCEPT ![p] = [at |-> "read", owner |-> "division", body |-> body,
                                 existing |-> "division" \in has]]

BeginPut(p) ==
  /\ puts[p] = NoPut /\ begun < MaxPuts /\ begun' = begun + 1
  /\ putForTask(p) \/ putForDivision(p)
  /\ UNCHANGED <<rows, nextId, has, submissions, submitting, files>>

\* The DELETE starts, and sees what is committed; then it may have to wait.
DeleteStarts(p) ==
  /\ puts[p].at = "read" /\ puts[p].existing
  /\ puts' = [puts EXCEPT ![p] = [at |-> "deleting", owner |-> puts[p].owner, body |-> puts[p].body,
                                  doomed |-> QuestionsOf(puts[p].owner)]]
  /\ UNCHANGED <<rows, nextId, has, begun, submissions, submitting, files>>

\* Mutant: the key of answers lets a question go.
LetsGo(ids) == FALSE

\* A question that an answer names, of whatever submission, is not deleted.
RestrictsDelete(ids) ==
  \E u \in User : \E i \in DOMAIN submissions[u] :
    \E a \in ToSet(submissions[u][i].answers) : a.question \in ids

\* Mutant: no unique index.
NeverCollide(kept, new) == FALSE

\* UNIQUE (template, ordinal).
Collide(kept, new) == \E r \in kept : \E s \in new : r.ordinal = s.ordinal

\* The rows still there are deleted, the new ones written, and all is committed;
\* or a constraint aborts it all.
Replace(p) ==
  /\ puts[p].at = "deleting"
  /\ LET put  == puts[p]
         gone == put.doomed \cap rows
         kept == QuestionsOf(put.owner) \ gone
         new  == Fresh(put.owner, put.body)
     IN  IF RestrictsDelete({r.id : r \in gone}) \/ Collide(kept, new)
         THEN UNCHANGED <<rows, nextId>>
         ELSE /\ rows' = (rows \ gone) \cup new
              /\ nextId' = nextId + Len(put.body)
  /\ puts' = [puts EXCEPT ![p] = NoPut]
  /\ UNCHANGED <<has, begun, submissions, submitting, files>>

\* The first template of the division; UNIQUE (owner_division_id) aborts a second one.
CreateDefault(p) ==
  /\ puts[p].at = "read" /\ ~puts[p].existing
  /\ IF "division" \in has THEN UNCHANGED <<rows, nextId, has>>
     ELSE /\ has' = has \cup {"division"}
          /\ rows' = rows \cup Fresh("division", puts[p].body)
          /\ nextId' = nextId + Len(puts[p].body)
  /\ puts' = [puts EXCEPT ![p] = NoPut]
  /\ UNCHANGED <<begun, submissions, submitting, files>>

\* A new task takes a copy of the default it reads.
CreateTask ==
  /\ "division" \in has /\ "task" \notin has
  /\ has' = has \cup {"task"}
  /\ rows' = rows \cup {[r EXCEPT !.owner = "task", !.id = nextId + r.ordinal + 1] : r \in QuestionsOf("division")}
  /\ nextId' = nextId + Cardinality(QuestionsOf("division"))
  /\ UNCHANGED <<puts, begun, submissions, submitting, files>>

-----------------------------------------------------------------------------
(* Submissions *)

Answers ==
  BoundedSeq([question : 1..nextId, value : Value \cup {None}, files : BoundedSeq(File, 1)], MaxAnswers)

Latest(u) == Last(submissions[u])

\* Versions written and on their way, of everybody.
Submitted ==
  Cardinality({v \in User \X (1..MaxSubmissions) : v[2] \in DOMAIN submissions[v[1]]})
  + Cardinality({u \in User : submitting[u] # None})

\* The template is read and the answers are validated before the transaction.
BeginSubmit(u) ==
  /\ "task" \in has /\ submitting[u] = None /\ Submitted < MaxSubmissions
  /\ \E answers \in Answers :
       /\ validateSubmission(QuestionsOf("task"), answers) = {}
       /\ submitting' = [submitting EXCEPT ![u] = answers]
  /\ UNCHANGED <<rows, nextId, has, puts, begun, submissions, files>>

\* Only a returned version is followed by another; every answer names a question.
MaySubmit(u, answers) ==
  /\ submissions[u] # <<>> /\ Latest(u).life = "active" => Latest(u).state = "revising"
  /\ \A a \in ToSet(answers) : \E r \in rows : r.id = a.question

\* Every file an answer names is its own from now on, the last answer's if two name it.
Reown(u, answers) ==
  [f \in File |->
     LET naming == {i \in DOMAIN answers : f \in ToSet(answers[i].files)}
     IN  IF naming = {} THEN files[f]
         ELSE [files[f] EXCEPT !.by = <<u, Len(submissions[u]) + 1, CHOOSE i \in naming : \A j \in naming : j <= i>>]]

submit(u) ==
  /\ submitting[u] # None
  /\ submitting' = [submitting EXCEPT ![u] = None]
  /\ LET answers == submitting[u] IN
       IF MaySubmit(u, answers)
       THEN /\ submissions' = [submissions EXCEPT ![u] =
                 Append(@, [state |-> "review", life |-> "active", answers |-> answers])]
            /\ files' = Reown(u, answers)
       ELSE UNCHANGED <<submissions, files>>
  /\ UNCHANGED <<rows, nextId, has, puts, begun>>

\* Returned, or approved or rejected.
Review(u) ==
  \E i \in DOMAIN submissions[u] : \E state \in {"revising", "decided"} :
    /\ submissions[u][i].state = "review" /\ submissions[u][i].life = "active"
    /\ submissions' = [submissions EXCEPT ![u][i].state = state]
    /\ UNCHANGED <<rows, nextId, has, puts, begun, submitting, files>>

retireSubmission(u) ==
  \E i \in DOMAIN submissions[u] :
    /\ submissions[u][i].life = "active"
    /\ submissions' = [submissions EXCEPT ![u][i].life = "retired"]
    /\ UNCHANGED <<rows, nextId, has, puts, begun, submitting, files>>

RetireFile(f) ==
  /\ files[f].life = "active" /\ files' = [files EXCEPT ![f].life = "retired"]
  /\ UNCHANGED <<rows, nextId, has, puts, begun, submissions, submitting>>

ReviveFile(f) ==
  /\ files[f].life = "retired" /\ files' = [files EXCEPT ![f].life = "active"]
  /\ UNCHANGED <<rows, nextId, has, puts, begun, submissions, submitting>>

-----------------------------------------------------------------------------
Init ==
  /\ rows = {} /\ nextId = 0 /\ has = {}
  /\ puts = [p \in Put |-> NoPut] /\ begun = 0
  /\ submissions = [u \in User |-> <<>>] /\ submitting = [u \in User |-> None]
  /\ files = [f \in File |-> [life |-> "active", by |-> None]]

Next ==
  \/ \E p \in Put : BeginPut(p) \/ DeleteStarts(p) \/ Replace(p) \/ CreateDefault(p)
  \/ CreateTask
  \/ \E u \in User : BeginSubmit(u) \/ submit(u) \/ Review(u) \/ retireSubmission(u)
  \/ \E f \in File : RetireFile(f) \/ ReviveFile(f)

Spec == Init /\ [][Next]_vars

-----------------------------------------------------------------------------
(* Properties *)

\* A template is always one list that somebody sent, whole and in order, however the
\* writes of two administrators overlap: a delete misses the questions that another
\* put committed while it waited (request-templates.service.ts:97-108, 185-198).
WholeTemplates ==
  \A owner \in Owner : \E body \in Bodies \cup {<<>>} :
    {<<r.ordinal, r.q, r.of>> : r \in QuestionsOf(owner)} = {<<i - 1, body[i], body>> : i \in DOMAIN body}

\* What an answer must be, said of the question and the last answer to it.
Fits(q, a) ==
  LET c == q.constraints IN
  CASE q.type = "text"    -> a.value # None => LET t == a.value.text IN
         ~t.blank => ~Below(t.length, c.minChars) /\ ~Above(t.length, c.maxChars)
    [] q.type = "numeric" -> a.value # None => LET n == a.value.number IN
         n.finite /\ (c.kind = "integer" => n.whole) /\ ~Below(n.n, c.min) /\ ~Above(n.n, c.max)
    [] q.type = "choice"  -> a.value # None =>
         LET chosen == IF a.value.list = None THEN {a.value.option} ELSE ToSet(a.value.list)
         IN  chosen \subseteq c.options
    [] q.type = "attachment" ->
         \A f \in ToSet(a.files) : c.allowedTypes = {} \/ c.allowedTypes \cap FileTypes[f] # {}

\* Captured answers are never orphaned by an edit of the template: every version that
\* carries an answer answers the questions the task has now, each required one and each
\* as its constraints want, although the lock (request-templates.service.ts:85-95) is
\* read before the transaction that rewrites them and the answers are validated
\* before the one that writes them (submissions.service.ts:138-180).  A version
\* without a single answer has no such hold on the template, and may be left over.
AnswersFit ==
  \A u \in User : \A i \in DOMAIN submissions[u] :
    LET answers == submissions[u][i].answers IN answers # <<>> =>
      /\ \A a \in ToSet(answers) : \E r \in QuestionsOf("task") : r.id = a.question
      /\ \A r \in QuestionsOf("task") :
           LET a == byQuestion(answers, r.id)
           IN  IF a = None THEN ~r.q.required
               ELSE Fits(r.q, a) /\ (r.q.required => ~isEmpty(r.q.type, toValidatorAnswer(r.q.type, a)))
=============================================================================
