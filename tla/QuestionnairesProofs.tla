------------------------ MODULE QuestionnairesProofs ------------------------
(***************************************************************************)
(* The templates and the answers of Questionnaires, for any users, writers *)
(* and lists of questions.                                                 *)
(*                                                                         *)
(* What carries the proof is that the rows of a template change together:  *)
(* a put either takes all of them away and lays its own list with ids that *)
(* are new, or it changes nothing (Lays).  So the rows a waiting DELETE    *)
(* saw are all there or all gone (PutsStand), and so are the questions a   *)
(* submission on its way was validated against (PendingStand).             *)
(***************************************************************************)
EXTENDS Questionnaires, FiniteSetTheorems, FunctionTheorems, WellFoundedInduction, TLAPS

Question == UNION {ToSet(body) : body \in Bodies}

Row == [id : Nat, owner : Owner, ordinal : Nat, q : Question, of : Bodies]

PutState ==
  {NoPut}
  \cup [at : {"read"}, owner : Owner, body : Bodies, existing : BOOLEAN]
  \cup [at : {"deleting"}, owner : Owner, body : Bodies, doomed : SUBSET Row]

Reply == [question : Nat, value : Value \cup {None}, files : Seq(File)]

Version == [state : {"review", "revising", "decided"}, life : {"active", "retired"}, answers : Seq(Reply)]

TypesStand ==
  /\ rows \subseteq Row /\ nextId \in Nat /\ has \subseteq Owner
  /\ puts \in [Put -> PutState]
  /\ submissions \in [User -> Seq(Version)]
  /\ submitting \in [User -> Seq(Reply) \cup {None}]

\* A row belongs to a template that is there, its id is used once, and so is its
\* ordinal in the template.
RowsStand ==
  /\ \A r \in rows : r.id \in 1..nextId /\ r.owner \in has
  /\ \A r, s \in rows : r.id = s.id => r = s
  /\ \A r, s \in rows : r.owner = s.owner /\ r.ordinal = s.ordinal => r = s

\* A put knows whether its template is there; the rows its DELETE saw are the whole
\* template, or all gone.
PutStands(p) ==
  /\ puts[p].at = "read" => IF puts[p].existing THEN puts[p].owner \in has ELSE puts[p].owner = "division"
  /\ puts[p].at = "deleting" =>
       /\ puts[p].owner \in has
       /\ \A r \in puts[p].doomed : r.id \in 1..nextId
       /\ puts[p].doomed \cap rows = {} \/ puts[p].doomed = QuestionsOf(puts[p].owner)

PutsStand == \A p \in Put : PutStands(p)

\* What AnswersFit says of one version.
Answering(template, answers) ==
  /\ \A a \in ToSet(answers) : \E r \in template : r.id = a.question
  /\ \A r \in template :
       LET a == byQuestion(answers, r.id)
       IN  IF a = None THEN ~r.q.required
           ELSE Fits(r.q, a) /\ (r.q.required => ~isEmpty(r.q.type, toValidatorAnswer(r.q.type, a)))

\* Of no answer is the question still there.
Outdated(answers) == \A a \in ToSet(answers) : a.question \in 1..nextId /\ \A r \in rows : r.id # a.question

PendingStand ==
  \A u \in User : submitting[u] # None /\ submitting[u] # <<>> =>
    Answering(QuestionsOf("task"), submitting[u]) \/ Outdated(submitting[u])

TemplatesInv == TypesStand /\ RowsStand /\ PutsStand /\ WholeTemplates

FitInv == TemplatesInv /\ AnswersFit /\ PendingStand


-----------------------------------------------------------------------------
(* Lists of questions and the rows laid for them *)

LEMMA BodyShape ==
  ASSUME NEW body \in Bodies \cup {<<>>}
  PROVE  /\ Len(body) \in Nat /\ DOMAIN body = 1..Len(body)
         /\ \A i \in DOMAIN body : body \in Bodies /\ body[i] \in Question /\ body[i].type \in Type
         /\ body # <<>> => 1 \in DOMAIN body
<1>1. CASE body = <<>> BY <1>1
<1>2. CASE body # <<>>
  <2>1. body \in Bodies BY <1>2
  <2>2. body \in Seq(ToSet(body)) /\ \A q \in ToSet(body) : q.type \in Type
    BY <2>1, BodiesAssumption
  <2>3. Len(body) \in Nat /\ DOMAIN body = 1..Len(body) BY <2>2
  <2>4. Len(body) # 0 BY <2>2, <1>2
  <2>5. \A i \in DOMAIN body : body[i] \in ToSet(body) BY DEF ToSet
  <2>6. ToSet(body) \subseteq Question BY <2>1 DEF Question
  <2> QED BY <2>1, <2>2, <2>3, <2>4, <2>5, <2>6
<1> QED BY <1>1, <1>2

LEMMA FreshRows ==
  ASSUME TypesStand, NEW owner \in Owner, NEW body \in Bodies \cup {<<>>}
  PROVE  /\ \A r \in Fresh(owner, body) :
              /\ r \in Row /\ r.owner = owner
              /\ r.id \in 1..(nextId + Len(body)) /\ ~r.id \in 1..nextId
         /\ \A r, s \in Fresh(owner, body) : r.id = s.id \/ r.ordinal = s.ordinal => r = s
         /\ {<<r.ordinal, r.q, r.of>> : r \in Fresh(owner, body)} = {<<i - 1, body[i], body>> : i \in DOMAIN body}
         /\ body # <<>> => \E r \in Fresh(owner, body) : r.ordinal = 0
<1> DEFINE row(i) == [id |-> nextId + i, owner |-> owner, ordinal |-> i - 1, q |-> body[i], of |-> body]
<1>1. Fresh(owner, body) = {row(i) : i \in DOMAIN body} BY DEF Fresh
<1>2. nextId \in Nat BY DEF TypesStand
<1>3. \A i \in DOMAIN body : i \in 1..Len(body) /\ body \in Bodies /\ body[i] \in Question
  BY BodyShape
<1>4. ASSUME NEW i \in DOMAIN body
      PROVE  /\ row(i) \in Row /\ row(i).owner = owner /\ row(i).ordinal = i - 1 /\ row(i).id = nextId + i
             /\ row(i).q = body[i] /\ row(i).of = body
             /\ row(i).id \in 1..(nextId + Len(body)) /\ ~row(i).id \in 1..nextId
  BY <1>2, <1>3, BodyShape DEF Row
<1>5. \A i, j \in DOMAIN body : nextId + i = nextId + j \/ i - 1 = j - 1 => i = j BY <1>2, <1>3
<1> HIDE DEF row
<1>6. \A r \in Fresh(owner, body) : \E i \in DOMAIN body : r = row(i) BY <1>1
<1>7. \A r \in Fresh(owner, body) :
        /\ r \in Row /\ r.owner = owner
        /\ r.id \in 1..(nextId + Len(body)) /\ ~r.id \in 1..nextId
  BY <1>4, <1>6
<1>8. \A r, s \in Fresh(owner, body) : r.id = s.id \/ r.ordinal = s.ordinal => r = s
  BY <1>4, <1>5, <1>6
<1>9. {<<r.ordinal, r.q, r.of>> : r \in Fresh(owner, body)} = {<<i - 1, body[i], body>> : i \in DOMAIN body}
  BY <1>1, <1>4
<1>10. body # <<>> => \E r \in Fresh(owner, body) : r.ordinal = 0
  <2> SUFFICES ASSUME body # <<>> PROVE \E r \in Fresh(owner, body) : r.ordinal = 0 OBVIOUS
  <2>1. 1 \in DOMAIN body BY BodyShape
  <2> QED BY <2>1, <1>1, <1>4
<1> QED BY <1>7, <1>8, <1>9, <1>10

\* Of one template the rows are taken away and others laid, with ids never used.
Lays(owner, body) ==
  /\ rows' = (rows \ QuestionsOf(owner)) \cup Fresh(owner, body)
  /\ nextId' = nextId + Len(body)
  /\ owner \in has' /\ has \subseteq has' /\ has' \subseteq Owner

LEMMA LaysIds ==
  ASSUME TypesStand, RowsStand, NEW owner \in Owner, NEW body \in Bodies \cup {<<>>}, Lays(owner, body)
  PROVE  /\ nextId' \in Nat /\ 1..nextId \subseteq 1..nextId'
         /\ rows' \subseteq Row
         /\ \A r \in rows' : r \in rows \/ (~r.id \in 1..nextId /\ r \in Fresh(owner, body))
<1>1. nextId \in Nat /\ Len(body) \in Nat BY BodyShape DEF TypesStand
<1>2. nextId' = nextId + Len(body) BY DEF Lays
<1>3. nextId' \in Nat /\ 1..nextId \subseteq 1..nextId' BY <1>1, <1>2
<1>4. \A r \in rows' : r \in rows \/ r \in Fresh(owner, body) BY DEF Lays
<1>5. \A r \in Fresh(owner, body) : r \in Row /\ ~r.id \in 1..nextId BY FreshRows
<1>6. rows \subseteq Row BY DEF TypesStand
<1> QED BY <1>3, <1>4, <1>5, <1>6

LEMMA LaysTemplates ==
  ASSUME TypesStand, NEW owner \in Owner, NEW body \in Bodies \cup {<<>>}, Lays(owner, body)
  PROVE  /\ QuestionsOf(owner)' = Fresh(owner, body)
         /\ \A other \in Owner \ {owner} : QuestionsOf(other)' = QuestionsOf(other)
<1>1. \A r \in Fresh(owner, body) : r.owner = owner BY FreshRows
<1>2. rows' = (rows \ QuestionsOf(owner)) \cup Fresh(owner, body) BY DEF Lays
<1>3. QuestionsOf(owner)' = Fresh(owner, body) BY <1>1, <1>2 DEF QuestionsOf
<1>4. ASSUME NEW other \in Owner \ {owner} PROVE QuestionsOf(other)' = QuestionsOf(other)
  BY <1>1, <1>2 DEF QuestionsOf
<1> QED BY <1>3, <1>4

LEMMA LaysRows ==
  ASSUME TypesStand, RowsStand, NEW owner \in Owner, NEW body \in Bodies \cup {<<>>}, Lays(owner, body)
  PROVE  RowsStand'
<1>1. \A r \in Fresh(owner, body) :
        r.owner = owner /\ r.id \in 1..(nextId + Len(body)) /\ ~r.id \in 1..nextId
  BY FreshRows
<1>2. \A r, s \in Fresh(owner, body) : r.id = s.id \/ r.ordinal = s.ordinal => r = s BY FreshRows
<1>3. /\ rows' = (rows \ QuestionsOf(owner)) \cup Fresh(owner, body)
      /\ nextId' = nextId + Len(body) /\ owner \in has' /\ has \subseteq has'
  BY DEF Lays
<1>4. \A r \in rows : r.id \in 1..nextId /\ r.owner \in has BY DEF RowsStand
<1>5. \A r \in rows \ QuestionsOf(owner) : r \in rows /\ r.owner # owner BY DEF QuestionsOf
<1>6. 1..nextId \subseteq 1..nextId' BY LaysIds
<1>7. (\A r \in rows : r.id \in 1..nextId /\ r.owner \in has)'
  <2> SUFFICES ASSUME NEW r \in rows' PROVE r.id \in 1..nextId' /\ r.owner \in has' OBVIOUS
  <2> QED BY <1>1, <1>3, <1>4, <1>6
<1>8. (\A r, s \in rows : r.id = s.id => r = s)'
  <2> SUFFICES ASSUME NEW r \in rows', NEW s \in rows', r.id = s.id PROVE r = s OBVIOUS
  <2> QED BY <1>1, <1>2, <1>3, <1>4 DEF RowsStand
<1>9. (\A r, s \in rows : r.owner = s.owner /\ r.ordinal = s.ordinal => r = s)'
  <2> SUFFICES ASSUME NEW r \in rows', NEW s \in rows', r.owner = s.owner, r.ordinal = s.ordinal
               PROVE  r = s
    OBVIOUS
  <2> QED BY <1>1, <1>2, <1>3, <1>5 DEF RowsStand
<1> QED BY <1>7, <1>8, <1>9 DEF RowsStand

LEMMA LaysWhole ==
  ASSUME TypesStand, WholeTemplates, NEW owner \in Owner, NEW body \in Bodies \cup {<<>>},
         Lays(owner, body)
  PROVE  WholeTemplates'
<1> DEFINE of(template) == {<<r.ordinal, r.q, r.of>> : r \in template}
<1> DEFINE whole(template) ==
      \E b \in Bodies \cup {<<>>} : of(template) = {<<i - 1, b[i], b>> : i \in DOMAIN b}
<1>1. \A o \in Owner : whole(QuestionsOf(o)) BY DEF WholeTemplates
<1>2. whole(Fresh(owner, body)) BY FreshRows
<1> HIDE DEF whole
<1>3. ASSUME NEW o \in Owner PROVE whole(QuestionsOf(o)')
  <2>1. CASE o = owner BY <2>1, <1>2, LaysTemplates
  <2>2. CASE o # owner
    <3>1. QuestionsOf(o)' = QuestionsOf(o) BY <2>2, LaysTemplates
    <3> QED BY <3>1, <1>1
  <2> QED BY <2>1, <2>2
<1> QED BY <1>3 DEF WholeTemplates, whole, of

\* The rows another DELETE saw are all there or all gone, as before.
LEMMA LaysPut ==
  ASSUME TypesStand, RowsStand, NEW owner \in Owner, NEW body \in Bodies \cup {<<>>}, Lays(owner, body),
         NEW p \in Put, PutStands(p), puts'[p] = puts[p]
  PROVE  PutStands(p)'
<1>1. has \subseteq has' BY DEF Lays
<1>2. puts[p].at = "read" => IF puts[p].existing THEN puts[p].owner \in has' ELSE puts[p].owner = "division"
  BY <1>1 DEF PutStands
<1>3. SUFFICES ASSUME puts[p].at = "deleting"
               PROVE  /\ puts[p].owner \in has'
                      /\ \A r \in puts[p].doomed : r.id \in 1..nextId'
                      /\ puts[p].doomed \cap rows' = {} \/ puts[p].doomed = QuestionsOf(puts[p].owner)'
  BY <1>2 DEF PutStands
<1>4. /\ puts[p].owner \in has
      /\ \A r \in puts[p].doomed : r.id \in 1..nextId
      /\ puts[p].doomed \cap rows = {} \/ puts[p].doomed = QuestionsOf(puts[p].owner)
  BY <1>3 DEF PutStands
<1>5. 1..nextId \subseteq 1..nextId' BY LaysIds
<1>6. \A r \in rows' : r \in rows \/ ~r.id \in 1..nextId BY LaysIds
<1>7. puts[p].owner \in Owner BY <1>4 DEF TypesStand
<1>8. CASE puts[p].doomed \cap rows = {} BY <1>1, <1>4, <1>5, <1>6, <1>8
<1>9. CASE puts[p].doomed = QuestionsOf(puts[p].owner) /\ puts[p].owner # owner
  BY <1>1, <1>4, <1>5, <1>7, <1>9, LaysTemplates
<1>10. CASE puts[p].doomed = QuestionsOf(puts[p].owner) /\ puts[p].owner = owner
  <2>1. \A r \in Fresh(owner, body) : ~r.id \in 1..nextId BY FreshRows
  <2>2. rows' = (rows \ puts[p].doomed) \cup Fresh(owner, body) BY <1>10 DEF Lays
  <2>3. puts[p].doomed \cap rows' = {} BY <2>1, <2>2, <1>4
  <2> QED BY <2>3, <1>1, <1>4, <1>5
<1> QED BY <1>4, <1>8, <1>9, <1>10

\* A list of answers that fits the template still does, or none of its questions is left.
LEMMA LaysAnswers ==
  ASSUME TypesStand, RowsStand, NEW owner \in Owner, NEW body \in Bodies \cup {<<>>}, Lays(owner, body),
         NEW answers, Answering(QuestionsOf("task"), answers) \/ Outdated(answers)
  PROVE  Answering(QuestionsOf("task")', answers) \/ Outdated(answers)'
<1>1. \A r \in rows' : r \in rows \/ ~r.id \in 1..nextId BY LaysIds
<1>2. 1..nextId \subseteq 1..nextId' BY LaysIds
<1>3. ASSUME \A a \in ToSet(answers) : a.question \in 1..nextId /\ \A r \in rows' : r.id # a.question
      PROVE  Outdated(answers)'
  BY <1>2, <1>3 DEF Outdated
<1>4. CASE Outdated(answers)
  <2>1. \A a \in ToSet(answers) : a.question \in 1..nextId /\ \A r \in rows' : r.id # a.question
    BY <1>1, <1>4 DEF Outdated
  <2> QED BY <1>3, <2>1
<1>5. CASE Answering(QuestionsOf("task"), answers) /\ owner # "task"
  <2>1. QuestionsOf("task")' = QuestionsOf("task") BY <1>5, LaysTemplates DEF Owner
  <2> QED BY <2>1, <1>5
<1>6. CASE Answering(QuestionsOf("task"), answers) /\ owner = "task"
  <2>1. ASSUME NEW a \in ToSet(answers)
        PROVE  a.question \in 1..nextId /\ \A r \in rows' : r.id # a.question
    <3>1. PICK r \in QuestionsOf("task") : r.id = a.question BY <1>6 DEF Answering
    <3>2. r \in rows /\ r.id \in 1..nextId BY <3>1 DEF QuestionsOf, RowsStand
    <3>3. \A s \in Fresh(owner, body) : ~s.id \in 1..nextId BY FreshRows
    <3>4. ~r \in rows' BY <3>1, <3>2, <3>3, <1>6 DEF Lays
    <3>5. \A s \in rows : s.id = r.id => s = r BY <3>2 DEF RowsStand
    <3> QED BY <3>1, <3>2, <3>4, <3>5, <1>1
  <2> QED BY <1>3, <2>1
<1> QED BY <1>4, <1>5, <1>6

LEMMA LaysPending ==
  ASSUME TypesStand, RowsStand, PendingStand, UNCHANGED submitting,
         NEW owner \in Owner, NEW body \in Bodies \cup {<<>>}, Lays(owner, body)
  PROVE  PendingStand'
<1>1. ASSUME NEW u \in User, submitting[u] # None /\ submitting[u] # <<>>
      PROVE  Answering(QuestionsOf("task")', submitting[u]) \/ Outdated(submitting[u])'
  <2>1. Answering(QuestionsOf("task"), submitting[u]) \/ Outdated(submitting[u]) BY <1>1 DEF PendingStand
  <2>2. Answering(QuestionsOf("task")', submitting[u])
        \/ \A a \in ToSet(submitting[u]) : a.question \in 1..nextId' /\ \A r \in rows' : r.id # a.question
    BY <2>1, LaysAnswers DEF Outdated
  <2> QED BY <2>2 DEF Outdated
<1> QED BY <1>1 DEF PendingStand, Answering


-----------------------------------------------------------------------------
(* What each write of a template lays *)

LEMMA WholeHasFirst ==
  ASSUME WholeTemplates, NEW owner \in Owner, QuestionsOf(owner) # {}
  PROVE  \E r \in QuestionsOf(owner) : r.ordinal = 0
<1>1. PICK body \in Bodies \cup {<<>>} :
        {<<r.ordinal, r.q, r.of>> : r \in QuestionsOf(owner)} = {<<i - 1, body[i], body>> : i \in DOMAIN body}
  BY DEF WholeTemplates
<1>2. body # <<>>
  <2> SUFFICES ASSUME body = <<>> PROVE FALSE OBVIOUS
  <2>1. DOMAIN body = {} OBVIOUS
  <2>2. {<<r.ordinal, r.q, r.of>> : r \in QuestionsOf(owner)} = {} BY <1>1, <2>1
  <2>3. PICK r \in QuestionsOf(owner) : TRUE OBVIOUS
  <2>4. <<r.ordinal, r.q, r.of>> \in {<<s.ordinal, s.q, s.of>> : s \in QuestionsOf(owner)} BY <2>3
  <2> QED BY <2>2, <2>4
<1>3. 1 \in DOMAIN body BY <1>2, BodyShape
<1>4. <<1 - 1, body[1], body>> \in {<<r.ordinal, r.q, r.of>> : r \in QuestionsOf(owner)} BY <1>1, <1>3
<1>5. PICK r \in QuestionsOf(owner) : <<1 - 1, body[1], body>> = <<r.ordinal, r.q, r.of>> BY <1>4
<1> QED BY <1>5

\* A put is aborted, or takes the whole template away: what is left of a template
\* would collide with the first of the new questions.
LEMMA ReplaceLays ==
  ASSUME TypesStand, WholeTemplates, NEW p \in Put, PutStands(p), Replace(p)
  PROVE  /\ puts[p].owner \in Owner /\ puts[p].body \in Bodies /\ puts[p].owner \in has
         /\ \/ UNCHANGED <<rows, nextId>>
            \/ /\ Lays(puts[p].owner, puts[p].body)
               /\ ~RestrictsDelete({r.id : r \in QuestionsOf(puts[p].owner)})
<1> DEFINE owner == puts[p].owner
           body  == puts[p].body
           gone  == puts[p].doomed \cap rows
           kept  == QuestionsOf(owner) \ gone
<1>1. puts[p].at = "deleting" /\ UNCHANGED has BY DEF Replace
<1>2. owner \in has /\ owner \in Owner BY <1>1 DEF PutStands, TypesStand
<1>3. body \in Bodies
  <2>1. puts[p] \in PutState BY DEF TypesStand
  <2> QED BY <2>1, <1>1 DEF PutState, NoPut
<1>4. gone = {} \/ gone = QuestionsOf(owner)
  BY <1>1 DEF PutStands, QuestionsOf
<1>5. \/ UNCHANGED <<rows, nextId>>
      \/ /\ ~RestrictsDelete({r.id : r \in gone}) /\ ~Collide(kept, Fresh(owner, body))
         /\ rows' = (rows \ gone) \cup Fresh(owner, body)
         /\ nextId' = nextId + Len(body)
  BY DEF Replace
<1>6. CASE UNCHANGED <<rows, nextId>> BY <1>2, <1>3, <1>6
<1>7. CASE /\ ~RestrictsDelete({r.id : r \in gone}) /\ ~Collide(kept, Fresh(owner, body))
           /\ rows' = (rows \ gone) \cup Fresh(owner, body)
           /\ nextId' = nextId + Len(body)
  <2>1. CASE gone = QuestionsOf(owner)
    <3>1. Lays(owner, body) BY <2>1, <1>1, <1>2, <1>7 DEF Lays, TypesStand
    <3> QED BY <3>1, <2>1, <1>2, <1>3, <1>7
  <2>2. CASE gone = {} /\ QuestionsOf(owner) # {}
    <3>1. \E r \in kept : r.ordinal = 0 BY <2>2, <1>2, WholeHasFirst
    <3>2. ~\E r \in Fresh(owner, body) : r.ordinal = 0 BY <3>1, <1>7 DEF Collide
    <3>3. body = <<>> BY <3>2, <1>2, <1>3, FreshRows
    <3>4. Fresh(owner, body) = {} /\ Len(body) = 0 BY <3>3 DEF Fresh
    <3>5. UNCHANGED <<rows, nextId>> BY <3>4, <2>2, <1>7 DEF TypesStand
    <3> QED BY <3>5, <1>2, <1>3
  <2> QED BY <2>1, <2>2, <1>4
<1> QED BY <1>5, <1>6, <1>7

LEMMA NoneRestricted == RestrictsDelete({}) = FALSE
BY DEF RestrictsDelete

\* A template that is not there has no rows.
LEMMA AbsentIsEmpty ==
  ASSUME RowsStand, NEW owner \in Owner \ has
  PROVE  QuestionsOf(owner) = {} /\ ~RestrictsDelete({r.id : r \in QuestionsOf(owner)})
<1>1. QuestionsOf(owner) = {} BY DEF QuestionsOf, RowsStand
<1>2. {r.id : r \in QuestionsOf(owner)} = {} BY <1>1
<1> QED BY <1>1, <1>2, NoneRestricted

LEMMA CreateDefaultLays ==
  ASSUME TypesStand, RowsStand, NEW p \in Put, PutStands(p), CreateDefault(p)
  PROVE  /\ puts[p].body \in Bodies
         /\ \/ UNCHANGED <<rows, nextId, has>>
            \/ /\ Lays("division", puts[p].body)
               /\ ~RestrictsDelete({r.id : r \in QuestionsOf("division")})
<1>1. puts[p].at = "read" BY DEF CreateDefault
<1>2. puts[p].body \in Bodies
  <2>1. puts[p] \in PutState BY DEF TypesStand
  <2> QED BY <2>1, <1>1 DEF PutState, NoPut
<1>3. CASE "division" \in has BY <1>2, <1>3 DEF CreateDefault
<1>4. CASE "division" \notin has
  <2>1. "division" \in Owner BY DEF Owner
  <2>2. QuestionsOf("division") = {} /\ ~RestrictsDelete({r.id : r \in QuestionsOf("division")})
    BY <2>1, <1>4, AbsentIsEmpty
  <2>3. /\ has' = has \cup {"division"}
        /\ rows' = rows \cup Fresh("division", puts[p].body)
        /\ nextId' = nextId + Len(puts[p].body)
    BY <1>4 DEF CreateDefault
  <2>4. Lays("division", puts[p].body) BY <2>1, <2>2, <2>3 DEF Lays, TypesStand
  <2> QED BY <2>2, <2>4, <1>2
<1> QED BY <1>3, <1>4

\* As many rows as questions.
LEMMA TemplateSize ==
  ASSUME TypesStand, RowsStand, NEW owner \in Owner, NEW body \in Bodies \cup {<<>>},
         {<<r.ordinal, r.q, r.of>> : r \in QuestionsOf(owner)} = {<<i - 1, body[i], body>> : i \in DOMAIN body}
  PROVE  Cardinality(QuestionsOf(owner)) = Len(body)
<1> DEFINE template == QuestionsOf(owner)
           at == [r \in template |-> r.ordinal + 1]
<1>1. Len(body) \in Nat /\ DOMAIN body = 1..Len(body) BY BodyShape
<1>2. \A r \in template : r \in Row /\ r.owner = owner /\ r \in rows BY DEF QuestionsOf, TypesStand
<1>3. ASSUME NEW r \in template PROVE r.ordinal \in Nat /\ r.ordinal + 1 \in 1..Len(body)
  <2>1. r.ordinal \in Nat BY <1>2 DEF Row
  <2>2. <<r.ordinal, r.q, r.of>> \in {<<i - 1, body[i], body>> : i \in DOMAIN body} OBVIOUS
  <2>3. PICK i \in DOMAIN body : <<r.ordinal, r.q, r.of>> = <<i - 1, body[i], body>> BY <2>2
  <2> QED BY <2>1, <2>3, <1>1
<1>4. at \in [template -> 1..Len(body)] BY <1>3
<1>5. \A r, s \in template : at[r] = at[s] => r = s
  <2> SUFFICES ASSUME NEW r \in template, NEW s \in template, r.ordinal + 1 = s.ordinal + 1 PROVE r = s
    OBVIOUS
  <2>1. r.ordinal = s.ordinal BY <1>3
  <2> QED BY <2>1, <1>2 DEF RowsStand
<1>6. \A i \in 1..Len(body) : \E r \in template : at[r] = i
  <2> SUFFICES ASSUME NEW i \in 1..Len(body) PROVE \E r \in template : r.ordinal + 1 = i OBVIOUS
  <2>1. <<i - 1, body[i], body>> \in {<<r.ordinal, r.q, r.of>> : r \in template} BY <1>1
  <2>2. PICK r \in template : <<i - 1, body[i], body>> = <<r.ordinal, r.q, r.of>> BY <2>1
  <2> QED BY <2>2
<1>7. at \in Bijection(template, 1..Len(body))
  BY <1>4, <1>5, <1>6 DEF Bijection, Injection, Surjection, IsInjective
<1>8. ExistsBijection(1..Len(body), template)
  <2> HIDE DEF at, template
  <2> QED BY <1>7, Fun_ExistsBijSymmetric DEF ExistsBijection
<1>9. IsFiniteSet(1..Len(body)) /\ Cardinality(1..Len(body)) = Len(body) BY <1>1, FS_Interval
<1> QED BY <1>8, <1>9, FS_Bijection

LEMMA CopyOf ==
  ASSUME NEW r \in Row, NEW n
  PROVE  [r EXCEPT !.owner = "task", !.id = n]
           = [id |-> n, owner |-> "task", ordinal |-> r.ordinal, q |-> r.q, of |-> r.of]
<1>1. ASSUME NEW a, NEW b, NEW c, NEW d, NEW e
      PROVE  LET s == [id |-> a, owner |-> b, ordinal |-> c, q |-> d, of |-> e]
             IN  /\ [s EXCEPT !.owner = "task"] = [id |-> a, owner |-> "task", ordinal |-> c, q |-> d, of |-> e]
                 /\ s.ordinal = c /\ s.q = d /\ s.of = e
  OBVIOUS
<1>2. ASSUME NEW a, NEW c, NEW d, NEW e
      PROVE  [[id |-> a, owner |-> "task", ordinal |-> c, q |-> d, of |-> e] EXCEPT !.id = n]
               = [id |-> n, owner |-> "task", ordinal |-> c, q |-> d, of |-> e]
  OBVIOUS
<1>3. PICK a \in Nat, b \in Owner, c \in Nat, d \in Question, e \in Bodies :
        r = [id |-> a, owner |-> b, ordinal |-> c, q |-> d, of |-> e]
  BY DEF Row
<1> DEFINE s == [id |-> a, owner |-> b, ordinal |-> c, q |-> d, of |-> e]
<1>4. [s EXCEPT !.owner = "task"] = [id |-> a, owner |-> "task", ordinal |-> c, q |-> d, of |-> e]
  BY <1>1
<1>5. s.ordinal = c /\ s.q = d /\ s.of = e BY <1>1
<1>6. r = s BY <1>3
<1> DEFINE t == [id |-> a, owner |-> "task", ordinal |-> c, q |-> d, of |-> e]
           v == [id |-> n, owner |-> "task", ordinal |-> c, q |-> d, of |-> e]
<1>7. [t EXCEPT !.id = n] = v BY <1>2
<1>8. v = [id |-> n, owner |-> "task", ordinal |-> r.ordinal, q |-> r.q, of |-> r.of] BY <1>5, <1>6
<1>9. [s EXCEPT !.owner = "task"] = t BY <1>4
<1> HIDE DEF s, t, v
<1>10. [r EXCEPT !.owner = "task"] = t BY <1>6, <1>9
<1> QED BY <1>7, <1>8, <1>10

\* The copy a task takes has the questions of the default, in their order.
LEMMA CreateTaskLays ==
  ASSUME TypesStand, RowsStand, WholeTemplates, CreateTask
  PROVE  \E body \in Bodies \cup {<<>>} :
           /\ Lays("task", body)
           /\ ~RestrictsDelete({r.id : r \in QuestionsOf("task")})
<1>1. "division" \in Owner /\ "task" \in Owner /\ "task" \notin has BY DEF Owner, CreateTask
<1>2. PICK body \in Bodies \cup {<<>>} :
        {<<r.ordinal, r.q, r.of>> : r \in QuestionsOf("division")} = {<<i - 1, body[i], body>> : i \in DOMAIN body}
  BY <1>1 DEF WholeTemplates
<1>3. nextId' = nextId + Len(body)
  <2>1. Cardinality(QuestionsOf("division")) = Len(body) BY <1>1, <1>2, TemplateSize
  <2> QED BY <2>1 DEF CreateTask
<1> DEFINE copy(r) == [r EXCEPT !.owner = "task", !.id = nextId + r.ordinal + 1]
           laid(i) == [id |-> nextId + i, owner |-> "task", ordinal |-> i - 1, q |-> body[i], of |-> body]
<1>4. \A r \in QuestionsOf("division") : r \in Row BY DEF QuestionsOf, TypesStand
<1>5. ASSUME NEW r \in QuestionsOf("division"), NEW i \in DOMAIN body,
             <<r.ordinal, r.q, r.of>> = <<i - 1, body[i], body>>
      PROVE  copy(r) = laid(i)
  <2>1. r.ordinal = i - 1 /\ r.q = body[i] /\ r.of = body BY <1>5
  <2>2. i \in Nat /\ nextId \in Nat BY BodyShape DEF TypesStand
  <2>3. nextId + r.ordinal + 1 = nextId + i BY <2>1, <2>2
  <2>4. copy(r) = [id |-> nextId + r.ordinal + 1, owner |-> "task", ordinal |-> r.ordinal, q |-> r.q, of |-> r.of]
    BY <1>4, CopyOf
  <2> QED BY <2>1, <2>3, <2>4
<1> DEFINE copies == {copy(r) : r \in QuestionsOf("division")}
<1>6. rows' = rows \cup copies BY DEF CreateTask
<1>7. copies = {laid(i) : i \in DOMAIN body}
  <2> HIDE DEF copy, laid
  <2>1. ASSUME NEW r \in QuestionsOf("division") PROVE \E i \in DOMAIN body : copy(r) = laid(i)
    <3>1. <<r.ordinal, r.q, r.of>> \in {<<i - 1, body[i], body>> : i \in DOMAIN body} BY <1>2
    <3>2. PICK i \in DOMAIN body : <<r.ordinal, r.q, r.of>> = <<i - 1, body[i], body>> BY <3>1
    <3> QED BY <3>2, <1>5
  <2>2. ASSUME NEW i \in DOMAIN body PROVE \E r \in QuestionsOf("division") : copy(r) = laid(i)
    <3>1. <<i - 1, body[i], body>> \in {<<r.ordinal, r.q, r.of>> : r \in QuestionsOf("division")} BY <1>2
    <3>2. PICK r \in QuestionsOf("division") : <<i - 1, body[i], body>> = <<r.ordinal, r.q, r.of>> BY <3>1
    <3> QED BY <3>2, <1>5
  <2> QED BY <2>1, <2>2
<1>8. copies = Fresh("task", body) BY <1>7 DEF Fresh
<1>9. QuestionsOf("task") = {} /\ ~RestrictsDelete({r.id : r \in QuestionsOf("task")})
  BY <1>1, AbsentIsEmpty
<1>10. rows' = (rows \ QuestionsOf("task")) \cup Fresh("task", body) BY <1>6, <1>8, <1>9
<1>11. has' = has \cup {"task"} /\ has' \subseteq Owner BY <1>1 DEF CreateTask, TypesStand
<1>12. Lays("task", body) BY <1>3, <1>10, <1>11 DEF Lays
<1> QED BY <1>9, <1>12


-----------------------------------------------------------------------------
(* What was validated fits *)

LEMMA TextFits ==
  ASSUME NEW q, q.type = "text", NEW a, a.value \in Value \cup {None},
         \/ isEmpty(q.type, toValidatorAnswer(q.type, a))
         \/ validateAnswer(q, toValidatorAnswer(q.type, a)) = {}
  PROVE  Fits(q, a)
<1> SUFFICES ASSUME a.value # None, ~a.value.text.blank
             PROVE  /\ ~Below(a.value.text.length, q.constraints.minChars)
                    /\ ~Above(a.value.text.length, q.constraints.maxChars)
  BY DEF Fits
<1>1. toValidatorAnswer(q.type, a) = a.value.text BY DEF toValidatorAnswer
<1>2. a.value.text # None BY ValueAssumption
<1>3. ~isEmpty(q.type, a.value.text) BY <1>2 DEF isEmpty
<1>4. validateText(q.constraints, a.value.text) = {} BY <1>1, <1>3 DEF validateAnswer
<1>5. \A e \in {"too_short", "too_long"} :
        ~(IF e = "too_short" THEN Below(a.value.text.length, q.constraints.minChars)
          ELSE Above(a.value.text.length, q.constraints.maxChars))
  BY <1>4 DEF validateText
<1> QED BY <1>5

LEMMA NumberFits ==
  ASSUME NEW q, q.type = "numeric", NEW a, a.value \in Value \cup {None},
         \/ isEmpty(q.type, toValidatorAnswer(q.type, a))
         \/ validateAnswer(q, toValidatorAnswer(q.type, a)) = {}
  PROVE  Fits(q, a)
<1> DEFINE c == q.constraints
           n == a.value.number
<1> SUFFICES ASSUME a.value # None
             PROVE  n.finite /\ (c.kind = "integer" => n.whole) /\ ~Below(n.n, c.min) /\ ~Above(n.n, c.max)
  BY DEF Fits
<1>1. toValidatorAnswer(q.type, a) = n BY DEF toValidatorAnswer
<1>2. n # None BY ValueAssumption
<1>3. ~isEmpty(q.type, n) BY <1>2 DEF isEmpty
<1>4. validateNumber(c, n) = {} BY <1>1, <1>3 DEF validateAnswer
<1> HIDE DEF n, c
<1>5. n.finite BY <1>4 DEF validateNumber
<1>6. /\ (IF c.kind = "integer" /\ ~n.whole THEN {"not_integer"} ELSE {}) = {}
      /\ (IF Below(n.n, c.min) \/ Above(n.n, c.max) THEN {"out_of_range"} ELSE {}) = {}
  BY <1>4, <1>5 DEF validateNumber
<1> QED BY <1>5, <1>6

LEMMA ChoiceFits ==
  ASSUME NEW q, q.type = "choice", NEW a, a.value \in Value \cup {None},
         \/ isEmpty(q.type, toValidatorAnswer(q.type, a))
         \/ validateAnswer(q, toValidatorAnswer(q.type, a)) = {}
  PROVE  Fits(q, a)
<1> DEFINE said == IF a.value.list # None THEN a.value.list ELSE <<a.value.option>>
<1> SUFFICES ASSUME a.value # None PROVE ToSet(said) \subseteq q.constraints.options
  <2>1. ToSet(<<a.value.option>>) = {a.value.option} BY DEF ToSet
  <2> QED BY <2>1 DEF Fits
<1>1. toValidatorAnswer(q.type, a) = said BY DEF toValidatorAnswer
<1>2. said # None BY ValueAssumption
<1> HIDE DEF said
<1>3. CASE said = <<>> BY <1>3 DEF ToSet
<1>4. CASE said # <<>>
  <2>1. ~isEmpty(q.type, said) BY <1>2, <1>4 DEF isEmpty
  <2>2. validateChoice(q.constraints, said) = {} BY <1>1, <2>1 DEF validateAnswer
  <2>3. "invalid_option" \notin validateChoice(q.constraints, said) BY <2>2
  <2> QED BY <2>3 DEF validateChoice
<1> QED BY <1>3, <1>4

LEMMA FilesFit ==
  ASSUME NEW q, q.type = "attachment", NEW a,
         \/ isEmpty(q.type, toValidatorAnswer(q.type, a))
         \/ validateAttachment(q, toValidatorAnswer(q.type, a)) = {}
  PROVE  Fits(q, a)
<1> SUFFICES ASSUME NEW f \in ToSet(a.files), q.constraints.allowedTypes # {}
             PROVE  q.constraints.allowedTypes \cap FileTypes[f] # {}
  BY DEF Fits
<1>1. toValidatorAnswer(q.type, a) = a.files BY DEF toValidatorAnswer
<1>2. CASE a.files = <<>>
  <2>1. ToSet(a.files) = {} BY <1>2 DEF ToSet
  <2> QED BY <2>1
<1>3. CASE a.files # <<>>
  <2>1. validateAttachment(q, a.files) = {} BY <1>1, <1>3 DEF isEmpty
  <2>2. SUFFICES ASSUME q.constraints.allowedTypes \cap FileTypes[f] = {} PROVE FALSE OBVIOUS
  <2> DEFINE refused == {g \in ToSet(a.files) :
                           \/ files[g].life = "retired"
                           \/ q.constraints.allowedTypes # {} /\ q.constraints.allowedTypes \cap FileTypes[g] = {}}
  <2>3. f \in refused BY <2>2
  <2>4. {IF files[g].life = "retired" THEN "attachment_not_found" ELSE "wrong_attachment_type" : g \in refused}
          \subseteq validateAttachment(q, a.files)
    BY DEF validateAttachment
  <2> HIDE DEF refused
  <2> QED BY <2>1, <2>3, <2>4
<1> QED BY <1>2, <1>3

LEMMA LastOfSome ==
  ASSUME NEW N \in Nat, NEW S \in SUBSET (1..N), S # {}
  PROVE  \E i \in S : \A j \in S : j <= i
<1> DEFINE T == {N - i : i \in S}
<1>1. \A i \in S : i \in Nat /\ N - i \in Nat OBVIOUS
<1>2. T \subseteq Nat /\ T # {} BY <1>1
<1>3. PICK x \in T : \A y \in T : <<y, x>> \notin OpToRel(<, Nat)
  BY <1>2, WFMin, NatLessThanWellFounded
<1>4. \A y \in T : ~(y < x) BY <1>2, <1>3 DEF OpToRel
<1>5. PICK i \in S : x = N - i BY <1>3
<1>6. ASSUME NEW j \in S PROVE j <= i
  <2>1. ~(N - j < N - i) BY <1>4, <1>5
  <2> QED BY <2>1, <1>1
<1> QED BY <1>6

LEMMA ByQuestionIsReply ==
  ASSUME NEW answers \in Seq(Reply), NEW id, byQuestion(answers, id) # None
  PROVE  byQuestion(answers, id) \in Reply
<1> DEFINE of == {i \in DOMAIN answers : answers[i].question = id}
           last == CHOOSE i \in of : \A j \in of : j <= i
<1>1. of # {} /\ byQuestion(answers, id) = answers[last] BY DEF byQuestion
<1>2. \E i \in of : \A j \in of : j <= i
  <2>1. Len(answers) \in Nat /\ of \in SUBSET (1..Len(answers)) OBVIOUS
  <2> HIDE DEF of
  <2> QED BY <2>1, <1>1, LastOfSome
<1> HIDE DEF of
<1>3. last \in of BY <1>2
<1> HIDE DEF last
<1>4. last \in DOMAIN answers BY <1>3 DEF of
<1> QED BY <1>1, <1>4

\* What the validator of a submission lets pass is what AnswersFit asks for.
LEMMA ValidIsAnswering ==
  ASSUME NEW template, \A r \in template : r.q.type \in Type,
         NEW answers \in Seq(Reply), validateSubmission(template, answers) = {}
  PROVE  Answering(template, answers)
<1>1. ASSUME NEW a \in ToSet(answers) PROVE \E r \in template : r.id = a.question
  <2>1. PICK i \in DOMAIN answers : a = answers[i] BY DEF ToSet
  <2>2. SUFFICES ASSUME \A row \in template : row.id # answers[i].question PROVE FALSE BY <2>1
  <2> DEFINE unknown == {j \in DOMAIN answers : \A row \in template : row.id # answers[j].question}
             pairs == {<<answers[j].question, "unknown_question">> : j \in unknown}
  <2>3. i \in unknown BY <2>2
  <2>4. pairs \subseteq validateSubmission(template, answers) BY Zenon DEF validateSubmission
  <2>5. <<answers[i].question, "unknown_question">> \in pairs
    <3> HIDE DEF unknown
    <3> QED BY <2>3
  <2> HIDE DEF pairs
  <2> QED BY <2>4, <2>5
<1>2. ASSUME NEW r \in template PROVE errorsOf(r, answers) = {}
  <2>1. {r.id} \X errorsOf(r, answers) \subseteq validateSubmission(template, answers)
    BY DEF validateSubmission
  <2>2. SUFFICES ASSUME NEW e \in errorsOf(r, answers) PROVE FALSE OBVIOUS
  <2>3. <<r.id, e>> \in {r.id} \X errorsOf(r, answers) OBVIOUS
  <2> QED BY <2>1, <2>3
<1>3. ASSUME NEW r \in template, NEW a, a = byQuestion(answers, r.id)
      PROVE  IF a = None THEN ~r.q.required
             ELSE Fits(r.q, a) /\ (r.q.required => ~isEmpty(r.q.type, toValidatorAnswer(r.q.type, a)))
  <2> DEFINE q == r.q
             said == toValidatorAnswer(q.type, a)
  <2>1. q.type \in Type OBVIOUS
  <2>2. (IF IF a = None THEN TRUE ELSE isEmpty(q.type, said)
         THEN IF q.required THEN {"required_missing"} ELSE {}
         ELSE validateAnswer(q, said)
              \cup (IF q.type = "attachment" THEN validateAttachment(q, said) ELSE {})) = {}
    BY <1>2, <1>3 DEF errorsOf
  <2> HIDE DEF q, said
  <2>3. CASE a = None
    <3>1. ~q.required BY <2>2, <2>3
    <3> QED BY <3>1, <2>3 DEF q
  <2>4. CASE a # None
    <3>1. q.required => ~isEmpty(q.type, said) BY <2>2, <2>4
    <3>2. \/ isEmpty(q.type, said)
          \/ validateAnswer(q, said) = {} /\ (q.type = "attachment" => validateAttachment(q, said) = {})
      BY <2>2, <2>4
    <3>3. a.value \in Value \cup {None}
      <4>1. a \in Reply BY <1>3, <2>4, ByQuestionIsReply
      <4> QED BY <4>1 DEF Reply
    <3>4. Fits(q, a)
      <4>1. CASE q.type = "text" BY <4>1, <3>2, <3>3, TextFits DEF said
      <4>2. CASE q.type = "numeric" BY <4>2, <3>2, <3>3, NumberFits DEF said
      <4>3. CASE q.type = "choice" BY <4>3, <3>2, <3>3, ChoiceFits DEF said
      <4>4. CASE q.type = "attachment" BY <4>4, <3>2, FilesFit DEF said
      <4> QED BY <4>1, <4>2, <4>3, <4>4, <2>1 DEF Type
    <3> QED BY <3>1, <3>4, <2>4 DEF q, said
  <2> QED BY <2>3, <2>4
<1> QED BY <1>1, <1>3 DEF Answering


-----------------------------------------------------------------------------
(* Writing templates *)

LEMMA FitMeansAnswering ==
  AnswersFit <=>
    \A u \in User : \A i \in DOMAIN submissions[u] :
      submissions[u][i].answers # <<>> => Answering(QuestionsOf("task"), submissions[u][i].answers)
BY DEF AnswersFit, Answering

LEMMA ReplyNames ==
  ASSUME NEW answers \in Seq(Reply), answers # <<>>
  PROVE  \E a \in ToSet(answers) : a \in Reply
<1>1. 1 \in DOMAIN answers /\ answers[1] \in Reply OBVIOUS
<1> QED BY <1>1 DEF ToSet

LEMMA AnswersOf ==
  ASSUME TypesStand, NEW u \in User, NEW i \in DOMAIN submissions[u]
  PROVE  submissions[u][i] \in Version /\ submissions[u][i].answers \in Seq(Reply)
<1>1. submissions[u] \in Seq(Version) BY DEF TypesStand
<1>2. submissions[u][i] \in Version BY <1>1
<1> QED BY <1>2 DEF Version

\* A template with answers is not taken away, so the answers fit what is there.
LEMMA LaysFit ==
  ASSUME TypesStand, AnswersFit, UNCHANGED submissions,
         NEW owner \in Owner, NEW body \in Bodies \cup {<<>>}, Lays(owner, body),
         ~RestrictsDelete({r.id : r \in QuestionsOf(owner)})
  PROVE  AnswersFit'
<1>1. CASE owner # "task"
  <2>1. QuestionsOf("task")' = QuestionsOf("task") BY <1>1, LaysTemplates DEF Owner
  <2> QED BY <2>1 DEF AnswersFit
<1>2. CASE owner = "task"
  <2>1. ASSUME NEW u \in User, NEW i \in DOMAIN submissions[u] PROVE submissions[u][i].answers = <<>>
    <3> SUFFICES ASSUME submissions[u][i].answers # <<>> PROVE FALSE OBVIOUS
    <3>1. submissions[u][i].answers \in Seq(Reply) BY AnswersOf
    <3>2. PICK a \in ToSet(submissions[u][i].answers) : a \in Reply BY <3>1, ReplyNames
    <3>3. PICK r \in QuestionsOf("task") : r.id = a.question BY FitMeansAnswering DEF Answering
    <3>4. a.question \in {s.id : s \in QuestionsOf(owner)} BY <3>3, <1>2
    <3> QED BY <3>4 DEF RestrictsDelete
  <2> QED BY <2>1 DEF AnswersFit
<1> QED BY <1>1, <1>2

LEMMA LaysKeeps ==
  ASSUME FitInv, UNCHANGED <<submissions, submitting>>,
         NEW owner \in Owner, NEW body \in Bodies \cup {<<>>}, Lays(owner, body),
         ~RestrictsDelete({r.id : r \in QuestionsOf(owner)}),
         puts' \in [Put -> PutState],
         \A p \in Put : puts'[p] = puts[p] \/ puts'[p] = NoPut
  PROVE  FitInv'
<1> USE DEF FitInv, TemplatesInv
<1>1. TypesStand'
  <2>1. nextId' \in Nat /\ rows' \subseteq Row BY LaysIds
  <2>2. has' \subseteq Owner BY DEF Lays
  <2> QED BY <2>1, <2>2 DEF TypesStand
<1>2. RowsStand' BY LaysRows
<1>3. PutsStand'
  <2>1. ASSUME NEW p \in Put PROVE PutStands(p)'
    <3>1. CASE puts'[p] = puts[p] BY <3>1, LaysPut DEF PutsStand
    <3>2. CASE puts'[p] = NoPut BY <3>2 DEF PutStands, NoPut
    <3> QED BY <3>1, <3>2
  <2> QED BY <2>1 DEF PutsStand
<1>4. WholeTemplates' BY LaysWhole
<1>5. AnswersFit' BY LaysFit
<1>6. PendingStand' BY LaysPending
<1> QED BY <1>1, <1>2, <1>3, <1>4, <1>5, <1>6

\* With the rows as they are, only the puts and the submissions have to stand.
LEMMA SameRows ==
  ASSUME FitInv, UNCHANGED <<rows, nextId, has>>
  PROVE  RowsStand' /\ WholeTemplates' /\ rows' \subseteq Row /\ nextId' \in Nat /\ has' \subseteq Owner
         /\ \A p \in Put : puts'[p] = puts[p] \/ puts'[p] = NoPut => PutStands(p)'
<1> USE DEF FitInv, TemplatesInv
<1>1. \A owner : QuestionsOf(owner)' = QuestionsOf(owner) BY DEF QuestionsOf
<1>2. RowsStand' BY DEF RowsStand
<1>3. WholeTemplates' BY <1>1 DEF WholeTemplates
<1>4. rows' \subseteq Row /\ nextId' \in Nat /\ has' \subseteq Owner BY DEF TypesStand
<1>5. ASSUME NEW p \in Put, puts'[p] = puts[p] PROVE PutStands(p)'
  BY <1>1, <1>5 DEF PutsStand, PutStands
<1>6. ASSUME NEW p \in Put, puts'[p] = NoPut PROVE PutStands(p)' BY <1>6 DEF PutStands, NoPut
<1> QED BY <1>2, <1>3, <1>4, <1>5, <1>6

LEMMA SameAnswers ==
  ASSUME FitInv, UNCHANGED <<rows, nextId, submissions, submitting>>
  PROVE  AnswersFit' /\ PendingStand'
<1> USE DEF FitInv, TemplatesInv
<1>1. QuestionsOf("task")' = QuestionsOf("task") BY DEF QuestionsOf
<1>2. AnswersFit' BY <1>1 DEF AnswersFit
<1>3. PendingStand'
  <2>1. ASSUME NEW u \in User PROVE Outdated(submitting[u])' <=> Outdated(submitting[u]) BY DEF Outdated
  <2>2. ASSUME NEW u \in User
        PROVE  Answering(QuestionsOf("task"), submitting[u])' <=> Answering(QuestionsOf("task"), submitting[u])
    BY <1>1 DEF Answering
  <2> QED BY <2>1, <2>2 DEF PendingStand
<1> QED BY <1>2, <1>3

\* A step of one put that leaves rows and answers alone.
LEMMA PutMoves ==
  ASSUME FitInv, UNCHANGED <<rows, nextId, has, submissions, submitting>>,
         NEW p \in Put, NEW state \in PutState, puts' = [puts EXCEPT ![p] = state], PutStands(p)'
  PROVE  FitInv'
<1>1. puts \in [Put -> PutState] /\ \A q \in Put \ {p} : puts'[q] = puts[q] BY DEF FitInv, TemplatesInv, TypesStand
<1>2. puts' \in [Put -> PutState] BY <1>1
<1>3. TypesStand' BY <1>2, SameRows DEF FitInv, TemplatesInv, TypesStand
<1>4. PutsStand' BY <1>1, SameRows DEF PutsStand
<1> QED BY <1>3, <1>4, SameRows, SameAnswers DEF FitInv, TemplatesInv

LEMMA BeginPutKeeps ==
  ASSUME FitInv, NEW p \in Put, BeginPut(p)
  PROVE  FitInv'
<1>1. UNCHANGED <<rows, nextId, has, submissions, submitting>> BY DEF BeginPut
<1>2. PICK owner \in Owner, body \in Bodies, existing \in BOOLEAN :
        /\ IF existing THEN owner \in has ELSE owner = "division"
        /\ puts' = [puts EXCEPT ![p] = [at |-> "read", owner |-> owner, body |-> body, existing |-> existing]]
  <2>1. CASE putForTask(p)
    <3>1. "task" \in Owner /\ "task" \in has /\ TRUE \in BOOLEAN BY <2>1 DEF Owner, putForTask
    <3>2. PICK body \in Bodies :
            puts' = [puts EXCEPT ![p] = [at |-> "read", owner |-> "task", body |-> body, existing |-> TRUE]]
      BY <2>1 DEF putForTask
    <3> QED BY <3>1, <3>2
  <2>2. CASE putForDivision(p)
    <3> DEFINE there == "division" \in has
    <3>1. "division" \in Owner /\ there \in BOOLEAN BY DEF Owner
    <3>2. PICK body \in Bodies :
            puts' = [puts EXCEPT ![p] = [at |-> "read", owner |-> "division", body |-> body, existing |-> there]]
      BY <2>2 DEF putForDivision
    <3>3. IF there THEN "division" \in has ELSE TRUE OBVIOUS
    <3> HIDE DEF there
    <3> QED BY <3>1, <3>2, <3>3
  <2> QED BY <2>1, <2>2 DEF BeginPut
<1> DEFINE state == [at |-> "read", owner |-> owner, body |-> body, existing |-> existing]
<1>3. state \in PutState BY DEF PutState
<1>4. puts'[p] = state BY <1>2 DEF FitInv, TemplatesInv, TypesStand
<1>5. PutStands(p)' BY <1>1, <1>2, <1>4 DEF PutStands
<1> HIDE DEF state
<1> QED BY <1>1, <1>2, <1>3, <1>5, PutMoves DEF state

LEMMA PutShape ==
  ASSUME TypesStand, NEW p \in Put, puts[p].at \in {"read", "deleting"}
  PROVE  puts[p].owner \in Owner /\ puts[p].body \in Bodies
<1>1. puts[p] \in PutState BY DEF TypesStand
<1> QED BY <1>1 DEF PutState, NoPut

LEMMA DeleteStartsKeeps ==
  ASSUME FitInv, NEW p \in Put, DeleteStarts(p)
  PROVE  FitInv'
<1> DEFINE state == [at |-> "deleting", owner |-> puts[p].owner, body |-> puts[p].body,
                     doomed |-> QuestionsOf(puts[p].owner)]
<1>1. /\ puts[p].at = "read" /\ puts[p].existing /\ puts' = [puts EXCEPT ![p] = state]
      /\ UNCHANGED <<rows, nextId, has, submissions, submitting>>
  BY DEF DeleteStarts
<1>2. puts[p].owner \in Owner /\ puts[p].body \in Bodies BY <1>1, PutShape DEF FitInv, TemplatesInv
<1>3. QuestionsOf(puts[p].owner) \subseteq rows /\ rows \subseteq Row
  BY DEF QuestionsOf, FitInv, TemplatesInv, TypesStand
<1>4. state \in PutState BY <1>2, <1>3 DEF PutState
<1>5. puts[p].owner \in has BY <1>1 DEF FitInv, TemplatesInv, PutsStand, PutStands
<1>6. \A r \in QuestionsOf(puts[p].owner) : r.id \in 1..nextId
  BY <1>3 DEF FitInv, TemplatesInv, RowsStand
<1>7. puts'[p] = state BY <1>1 DEF FitInv, TemplatesInv, TypesStand
<1>8. PutStands(p)' BY <1>1, <1>5, <1>6, <1>7 DEF PutStands, QuestionsOf
<1> HIDE DEF state
<1> QED BY <1>1, <1>4, <1>8, PutMoves

LEMMA PutEnds ==
  ASSUME FitInv, NEW p \in Put, puts' = [puts EXCEPT ![p] = NoPut]
  PROVE  puts' \in [Put -> PutState] /\ \A q \in Put : puts'[q] = puts[q] \/ puts'[q] = NoPut
<1>1. puts \in [Put -> PutState] /\ NoPut \in PutState BY DEF FitInv, TemplatesInv, TypesStand, PutState
<1> QED BY <1>1

\* A put that ends without a change of the rows.
LEMMA PutAborts ==
  ASSUME FitInv, NEW p \in Put, puts' = [puts EXCEPT ![p] = NoPut],
         UNCHANGED <<rows, nextId, has, submissions, submitting>>
  PROVE  FitInv'
<1>1. NoPut \in PutState /\ puts'[p] = NoPut BY DEF FitInv, TemplatesInv, TypesStand, PutState
<1>2. PutStands(p)' BY <1>1 DEF PutStands, NoPut
<1> QED BY <1>1, <1>2, PutMoves

LEMMA ReplaceKeeps ==
  ASSUME FitInv, NEW p \in Put, Replace(p)
  PROVE  FitInv'
<1>1. puts' = [puts EXCEPT ![p] = NoPut] /\ UNCHANGED <<has, submissions, submitting>> BY DEF Replace
<1>2. PutStands(p) BY DEF FitInv, TemplatesInv, PutsStand
<1>3. /\ puts[p].owner \in Owner /\ puts[p].body \in Bodies
      /\ \/ UNCHANGED <<rows, nextId>>
         \/ /\ Lays(puts[p].owner, puts[p].body)
            /\ ~RestrictsDelete({r.id : r \in QuestionsOf(puts[p].owner)})
  BY <1>2, ReplaceLays DEF FitInv, TemplatesInv
<1>4. CASE UNCHANGED <<rows, nextId>> BY <1>1, <1>4, PutAborts
<1>5. CASE /\ Lays(puts[p].owner, puts[p].body)
           /\ ~RestrictsDelete({r.id : r \in QuestionsOf(puts[p].owner)})
  BY <1>1, <1>3, <1>5, PutEnds, LaysKeeps
<1> QED BY <1>3, <1>4, <1>5

LEMMA CreateDefaultKeeps ==
  ASSUME FitInv, NEW p \in Put, CreateDefault(p)
  PROVE  FitInv'
<1>1. puts' = [puts EXCEPT ![p] = NoPut] /\ UNCHANGED <<submissions, submitting>> BY DEF CreateDefault
<1>2. PutStands(p) /\ "division" \in Owner BY DEF FitInv, TemplatesInv, PutsStand, Owner
<1>3. /\ puts[p].body \in Bodies
      /\ \/ UNCHANGED <<rows, nextId, has>>
         \/ /\ Lays("division", puts[p].body)
            /\ ~RestrictsDelete({r.id : r \in QuestionsOf("division")})
  BY <1>2, CreateDefaultLays DEF FitInv, TemplatesInv
<1>4. CASE UNCHANGED <<rows, nextId, has>> BY <1>1, <1>4, PutAborts
<1>5. CASE /\ Lays("division", puts[p].body)
           /\ ~RestrictsDelete({r.id : r \in QuestionsOf("division")})
  BY <1>1, <1>2, <1>3, <1>5, PutEnds, LaysKeeps
<1> QED BY <1>3, <1>4, <1>5

LEMMA CreateTaskKeeps ==
  ASSUME FitInv, CreateTask
  PROVE  FitInv'
<1>1. UNCHANGED <<puts, submissions, submitting>> BY DEF CreateTask
<1>2. PICK body \in Bodies \cup {<<>>} :
        Lays("task", body) /\ ~RestrictsDelete({r.id : r \in QuestionsOf("task")})
  BY CreateTaskLays DEF FitInv, TemplatesInv
<1>3. "task" \in Owner /\ puts' \in [Put -> PutState] BY <1>1 DEF Owner, FitInv, TemplatesInv, TypesStand
<1> QED BY <1>1, <1>2, <1>3, LaysKeeps


-----------------------------------------------------------------------------
(* Submitting *)

LEMMA BoundedIsSeq ==
  ASSUME NEW S, NEW n \in Nat, NEW s \in BoundedSeq(S, n)
  PROVE  s \in Seq(S)
<1>1. PICK m \in 0..n : s \in [1..m -> S] BY DEF BoundedSeq, SeqOf
<1> QED BY <1>1

LEMMA SeqOfMore ==
  ASSUME NEW S, NEW T, S \subseteq T, NEW s \in Seq(S)
  PROVE  s \in Seq(T)
<1>1. Len(s) \in Nat /\ s \in [1..Len(s) -> S] OBVIOUS
<1>2. s \in [1..Len(s) -> T] BY <1>1
<1> QED BY <1>1, <1>2

LEMMA AnswersAreReplies ==
  ASSUME TypesStand, NEW answers \in Answers
  PROVE  answers \in Seq(Reply)
<1> DEFINE asked == [question : 1..nextId, value : Value \cup {None}, files : BoundedSeq(File, 1)]
<1>1. answers \in Seq(asked) BY BoundedIsSeq, BoundAssumption DEF Answers
<1>2. asked \subseteq Reply
  <2>1. 1..nextId \subseteq Nat BY DEF TypesStand
  <2>2. BoundedSeq(File, 1) \subseteq Seq(File) BY BoundedIsSeq
  <2> QED BY <2>1, <2>2 DEF Reply
<1> HIDE DEF asked
<1> QED BY <1>1, <1>2, SeqOfMore

\* Steps that leave templates and writers alone.
LEMMA TemplatesUntouched ==
  ASSUME FitInv, UNCHANGED <<rows, nextId, has, puts>>,
         submissions' \in [User -> Seq(Version)], submitting' \in [User -> Seq(Reply) \cup {None}]
  PROVE  TemplatesInv'
<1>1. TypesStand' BY SameRows DEF FitInv, TemplatesInv, TypesStand
<1>2. PutsStand' BY SameRows DEF PutsStand
<1> QED BY <1>1, <1>2, SameRows DEF TemplatesInv

LEMMA SameTemplate ==
  ASSUME UNCHANGED <<rows, nextId>>, NEW answers
  PROVE  /\ QuestionsOf("task")' = QuestionsOf("task")
         /\ Answering(QuestionsOf("task"), answers)' <=> Answering(QuestionsOf("task"), answers)
         /\ Outdated(answers)' <=> Outdated(answers)
BY DEF QuestionsOf, Answering, Outdated

LEMMA BeginSubmitKeeps ==
  ASSUME FitInv, NEW u \in User, BeginSubmit(u)
  PROVE  FitInv'
<1>1. PICK answers \in Answers :
        /\ validateSubmission(QuestionsOf("task"), answers) = {}
        /\ submitting' = [submitting EXCEPT ![u] = answers]
  BY DEF BeginSubmit
<1>2. UNCHANGED <<rows, nextId, has, puts, submissions>> BY DEF BeginSubmit
<1>3. answers \in Seq(Reply) BY AnswersAreReplies DEF FitInv, TemplatesInv
<1>4. /\ submitting \in [User -> Seq(Reply) \cup {None}] /\ submissions \in [User -> Seq(Version)]
      /\ rows \subseteq Row
  BY DEF FitInv, TemplatesInv, TypesStand
<1>5. submitting' \in [User -> Seq(Reply) \cup {None}] BY <1>1, <1>3, <1>4
<1>6. TemplatesInv' BY <1>2, <1>4, <1>5, TemplatesUntouched
<1>7. \A r \in QuestionsOf("task") : r.q.type \in Type
  <2>1. \A q \in Question : q.type \in Type BY BodiesAssumption DEF Question
  <2>2. \A r \in rows : r.q \in Question BY <1>4 DEF Row
  <2> QED BY <2>1, <2>2 DEF QuestionsOf
<1>8. Answering(QuestionsOf("task"), answers) BY <1>1, <1>3, <1>7, ValidIsAnswering
<1>9. AnswersFit'
  <2>1. QuestionsOf("task")' = QuestionsOf("task") BY <1>2, SameTemplate
  <2> QED BY <2>1, <1>2 DEF FitInv, AnswersFit
<1>10. PendingStand'
  <2>1. ASSUME NEW v \in User, submitting'[v] # None /\ submitting'[v] # <<>>
        PROVE  Answering(QuestionsOf("task")', submitting'[v])
               \/ \A a \in ToSet(submitting'[v]) : a.question \in 1..nextId' /\ \A r \in rows' : r.id # a.question
    <3>1. CASE v = u
      <4>1. submitting'[v] = answers BY <3>1, <1>1, <1>4
      <4> QED BY <4>1, <1>2, <1>8, SameTemplate
    <3>2. CASE v # u
      <4>1. submitting'[v] = submitting[v] BY <3>2, <1>1, <1>4
      <4>2. Answering(QuestionsOf("task"), submitting[v]) \/ Outdated(submitting[v])
        BY <4>1, <2>1 DEF FitInv, PendingStand
      <4> QED BY <4>1, <4>2, <1>2, SameTemplate DEF Outdated
    <3> QED BY <3>1, <3>2
  <2> QED BY <2>1 DEF PendingStand, Answering, Outdated
<1> QED BY <1>6, <1>9, <1>10 DEF FitInv

LEMMA AppendCases ==
  ASSUME NEW S, NEW s \in Seq(S), NEW e \in S, NEW i \in DOMAIN Append(s, e)
  PROVE  (i \in DOMAIN s /\ Append(s, e)[i] = s[i]) \/ Append(s, e)[i] = e
OBVIOUS

\* The write finds a question of each answer, so the template is the one the answers
\* were validated against.
LEMMA SubmitKeeps ==
  ASSUME FitInv, NEW u \in User, submit(u)
  PROVE  FitInv'
<1> DEFINE answers == submitting[u]
           version == [state |-> "review", life |-> "active", answers |-> answers]
<1>1. /\ submitting[u] # None /\ submitting' = [submitting EXCEPT ![u] = None]
      /\ UNCHANGED <<rows, nextId, has, puts>>
      /\ \/ UNCHANGED submissions
         \/ /\ \A a \in ToSet(answers) : \E r \in rows : r.id = a.question
            /\ submissions' = [submissions EXCEPT ![u] = Append(@, version)]
  BY DEF submit, MaySubmit
<1>2. submitting \in [User -> Seq(Reply) \cup {None}] /\ submissions \in [User -> Seq(Version)]
  BY DEF FitInv, TemplatesInv, TypesStand
<1>3. answers \in Seq(Reply) BY <1>1, <1>2
<1>4. version \in Version /\ version.answers = answers BY <1>3 DEF Version
<1> HIDE DEF version, answers
<1>5. submissions' \in [User -> Seq(Version)]
  <2>1. Append(submissions[u], version) \in Seq(Version) BY <1>2, <1>4
  <2> QED BY <2>1, <1>1, <1>2
<1>6. submitting' \in [User -> Seq(Reply) \cup {None}] BY <1>1, <1>2
<1>7. TemplatesInv' BY <1>1, <1>5, <1>6, TemplatesUntouched
<1>8. PendingStand'
  <2>1. ASSUME NEW v \in User, submitting'[v] # None /\ submitting'[v] # <<>>
        PROVE  Answering(QuestionsOf("task")', submitting'[v])
               \/ \A a \in ToSet(submitting'[v]) : a.question \in 1..nextId' /\ \A r \in rows' : r.id # a.question
    <3>1. v # u /\ submitting'[v] = submitting[v] BY <1>1, <1>2, <2>1
    <3>2. Answering(QuestionsOf("task"), submitting[v]) \/ Outdated(submitting[v])
      BY <3>1, <2>1 DEF FitInv, PendingStand
    <3> QED BY <3>1, <3>2, <1>1, SameTemplate DEF Outdated
  <2> QED BY <2>1 DEF PendingStand, Answering, Outdated
<1>9. CASE UNCHANGED submissions
  <2>1. QuestionsOf("task")' = QuestionsOf("task") BY <1>1, SameTemplate
  <2>2. AnswersFit' BY <2>1, <1>9 DEF FitInv, AnswersFit
  <2> QED BY <2>2, <1>7, <1>8 DEF FitInv
<1>10. CASE /\ \A a \in ToSet(answers) : \E r \in rows : r.id = a.question
            /\ submissions' = [submissions EXCEPT ![u] = Append(@, version)]
  <2>1. answers # <<>> => Answering(QuestionsOf("task"), answers)
    <3> SUFFICES ASSUME answers # <<>> PROVE Answering(QuestionsOf("task"), answers) OBVIOUS
    <3>1. Answering(QuestionsOf("task"), answers) \/ Outdated(answers)
      BY <1>1 DEF FitInv, PendingStand, answers
    <3>2. PICK a \in ToSet(answers) : a \in Reply BY <1>3, ReplyNames
    <3>3. ~Outdated(answers) BY <1>10, <3>2 DEF Outdated
    <3> QED BY <3>1, <3>3
  <2>2. ASSUME NEW v \in User, NEW i \in DOMAIN submissions'[v], submissions'[v][i].answers # <<>>
        PROVE  Answering(QuestionsOf("task"), submissions'[v][i].answers)
    <3>1. CASE v \in User /\ i \in DOMAIN submissions[v] /\ submissions'[v][i] = submissions[v][i]
      BY <3>1, <2>2, FitMeansAnswering DEF FitInv
    <3>2. CASE v = u /\ submissions'[v][i] = version BY <3>2, <2>1, <2>2, <1>4
    <3>3. CASE v # u
      <4>1. submissions'[v] = submissions[v] BY <3>3, <1>2, <1>10
      <4> QED BY <4>1, <3>1, <2>2
    <3>4. CASE v = u
      <4>1. submissions[u] \in Seq(Version) /\ submissions'[u] = Append(submissions[u], version)
        BY <1>2, <1>10
      <4>2. \/ i \in DOMAIN submissions[u] /\ submissions'[u][i] = submissions[u][i]
            \/ submissions'[u][i] = version
        BY <4>1, <3>4, <1>4, AppendCases
      <4> QED BY <4>2, <3>1, <3>2, <3>4
    <3> QED BY <3>3, <3>4
  <2>3. QuestionsOf("task")' = QuestionsOf("task") BY <1>1, SameTemplate
  <2>4. AnswersFit' BY <2>2, <2>3 DEF AnswersFit, Answering
  <2> QED BY <2>4, <1>7, <1>8 DEF FitInv
<1> QED BY <1>1, <1>9, <1>10

\* A review and a retirement leave the answers.
LEMMA SameAnswersOfVersions ==
  ASSUME FitInv, NEW u \in User, NEW i \in DOMAIN submissions[u], NEW version \in Version,
         version.answers = submissions[u][i].answers,
         submissions' = [submissions EXCEPT ![u][i] = version],
         UNCHANGED <<rows, nextId, has, puts, submitting>>
  PROVE  FitInv'
<1>1. submitting \in [User -> Seq(Reply) \cup {None}] /\ submissions \in [User -> Seq(Version)]
  BY DEF FitInv, TemplatesInv, TypesStand
<1>2. submissions[u] \in Seq(Version) BY <1>1
<1>3. [submissions[u] EXCEPT ![i] = version] \in Seq(Version) BY <1>2
<1>4. submissions' = [submissions EXCEPT ![u] = [submissions[u] EXCEPT ![i] = version]] BY <1>1
<1>5. submissions' \in [User -> Seq(Version)] BY <1>1, <1>3, <1>4
<1>6. TemplatesInv' BY <1>1, <1>5, TemplatesUntouched
<1>7. ASSUME NEW v \in User, NEW j \in DOMAIN submissions'[v]
      PROVE  j \in DOMAIN submissions[v] /\ submissions'[v][j].answers = submissions[v][j].answers
  <2>1. CASE v # u BY <2>1, <1>1, <1>4
  <2>2. CASE v = u
    <3>1. submissions'[u] = [submissions[u] EXCEPT ![i] = version] BY <1>1, <1>4
    <3>2. j \in DOMAIN submissions[u] BY <3>1, <2>2
    <3>3. submissions'[u][j] = IF j = i THEN version ELSE submissions[u][j] BY <3>1, <3>2
    <3> QED BY <3>2, <3>3, <2>2
  <2> QED BY <2>1, <2>2
<1>8. QuestionsOf("task")' = QuestionsOf("task") BY SameTemplate
<1>9. ASSUME NEW v \in User, NEW j \in DOMAIN submissions'[v], submissions'[v][j].answers # <<>>
      PROVE  Answering(QuestionsOf("task"), submissions'[v][j].answers)
  BY <1>7, <1>9, FitMeansAnswering DEF FitInv
<1>10. AnswersFit' BY <1>8, <1>9 DEF AnswersFit, Answering
<1>11. PendingStand'
  <2>1. ASSUME NEW v \in User, submitting[v] # None /\ submitting[v] # <<>>
        PROVE  (Answering(QuestionsOf("task"), submitting[v]) \/ Outdated(submitting[v]))'
    <3>1. Answering(QuestionsOf("task"), submitting[v]) \/ Outdated(submitting[v])
      BY <2>1 DEF FitInv, PendingStand
    <3> QED BY <3>1, <1>8 DEF Outdated, Answering
  <2> QED BY <2>1 DEF PendingStand
<1> QED BY <1>6, <1>10, <1>11 DEF FitInv

LEMMA VersionMoves ==
  ASSUME NEW v \in Version
  PROVE  /\ \A s \in {"review", "revising", "decided"} :
              [v EXCEPT !.state = s] \in Version /\ [v EXCEPT !.state = s].answers = v.answers
         /\ [v EXCEPT !.life = "retired"] \in Version /\ [v EXCEPT !.life = "retired"].answers = v.answers
BY DEF Version

LEMMA ReviewKeeps ==
  ASSUME FitInv, NEW u \in User, Review(u) \/ retireSubmission(u)
  PROVE  FitInv'
<1>1. CASE Review(u)
  <2>1. PICK i \in DOMAIN submissions[u], state \in {"revising", "decided"} :
          /\ submissions' = [submissions EXCEPT ![u][i].state = state]
          /\ UNCHANGED <<rows, nextId, has, puts, submitting>>
    BY <1>1 DEF Review
  <2> DEFINE version == [submissions[u][i] EXCEPT !.state = state]
  <2>2. submissions[u][i] \in Version BY AnswersOf DEF FitInv, TemplatesInv
  <2>3. version \in Version /\ version.answers = submissions[u][i].answers BY <2>2, VersionMoves
  <2>4. submissions' = [submissions EXCEPT ![u][i] = version] BY <2>1
  <2>5. UNCHANGED <<rows, nextId, has, puts, submitting>> BY <2>1
  <2> HIDE DEF version
  <2> QED BY <2>3, <2>4, <2>5, SameAnswersOfVersions
<1>2. CASE retireSubmission(u)
  <2>1. PICK i \in DOMAIN submissions[u] :
          /\ submissions' = [submissions EXCEPT ![u][i].life = "retired"]
          /\ UNCHANGED <<rows, nextId, has, puts, submitting>>
    BY <1>2 DEF retireSubmission
  <2> DEFINE version == [submissions[u][i] EXCEPT !.life = "retired"]
  <2>2. submissions[u][i] \in Version BY AnswersOf DEF FitInv, TemplatesInv
  <2>3. version \in Version /\ version.answers = submissions[u][i].answers BY <2>2, VersionMoves
  <2>4. submissions' = [submissions EXCEPT ![u][i] = version] BY <2>1
  <2>5. UNCHANGED <<rows, nextId, has, puts, submitting>> BY <2>1
  <2> HIDE DEF version
  <2> QED BY <2>3, <2>4, <2>5, SameAnswersOfVersions
<1> QED BY <1>1, <1>2

\* Files are not looked at again once the answers are validated.
LEMMA FilesAside ==
  ASSUME FitInv, UNCHANGED <<rows, nextId, has, puts, submissions, submitting>>
  PROVE  FitInv'
<1>1. TemplatesInv' BY TemplatesUntouched DEF FitInv, TemplatesInv, TypesStand
<1> QED BY <1>1, SameAnswers DEF FitInv

-----------------------------------------------------------------------------

LEMMA FitInit == Init => FitInv
<1> SUFFICES ASSUME Init PROVE FitInv OBVIOUS
<1>1. TypesStand BY DEF Init, TypesStand, PutState
<1>2. RowsStand BY DEF Init, RowsStand
<1>3. PutsStand BY DEF Init, PutsStand, PutStands, NoPut
<1>4. WholeTemplates
  <2>1. \A owner : {<<r.ordinal, r.q, r.of>> : r \in QuestionsOf(owner)} = {} BY DEF Init, QuestionsOf
  <2>2. {<<i - 1, <<>>[i], <<>>>> : i \in DOMAIN <<>>} = {} OBVIOUS
  <2> QED BY <2>1, <2>2 DEF WholeTemplates
<1>5. AnswersFit BY DEF Init, AnswersFit
<1>6. PendingStand BY DEF Init, PendingStand
<1> QED BY <1>1, <1>2, <1>3, <1>4, <1>5, <1>6 DEF FitInv, TemplatesInv

LEMMA FitStep == FitInv /\ [Next]_vars => FitInv'
<1> SUFFICES ASSUME FitInv, [Next]_vars PROVE FitInv' OBVIOUS
<1>1. ASSUME NEW p \in Put, BeginPut(p) PROVE FitInv' BY <1>1, BeginPutKeeps
<1>2. ASSUME NEW p \in Put, DeleteStarts(p) PROVE FitInv' BY <1>2, DeleteStartsKeeps
<1>3. ASSUME NEW p \in Put, Replace(p) PROVE FitInv' BY <1>3, ReplaceKeeps
<1>4. ASSUME NEW p \in Put, CreateDefault(p) PROVE FitInv' BY <1>4, CreateDefaultKeeps
<1>5. CASE CreateTask BY <1>5, CreateTaskKeeps
<1>6. ASSUME NEW u \in User, BeginSubmit(u) PROVE FitInv' BY <1>6, BeginSubmitKeeps
<1>7. ASSUME NEW u \in User, submit(u) PROVE FitInv' BY <1>7, SubmitKeeps
<1>8. ASSUME NEW u \in User, Review(u) \/ retireSubmission(u) PROVE FitInv' BY <1>8, ReviewKeeps
<1>9. ASSUME NEW f \in File, RetireFile(f) \/ ReviveFile(f) PROVE FitInv'
  BY <1>9, FilesAside DEF RetireFile, ReviveFile
<1>10. CASE UNCHANGED vars BY <1>10, FilesAside DEF vars
<1> QED BY <1>1, <1>2, <1>3, <1>4, <1>5, <1>6, <1>7, <1>8, <1>9, <1>10 DEF Next

\* The types and all the relations above hold of any users, writers, files and lists
\* of questions (request-templates.service.ts, submissions.service.ts).
THEOREM FitKept == Spec => []FitInv
BY FitInit, FitStep, PTL DEF Spec

\* However many puts overlap, the questions of a template are one list that somebody
\* sent, whole and in order (request-templates.service.ts:97-108, 185-198).
THEOREM TemplatesAreWhole == Spec => []WholeTemplates
<1>1. FitInv => WholeTemplates BY DEF FitInv, TemplatesInv
<1> QED BY <1>1, FitKept, PTL

\* No edit of a template orphans an answer: whatever puts, submissions, reviews and
\* retirements overlap, each version with an answer answers the questions that are
\* there now, as their constraints want (submissions.service.ts:138-180,
\* request-templates.service.ts:85-95).
THEOREM AnswersKeepFitting == Spec => []AnswersFit
<1>1. FitInv => AnswersFit BY DEF FitInv
<1> QED BY <1>1, FitKept, PTL
=============================================================================
