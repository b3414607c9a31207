-------------------------- MODULE MCQuestionnaires --------------------------
(* A claimant, two writers, one file, and a question of every family *)
EXTENDS Questionnaires

CONSTANTS u1, p1, p2, image

TextQuestion ==
  [type |-> "text", required |-> TRUE, constraints |-> [minChars |-> 1, maxChars |-> 3]]
NumberQuestion ==
  [type |-> "numeric", required |-> FALSE, constraints |-> [kind |-> "integer", min |-> 1, max |-> None]]
ChoiceQuestion ==
  [type |-> "choice", required |-> TRUE,
   constraints |-> [multi |-> FALSE, options |-> {"red"}, minSelect |-> None, maxSelect |-> 1]]
FileQuestion ==
  [type |-> "attachment", required |-> FALSE, constraints |-> [allowedTypes |-> {"image"}, maxFiles |-> 1]]

MCBodies ==
  {<<>>, <<TextQuestion>>, <<NumberQuestion, FileQuestion>>, <<ChoiceQuestion>>,
   <<[TextQuestion EXCEPT !.constraints.minChars = 4]>>}

\* "red" and 2, as an answer may carry them.
MCValue ==
  {[text |-> [length |-> 3, blank |-> FALSE], number |-> [n |-> 0, whole |-> FALSE, finite |-> FALSE], list |-> None, option |-> "red"],
   [text |-> [length |-> 1, blank |-> FALSE], number |-> [n |-> 2, whole |-> TRUE, finite |-> TRUE], list |-> None, option |-> "2"]}

MCFileTypes == [f \in File |-> {"image", "image/png"}]

Symmetry == Permutations(Put)
=============================================================================
