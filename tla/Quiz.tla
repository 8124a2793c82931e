-------------------------------- MODULE Quiz ---------------------------------
(***************************************************************************)
(* Exercise1: questions in categories, shown at random but never the one   *)
(* just shown; then its answer.                                            *)
(***************************************************************************)
EXTENDS FiniteSets, Integers

CONSTANTS
    Category,   \* Category[q]: the category of question q
    None

VARIABLES
    currentQuestion,
    previous,       \* history: the question before it
    answerShown     \* the button "show answer" is enabled iff it is not

vars == <<currentQuestion, previous, answerShown>>

\* grabRandomQuestionGivenCategory:withPriorQuestion:, of which one is taken at random.
Questions(category, last) == {q \in DOMAIN Category : Category[q] = category /\ q # last}

ShowQuestionPressed(category) ==
    /\ currentQuestion' \in Questions(category, currentQuestion)
    /\ previous' = currentQuestion
    /\ answerShown' = FALSE

ShowAnswerPressed ==
    /\ currentQuestion # None /\ ~answerShown
    /\ answerShown' = TRUE
    /\ UNCHANGED <<currentQuestion, previous>>

Init == currentQuestion = None /\ previous = None /\ answerShown = FALSE

Categories == {Category[q] : q \in DOMAIN Category}

Next ==
    \/ \E category \in Categories : ShowQuestionPressed(category)
    \/ ShowAnswerPressed
-----------------------------------------------------------------------------
TypeOK ==
    /\ {currentQuestion, previous} \subseteq DOMAIN Category \union {None}
    /\ answerShown \in BOOLEAN

\* Whatever the category, there is a question to show (the remainder is not by zero), and it
\* is not the one shown before.
AnotherQuestion ==
    /\ \A category \in Categories : Questions(category, currentQuestion) # {}
    /\ currentQuestion # None => currentQuestion # previous
=============================================================================
