----------------------------- MODULE ReviewQueue -----------------------------
(***************************************************************************)
(* The human review queue: enqueue_review, next_review and answer_review   *)
(* of the store, the last as "review answer" of the command line uses it:  *)
(* it reads the review, checks that the signed decision is about its       *)
(* question and its evidence, and stores the decision in a second          *)
(* transaction.  The UPDATE of one row and its commit are one step, for a  *)
(* concurrent UPDATE waits and then looks at the status again.             *)
(***************************************************************************)
EXTENDS Session

CONSTANTS
    Questions,     \* questions with the hash of their evidence
    Decisions,     \* verdicts
    NoReview,
    NoDecision,
    ReviewOps

\* No more reviews are asked for than calls made.
ReviewIds == 1..MaxCalls

ReviewRows == [question : Questions, decision : Decisions \cup {NoDecision}]

ReviewCalls ==
  /\ NoDecision \notin Decisions /\ NoReview \notin ReviewRows
  /\ ReviewOps \subseteq [op : {"ask", "answer"}, question : Questions, review : ReviewIds,
                          decision : Decisions]

VARIABLES
    reviews,       \* reviews[i]: the committed review with id i
    drawn,         \* drawn[s]: the id the open insert of s has drawn
    nextReview,    \* the next id
    accepted       \* history: the decisions whose callers were told "answered"

reviewVars == <<reviews, drawn, nextReview, accepted, sessionVars>>

ReviewsInit ==
  /\ reviews = [i \in ReviewIds |-> NoReview]
  /\ drawn = [s \in Sessions |-> 0]
  /\ nextReview = 1
  /\ accepted = {}

ReviewInit == ReviewsInit /\ SessionInit

LeaveReview(s) ==
  /\ End(s)
  /\ drawn' = [drawn EXCEPT ![s] = 0]
  /\ UNCHANGED <<reviews, nextReview, accepted>>

InsertReview(s) ==
  /\ At(s, "begun", "ask")
  /\ drawn' = [drawn EXCEPT ![s] = nextReview]
  /\ nextReview' = nextReview + 1
  /\ Goto(s, "inserted")
  /\ UNCHANGED <<reviews, accepted>>

CommitReview(s) ==
  /\ At(s, "inserted", "ask")
  /\ reviews' = [reviews EXCEPT ![drawn[s]] =
                   [question |-> call[s].question, decision |-> NoDecision]]
  /\ End(s)
  /\ drawn' = [drawn EXCEPT ![s] = 0]
  /\ UNCHANGED <<nextReview, accepted>>

\* Mutant of AboutReview: the decision is stored under the id it names.
AnyReview(s) == reviews[call[s].review] # NoReview

\* The review exists, and the decision is about its question and evidence.
AboutReview(s) ==
  /\ reviews[call[s].review] # NoReview
  /\ reviews[call[s].review].question = call[s].question

ReadReview(s) ==
  /\ At(s, "begun", "answer")
  /\ AboutReview(s)
  /\ Goto(s, "checked")
  /\ UNCHANGED <<reviews, drawn, nextReview, accepted>>

AnswerRefused(s) == At(s, "begun", "answer") /\ ~AboutReview(s) /\ LeaveReview(s)

\* Mutant of Pending: the status is not part of the condition.
Stored(s) == reviews[call[s].review] # NoReview

\* The condition of the UPDATE.
Pending(s) ==
  /\ reviews[call[s].review] # NoReview
  /\ reviews[call[s].review].decision = NoDecision

CommitAnswer(s) ==
  /\ At(s, "checked", "answer")
  /\ Pending(s)
  /\ reviews' = [reviews EXCEPT ![call[s].review].decision = call[s].decision]
  /\ accepted' = accepted \cup {call[s]}
  /\ End(s)
  /\ UNCHANGED <<drawn, nextReview>>

AlreadyAnswered(s) == At(s, "checked", "answer") /\ ~Pending(s) /\ LeaveReview(s)

AbortReview(s) == pc[s] # "idle" /\ LeaveReview(s)

ReviewStatement(s) ==
  \/ InsertReview(s) \/ CommitReview(s) \/ ReadReview(s) \/ AnswerRefused(s)
  \/ CommitAnswer(s) \/ AlreadyAnswered(s)

ReviewNext ==
  \E s \in Sessions :
    \/ \E c \in ReviewOps : Begin(s, c) /\ UNCHANGED <<reviews, drawn, nextReview, accepted>>
    \/ ReviewStatement(s) \/ AbortReview(s)

ReviewSpec == ReviewInit /\ [][ReviewNext]_reviewVars

-----------------------------------------------------------------------------
(* Properties *)

\* A reviewer who was told "answered" is right: the decision in the queue is
\* the one of that reviewer, about the question reviewed, for good
\* (test_review_queue_is_fifo_and_decisions_are_immutable).
DecisionsStand ==
  \A c \in accepted :
    reviews[c.review] = [question |-> c.question, decision |-> c.decision]

=============================================================================
