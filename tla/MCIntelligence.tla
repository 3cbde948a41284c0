--------------------------- MODULE MCIntelligence ---------------------------
(* The two halves of the intelligence worker's loop. They share no variable, *)
(* so a behaviour of the model moves one of them, its part.                  *)
EXTENDS ContinuousLearning, AssessmentReviews

VARIABLE part

\* One model of a lot's own outcome and one of the next lot's.
TwoModels == <<"final_yield_post_cmp", "next_lot_excursion_alarm_risk">>

\* A case of the newest lot, one of the oldest, and one in between.
LotsOfCases == <<3, 1, 2>>

allVars == <<vars, reviewVars, part>>

AllInit ==
    /\ part \in {"learning", "reviews"}
    /\ Init /\ ReviewsInit
    /\ part = "learning" => Existing(signature) = {}

Learning(Step) == part = "learning" /\ Step /\ UNCHANGED <<reviewVars, part>>
Reviews(Step) == part = "reviews" /\ Step /\ UNCHANGED <<vars, part>>

AllNext == Learning(Next) \/ Reviews(ReviewsNext)

\* The loop goes on whatever a cycle ends with, and time passes.
AllSpec ==
    /\ AllInit /\ [][AllNext]_allVars
    /\ WF_allVars(Learning(WorkerStep))
    /\ WF_allVars(Reviews(ReviewStep))
    /\ \A c \in Case : WF_allVars(Reviews(IntervalPasses(c)))
=============================================================================
