-------------------------- MODULE MCBrainPipeline --------------------------
\* The instances of BrainPipeline TLC explores, each aimed at one question.
EXTENDS BrainPipeline

Small == [objectives |-> 1, pipes |-> 2, groups |-> 0, plans |-> 1, asks |-> 4, pauses |-> 0,
          crashes |-> 0, tries |-> 0, rounds |-> 2, replans |-> 1, supervised |-> FALSE,
          slowCancel |-> FALSE]

\* A pause, a resume and another pause around the awaits of a pipeline.
Pauses == [Small EXCEPT !.pauses = 2, !.tries = 1, !.slowCancel = TRUE]
\* Questions of two revisions of an objective, with three pipelines or a pause.
Questions == [Small EXCEPT !.objectives = 2, !.pipes = 3, !.groups = 2, !.asks = 1,
                           !.supervised = TRUE]
PausedQuestions == [Small EXCEPT !.objectives = 2, !.groups = 2, !.asks = 1, !.pauses = 1]
\* Failures of missions that ask for replans.
Failures == [Small EXCEPT !.pipes = 4, !.plans = 3, !.rounds = 0, !.asks = 2]
\* Answers, a pause and a crash between the transactions of an answer.
Crashes == [Small EXCEPT !.pipes = 3, !.groups = 2, !.pauses = 1, !.crashes = 1,
                         !.supervised = TRUE]

AllInstances == {Pauses, Questions, PausedQuestions, Failures, Crashes}
=============================================================================
