----------------------------- MODULE MCGuiEngine ------------------------------
(* Instances of GuiEngine for TLC.                                          *)
EXTENDS GuiEngine

Nothing == [patient |-> FALSE, pings |-> FALSE, leftover |-> FALSE, partial |-> FALSE,
            closing |-> FALSE, relaunch |-> FALSE]

\* One connection after another, with keepalive, until the window is closed.
Calm == [Nothing EXCEPT !.patient = TRUE, !.pings = TRUE, !.closing = TRUE]

\* Two clicks on Connect before the first status.
Twice == Nothing

\* What was left behind, a failed setup, a second launch.
Odd == [Nothing EXCEPT !.patient = TRUE, !.leftover = TRUE, !.partial = TRUE,
                       !.relaunch = TRUE]

MCScenes == {Calm, Twice, Odd}

OnlyCalm  == {Calm}
OnlyTwice == {Twice}
OnlyOdd   == {Odd}
=============================================================================
