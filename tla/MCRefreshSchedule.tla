-------------------------- MODULE MCRefreshSchedule --------------------------
(* RefreshSchedule for TLC with the durations of main.go in units of 15 s.    *)
EXTENDS RefreshSchedule

\* Tokens that are about to expire, that just do and just do not leave room
\* for the shortest sleep and the margin, and that outlive the longest sleep.
MCLifetimes == {0, 2, 11, 12, 13, 60, 128, 140}

\* Live tokens only: one with half a minute left and one with a quarter of an
\* hour.
MCNearExpiry == {2, 60}
=============================================================================
