---------------------------- MODULE MCPayoutRouting ----------------------------
(* Two processes that are restarted under the other of two providers.      *)
EXTENDS PayoutRouting

CONSTANTS p1, p2

TwoProcesses == {p1, p2}
TwoSettings == {"yellowcard", "breet"}
=============================================================================
