------------------------------- MODULE MCBoot -------------------------------
(* One silo that boots, for TLC: every kind of request, every failure.      *)
EXTENDS Boot, TLC

AllFaults == SetupFaults \cup TeardownFaults
AllRequests == [inet : BOOLEAN, limits : BOOLEAN]
=============================================================================
