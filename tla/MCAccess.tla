------------------------------ MODULE MCAccess ------------------------------
(* Two users and a daemon that is started again, for TLC.                   *)
EXTENDS Client, TLC

Config(mode, window, source, cert) ==
  [mode |-> mode, window |-> window, keySource |-> source, cert |-> cert, certsFile |-> TRUE]
\* a certs file with the default window and with the window turned off; no
\* authentication and no certs file; two configurations that are refused
Configs ==
  {Config("certs-file", 0, "embedded", 1), Config("certs-file", -1, "", 0),
   [Config("", 0, "", 0) EXCEPT !.certsFile = FALSE],
   Config("other", 0, "", 0), Config("", 0, "embedded", 0)}
\* one line is in the file, and one user has a key pair, the same or another one
OneLine == {<<Line(k, TRUE)>> : k \in Keys}
OnePair == {[u \in Users |-> IF u = v THEN k ELSE None] : v \in Users, k \in Keys}
AllHostFaults == {"rand", "open", "read", "write"}
Symmetry == Permutations(Users) \cup Permutations(Keys)
=============================================================================
