------------------------------- MODULE Client -------------------------------
(***************************************************************************)
(* colex-cli (colexd/colex-cli/main.go, certpin.go) against the daemon of  *)
(* module Auth: the files it keeps in ~/.colex, and one command from the   *)
(* prompt to the reply.  A user runs one command at a time; it may be      *)
(* killed at any point, also in the middle of writing a file, which then   *)
(* is Torn.                                                                *)
(*                                                                         *)
(* home[u] holds cert.pem and key.pem, each as the key pair it belongs to, *)
(* and the pinned certificate of the server.  proc[u] is the command:      *)
(*   load, mintCert, mintKey   getClientCert                               *)
(*   connect                   VerifyPeerCertificate                       *)
(*   check                     ServeHTTP: checkAuthorized, no lock held    *)
(*   handle                    the handler, under Server.lock              *)
(*   reply                     the answer is on its way                    *)
(***************************************************************************)
EXTENDS Auth

CONSTANTS
  Users,
  Torn,        \* the content of a file whose write was cut short
  KeyPairs     \* who may have a key pair to begin with

ASSUME ClientAssumption ==
  /\ Torn \notin Keys /\ None # Torn
  /\ KeyPairs \subseteq [Users -> Keys \cup {None}]

VARIABLES
  home,      \* the files of each user
  proc,      \* the command each user runs
  enrolled   \* the key for which a user was told that it is enrolled, until the
             \* administrator takes its last line out of the certs file; or None

clientVars == <<home, proc, enrolled>>
vars == <<authVars, clientVars>>

Commands == {"enroll", "enable-enroll", "silos"}   \* silos: up, down, list, set-host
Idle == [pc |-> "idle", cmd |-> "silos", code |-> 0, key |-> None, ok |-> FALSE,
         revoked |-> FALSE]

Init ==
  /\ AuthInit
  /\ \E pair \in KeyPairs : home = [u \in Users |-> [cert |-> pair[u], key |-> pair[u], pin |-> 0]]
  /\ proc = [u \in Users |-> Idle]
  /\ enrolled = [u \in Users |-> None]

\* The codes a user can have, of the log or of a reply to enable-enroll; who has
\* none leaves the prompt empty.
KnownCodes == IF config.mode = "open" \/ codes = 0 THEN {0} ELSE 1..codes

UnusedKeys == Keys \ UNION {{home[u].cert, home[u].key} : u \in Users}

(***************************************************************************)
(* Actions.                                                                *)
(***************************************************************************)
At(u, pc) == proc[u].pc = pc
Goto(u, pc) == proc' = [proc EXCEPT ![u].pc = pc]
Quit(u) == proc' = [proc EXCEPT ![u] = Idle]

Run(u, cmd, code) ==
  /\ At(u, "idle")
  /\ proc' = [proc EXCEPT ![u] = [Idle EXCEPT !.pc = "load", !.cmd = cmd, !.code = code]]
  /\ UNCHANGED <<authVars, home, enrolled>>

\* a pair that cannot be parsed is presented all the same
LoadPairUnchecked(u) ==
  LET h == home[u]
  IN  /\ At(u, "load")
      /\ IF h.cert = None \/ h.key = None THEN Goto(u, "mintCert")
         ELSE proc' = [proc EXCEPT ![u].pc = "connect", ![u].key = h.key]
      /\ UNCHANGED <<authVars, home, enrolled>>

\* Both files are read before either is looked at: one that is missing is the
\* reason to make a new pair, one that cannot be parsed is an error.
LoadPair(u) ==
  LET h == home[u]
  IN  /\ At(u, "load")
      /\ IF h.cert = None \/ h.key = None THEN Goto(u, "mintCert")
         ELSE IF h.cert # h.key \/ h.cert = Torn THEN Quit(u)
         ELSE proc' = [proc EXCEPT ![u].pc = "connect", ![u].key = h.key]
      /\ UNCHANGED <<authVars, home, enrolled>>

\* cert.pem of a pair that nobody has; the new key.pem replaces an old one
MintCert(u) ==
  /\ At(u, "mintCert")
  /\ \E k \in UnusedKeys :
       /\ home' = [home EXCEPT ![u].cert = k]
       /\ proc' = [proc EXCEPT ![u].pc = "mintKey", ![u].key = k]
  /\ UNCHANGED <<authVars, enrolled>>

MintKey(u) ==
  /\ At(u, "mintKey")
  /\ home' = [home EXCEPT ![u].key = proc[u].key]
  /\ Goto(u, "load")
  /\ UNCHANGED <<authVars, enrolled>>

\* A first contact is put to the user; pin 0 is no file, -1 a torn one.
Connect(u) ==
  /\ At(u, "connect")
  /\ \/ /\ daemon.up /\ home[u].pin \in {0, daemon.cert}
        /\ home' = [home EXCEPT ![u].pin = daemon.cert]
        /\ Goto(u, "check")
     \/ /\ ~daemon.up \/ home[u].pin # daemon.cert
        /\ Quit(u)
        /\ UNCHANGED home
  /\ UNCHANGED <<authVars, enrolled>>

\* to the client a status other than 200 is one failure
Reply(u, result) ==
  proc' = [proc EXCEPT ![u].pc = "reply", ![u].ok = (result = "ok"), ![u].revoked = FALSE]

ServeHTTP(u) ==
  /\ daemon.up /\ At(u, "check")
  /\ \E result \in {"ok", "refused", "error"} :
       /\ checkAuthorized(proc[u].cmd, proc[u].key, result)
       /\ IF result = "ok" THEN Goto(u, "handle") ELSE Reply(u, result)
  /\ UNCHANGED <<authVars, home, enrolled>>

Handle(u) ==
  LET p == proc[u]
  IN  /\ daemon.up /\ At(u, "handle")
      /\ \E result \in {"ok", "refused", "error"} :
           /\ Reply(u, result)
           /\ \/ p.cmd = "enroll" /\ blindEnrollHandler(p.key, p.code, result)
              \/ p.cmd = "enable-enroll" /\ enableEnrollHandler(result)
              \/ p.cmd = "silos" /\ result = "ok" /\ UNCHANGED authVars
      /\ UNCHANGED <<home, enrolled>>

Receive(u) ==
  /\ At(u, "reply")
  /\ enrolled' = IF proc[u].cmd = "enroll" /\ proc[u].ok /\ ~proc[u].revoked
                 THEN [enrolled EXCEPT ![u] = proc[u].key] ELSE enrolled
  /\ Quit(u)
  /\ UNCHANGED <<authVars, home>>

\* Killed, or cut off from the daemon; a file being written is left torn.
ClientEnds(u) ==
  /\ ~At(u, "idle")
  /\ \/ UNCHANGED home
     \/ At(u, "mintCert") /\ home' = [home EXCEPT ![u].cert = Torn]
     \/ At(u, "mintKey") /\ home' = [home EXCEPT ![u].key = Torn]
     \/ At(u, "connect") /\ home[u].pin = 0 /\ home' = [home EXCEPT ![u].pin = -1]
  /\ Quit(u)
  /\ UNCHANGED <<authVars, enrolled>>

\* The administrator takes a line out of the certs file.  If it was the last with
\* its key, that is noted with the requests of that key which are past the check.
EditCerts ==
  \E i \in DOMAIN certs :
    LET k == certs[i].key
        Gone == k # None /\ \A j \in DOMAIN certs : j # i => certs[j].key # k
    IN  /\ RemoveLine(i)
        /\ proc' = [u \in Users |->
                     IF Gone /\ proc[u].pc \in {"handle", "reply"} /\ proc[u].key = k
                     THEN [proc[u] EXCEPT !.revoked = TRUE] ELSE proc[u]]
        /\ enrolled' = [u \in Users |-> IF Gone /\ enrolled[u] = k THEN None ELSE enrolled[u]]
        /\ UNCHANGED home

\* The connections of a daemon end with it.
Crash ==
  /\ DaemonEnds
  /\ proc' = [u \in Users |-> IF proc[u].pc \in {"check", "handle", "reply"} THEN Idle ELSE proc[u]]
  /\ UNCHANGED <<home, enrolled>>

Next ==
  \/ (Tick \/ NewServer \/ EmbedPrintedCert) /\ UNCHANGED clientVars
  \/ EditCerts
  \/ Crash
  \/ \E u \in Users :
       \/ \E code \in KnownCodes : Run(u, "enroll", code)
       \/ \E cmd \in {"enable-enroll", "silos"} : Run(u, cmd, 0)
       \/ LoadPair(u) \/ MintCert(u) \/ MintKey(u) \/ Connect(u)
       \/ ServeHTTP(u) \/ Handle(u) \/ Receive(u) \/ ClientEnds(u)

Spec == Init /\ [][Next]_vars

(***************************************************************************)
(* Properties.                                                             *)
(***************************************************************************)

\* Types of the daemon's files and of its clients.
AccessTypeOK ==
  /\ now \in 0..MaxTime /\ starts \in 0..MaxStarts /\ codes \in 0..MaxCodes
  /\ daemon \in [up : BOOLEAN, deadline : Int, key : Nat, cert : Nat]
  /\ certs \in Seq(Lines)
  /\ home \in [Users -> [cert : Keys \cup {None, Torn}, key : Keys \cup {None, Torn},
                         pin : Nat \cup {-1}]]
  /\ proc \in [Users -> [pc : {"idle", "load", "mintCert", "mintKey", "connect", "check",
                               "handle", "reply"},
                         cmd : Commands, code : Nat, key : Keys \cup {None},
                         ok : BOOLEAN, revoked : BOOLEAN]]
  /\ enrolled \in [Users -> Keys \cup {None}]

\* colex-cli/main.go:56 "Bind your user certificate with the server using the
\* given enrollment key, identifying you as a valid user": who was told so still
\* has that key pair and their line, after any crash, restart, failed, repeated
\* or concurrent enrolment and any other edit of the file.  They are never told
\* that they are not authorised, and are let in whenever the file opens and no
\* line above theirs, nor theirs, ends the search.
EnrolledClientAccepted ==
  \A u \in Users :
    LET k == enrolled[u]
    IN  k # None =>
          /\ home[u].cert = k /\ home[u].key = k
          /\ Listed(k) /\ ~checkCertificateAuthorized(k, "refused")
          /\ \A i \in DOMAIN certs :
               certs[i].key = k /\ Reached(i) => checkCertificateAuthorized(k, "ok")

\* server config reference.MD: "no command will be accepted from `colex-cli`
\* unless the TLS public key used by `colex-cli` is in the file": the handler of
\* a command runs only for a key in the file, or for one that the administrator
\* has taken out since ServeHTTP looked, before the lock was taken.  No other
\* user's enrolment, restart or torn write takes the line away in between.
CommandsNeedEnrolment ==
  config.mode = "certs-file" =>
    \A u \in Users : At(u, "handle") /\ proc[u].cmd # "enroll" =>
      Listed(proc[u].key) \/ proc[u].revoked

\* README: "enrollment is only available by default for 35 seconds": in
\* certs-file mode the daemon adds a line only with the last code issued, while
\* the window in which it was issued is open, and never when the window is
\* turned off (-1), not even after a user of the file has called enable-enroll.
EnrolmentOnlyInWindow ==
  [][Len(certs') > Len(certs) /\ config.mode = "certs-file" =>
       /\ config.window > 0 /\ daemon.up /\ now <= daemon.deadline
       /\ \E u \in Users : At(u, "handle") /\ ~At(u, "handle")' /\ proc[u].code = codes]_vars

\* README: "From now on, the server will use the generated TLS certificate and
\* key": a client that pinned the certificate that is now in the configuration
\* file meets no other one from the next start on.
PinSurvivesRestart ==
  daemon.up /\ config.keySource = "embedded" =>
    \A u \in Users : home[u].pin = file.cert => daemon.cert = home[u].pin
=============================================================================
