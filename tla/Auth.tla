-------------------------------- MODULE Auth --------------------------------
(***************************************************************************)
(* Who may give colexd commands: its configuration (colexd/config.go,      *)
(* main.go), the enrolment window and the server certificate (serv.go),    *)
(* and the file of authorised keys (auth.go).  The daemon may die and be   *)
(* started again at any time; only the two files outlive it.               *)
(*                                                                         *)
(* A line of the certs file is the key it ends with and whether the search *)
(* gets past it: a line that has not four fields or that is longer than    *)
(* the buffer of the scanner ends it.  A write that did not complete       *)
(* leaves a line without a key.  Blank lines are skipped by the code and   *)
(* are left out.  An enrolment code is the number of its issue, 0 the      *)
(* empty code; a server certificate is the number of the start that minted *)
(* it.                                                                     *)
(***************************************************************************)
EXTENDS Integers, Sequences

CONSTANTS
  Keys,             \* the key pairs clients may come to have
  None,
  CertsFiles,       \* the certs files to start from
  ConfigFiles,      \* the configuration files to look at
  DefaultWindow,    \* blind_enrollment_seconds when it is not given
  HostFaults,       \* what may fail on the daemon's host: rand, open, read, write
  MaxTime, MaxStarts, MaxCodes, MaxLines   \* bounds

ASSUME AuthAssumption ==
  /\ None \notin Keys
  /\ DefaultWindow \in Nat \ {0}
  /\ HostFaults \subseteq {"rand", "open", "read", "write"}
  /\ MaxTime \in Nat /\ MaxStarts \in Nat /\ MaxCodes \in Nat /\ MaxLines \in Nat

ConfigType ==
  [mode : {"", "open", "certs-file", "other"}, window : Int,
   keySource : {"", "ephemeral", "embedded", "other"}, cert : Nat, certsFile : BOOLEAN]

Line(k, readable) == [key |-> k, readable |-> readable]
Lines == [key : Keys \cup {None}, readable : BOOLEAN]

ASSUME ConfigAssumption == ConfigFiles \subseteq ConfigType /\ CertsFiles \subseteq Seq(Lines)

VARIABLES
  now,      \* the clock
  file,     \* the configuration file
  config,   \* the configuration of the daemon, as loaded
  daemon,   \* [up, deadline, key, cert] of the Server, while it runs
  starts,   \* how often the daemon was started
  codes,    \* how many enrolment codes were issued
  certs     \* the certs file

authVars == <<now, file, config, daemon, starts, codes, certs>>

(***************************************************************************)
(* config.go.                                                              *)
(***************************************************************************)
loadConfig(f) ==
  [f EXCEPT !.mode = IF @ = "" THEN "open" ELSE @,
            !.keySource = IF @ = "" THEN "ephemeral" ELSE @,
            !.window = IF @ = 0 THEN DefaultWindow ELSE @]

\* the certs file has to exist; an embedded pair is there when its number is
validateConfig(c) ==
  /\ c.keySource = "ephemeral" \/ (c.keySource = "embedded" /\ c.cert > 0)
  /\ c.mode = "open" \/ (c.mode = "certs-file" /\ c.certsFile)

(***************************************************************************)
(* The daemon's life.                                                      *)
(***************************************************************************)
Off == [up |-> FALSE, deadline |-> -1, key |-> 0, cert |-> 0]

AuthInit ==
  /\ now = 0
  /\ file \in ConfigFiles
  /\ config = loadConfig(file)
  /\ daemon = Off
  /\ starts = 0
  /\ codes = 0
  /\ IF file.certsFile THEN certs \in CertsFiles ELSE certs = <<>>

Tick == now < MaxTime /\ now' = now + 1 /\ UNCHANGED <<file, config, daemon, starts, codes, certs>>

\* a key pair is minted on every start
serverCertMinted(c) == starts + 1

\* makeTLSConfig
serverCert(c) == IF c.keySource = "embedded" THEN c.cert ELSE starts + 1

\* loadConfigFile, validateConfig and NewServer
NewServer ==
  LET c == loadConfig(file)
      enrol == c.mode = "certs-file" /\ c.window # -1
  IN  /\ ~daemon.up /\ starts < MaxStarts
      /\ validateConfig(c)
      /\ enrol => codes < MaxCodes
      /\ config' = c
      /\ starts' = starts + 1
      /\ codes' = IF enrol THEN codes + 1 ELSE codes
      /\ daemon' = [up |-> TRUE,
                    deadline |-> IF enrol THEN now + c.window ELSE -1,
                    key |-> IF enrol THEN codes + 1 ELSE 0,
                    cert |-> serverCert(c)]
      /\ UNCHANGED <<now, file, certs>>

DaemonEnds ==
  /\ daemon.up
  /\ daemon' = Off
  /\ UNCHANGED <<now, file, config, starts, codes, certs>>

\* The administrator copies the section that makeTLSConfig prints into the file.
EmbedPrintedCert ==
  /\ daemon.up /\ config.keySource = "ephemeral"
  /\ file' = [file EXCEPT !.keySource = "embedded", !.cert = daemon.cert]
  /\ UNCHANGED <<now, config, daemon, starts, codes, certs>>

(***************************************************************************)
(* auth.go.                                                                *)
(***************************************************************************)
Listed(k) == \E i \in DOMAIN certs : certs[i].key = k

\* the search gets to line i and past it
Reached(i) == \A j \in 1..i : certs[j].readable

\* The file is opened and read from the top for every request.  The first line
\* with the key decides, and a line that cannot be parsed or scanned ends the
\* search with an error.
checkCertificateAuthorized(k, result) ==
  \/ result = "error" /\ (HostFaults \cap {"open", "read"} # {} \/ ~config.certsFile)
  \/ /\ config.certsFile
     /\ result = IF \E i \in DOMAIN certs : certs[i].key = k /\ Reached(i) THEN "ok"
                 ELSE IF \E i \in DOMAIN certs : ~certs[i].readable THEN "error"
                 ELSE "refused"

checkAuthorized(path, k, result) ==
  IF config.mode = "open" \/ path = "enroll" THEN result = "ok"
  ELSE checkCertificateAuthorized(k, result)

\* the file is truncated, not appended to
enrollCertificateTruncates(k, result) ==
  /\ result = "ok"
  /\ certs' = <<Line(k, TRUE)>>

\* For a connection that presents the key k.  The file is not created; in open
\* mode nothing has looked for it before.  The name has no limit, so the line may
\* be too long to be read back.  A write may fail half way, and the close that
\* follows a write may fail as well.
enrollCertificate(k, result) ==
  \/ /\ result = "ok" /\ config.certsFile
     /\ \E readable \in BOOLEAN : certs' = Append(certs, Line(k, readable))
  \/ result = "error" /\ ("open" \in HostFaults \/ ~config.certsFile) /\ certs' = certs
  \/ /\ result = "error" /\ config.certsFile /\ "write" \in HostFaults
     /\ \/ certs' = certs
        \/ \E key \in {k, None}, readable \in BOOLEAN : certs' = Append(certs, Line(key, readable))

\* The administrator takes line i out.
RemoveLine(i) ==
  /\ certs' = [j \in 1..(Len(certs) - 1) |-> IF j < i THEN certs[j] ELSE certs[j + 1]]
  /\ UNCHANGED <<now, file, config, daemon, starts, codes>>

(***************************************************************************)
(* Handlers, each from s.lock.Lock to its return.                          *)
(***************************************************************************)
\* a window that is turned off is taken for one that is not given
enableEnrollHandlerDefaults(result) ==
  /\ daemon.up /\ codes < MaxCodes
  /\ daemon' = [daemon EXCEPT !.deadline = now + DefaultWindow, !.key = codes + 1]
  /\ codes' = codes + 1
  /\ result = "ok"
  /\ UNCHANGED <<now, file, config, starts, certs>>

\* The deadline is set first.  Without a user, in open mode, the log line that
\* names the user panics, with the new code in place and told to nobody.
enableEnrollHandler(result) ==
  LET deadline == now + config.window
  IN  /\ daemon.up
      /\ \/ /\ codes < MaxCodes
            /\ daemon' = [daemon EXCEPT !.deadline = deadline, !.key = codes + 1]
            /\ codes' = codes + 1
            /\ result = IF config.mode = "open" THEN "error" ELSE "ok"
         \/ /\ "rand" \in HostFaults
            /\ daemon' = [daemon EXCEPT !.deadline = deadline]
            /\ codes' = codes
            /\ result = "error"
      /\ UNCHANGED <<now, file, config, starts, certs>>

EnrolmentOpen(code) == now <= daemon.deadline /\ code = daemon.key

\* Bounded by the lines the model follows.
blindEnrollHandler(k, code, result) ==
  /\ daemon.up /\ Len(certs) < MaxLines
  /\ IF EnrolmentOpen(code) THEN enrollCertificate(k, result)
     ELSE result = "refused" /\ certs' = certs
  /\ UNCHANGED <<now, file, config, daemon, starts, codes>>
=============================================================================
