---------------------------- MODULE AccessProofs ----------------------------
(***************************************************************************)
(* Enrolment and authorisation, for any number of users, keys, starts,     *)
(* codes and lines: the invariant ties the files of a user, the command    *)
(* they run and the certs file together (UserSane), and the window, the    *)
(* code and the certificate of the daemon to its configuration             *)
(* (DaemonSane).                                                           *)
(***************************************************************************)
EXTENDS Client, TLAPS

DaemonType == [up : BOOLEAN, deadline : Int, key : Nat, cert : Nat]

AuthTypes ==
  /\ now \in Nat /\ starts \in Nat /\ codes \in Nat
  /\ file \in ConfigType /\ config \in ConfigType
  /\ daemon \in DaemonType
  /\ certs \in Seq(Lines)

ProcType ==
  [pc : {"idle", "load", "mintCert", "mintKey", "connect", "check", "handle", "reply"},
   cmd : Commands, code : Nat, key : Keys \cup {None}, ok : BOOLEAN, revoked : BOOLEAN]

HomeType == [cert : Keys \cup {None, Torn}, key : Keys \cup {None, Torn},
             pin : Nat \cup {-1}]

UserTypes ==
  /\ home \in [Users -> HomeType] /\ proc \in [Users -> ProcType]
  /\ enrolled \in [Users -> Keys \cup {None}]

\* the command is at the daemon
Served(p) == p.pc \in {"check", "handle", "reply"}

\* a command, the files of its user and the key they were told to be enrolled with
Fits(p, h, e) ==
  /\ p.pc = "connect" \/ Served(p) => p.key \in Keys /\ h.cert = p.key /\ h.key = p.key
  /\ p.pc = "mintKey" => p.key \in Keys
  /\ p.pc \in {"mintCert", "mintKey"} => e = None
  /\ e # None => h.cert = e /\ h.key = e /\ Listed(e)
  /\ p.pc = "reply" /\ p.cmd = "enroll" /\ p.ok => Listed(p.key) \/ p.revoked
  /\ p.pc = "handle" /\ p.cmd # "enroll" /\ config.mode = "certs-file" =>
       Listed(p.key) \/ p.revoked
  /\ Served(p) => daemon.up

UserSane(u) == Fits(proc[u], home[u], enrolled[u])

DaemonSane ==
  /\ config.window # 0
  /\ config.certsFile = file.certsFile /\ (config.certsFile \/ certs = <<>>)
  /\ daemon.up => daemon.deadline = -1 \/ daemon.deadline <= now + config.window
  /\ daemon.up /\ config.mode = "certs-file" /\ config.window # -1 => daemon.key = codes
  /\ daemon.up /\ config.keySource = "embedded" => daemon.cert = config.cert /\ file.cert = config.cert

\* The inductive invariant.
AccessInv == AuthTypes /\ UserTypes /\ DaemonSane /\ \A u \in Users : UserSane(u)

-----------------------------------------------------------------------------
LEMMA LoadedConfig ==
  ASSUME NEW f \in ConfigType
  PROVE  loadConfig(f) \in ConfigType /\ loadConfig(f).window # 0 /\ loadConfig(f).cert = f.cert
         /\ loadConfig(f).certsFile = f.certsFile
<1> DEFINE mode == IF f.mode = "" THEN "open" ELSE f.mode
           source == IF f.keySource = "" THEN "ephemeral" ELSE f.keySource
           window == IF f.window = 0 THEN DefaultWindow ELSE f.window
<1>0. DefaultWindow \in Int /\ DefaultWindow # 0
  BY AuthAssumption
<1>1. /\ mode \in {"", "open", "certs-file", "other"}
      /\ source \in {"", "ephemeral", "embedded", "other"}
      /\ window \in Int /\ window # 0
  BY <1>0 DEF ConfigType
<1>2. loadConfig(f) = [f EXCEPT !.mode = mode, !.keySource = source, !.window = window]
  BY DEF loadConfig
<1> HIDE DEF mode, source, window
<1> QED
  BY <1>1, <1>2 DEF ConfigType

LEMMA AccessInvInit ==
  Init => AccessInv
<1> SUFFICES ASSUME Init PROVE AccessInv
  OBVIOUS
<1>1. file \in ConfigType /\ config = loadConfig(file)
  BY ConfigAssumption DEF Init, AuthInit
<1>2. config \in ConfigType /\ config.window # 0 /\ config.certsFile = file.certsFile
  BY <1>1, LoadedConfig
<1>c. certs \in Seq(Lines) /\ (file.certsFile \/ certs = <<>>)
  <2>1. \/ file.certsFile /\ certs \in CertsFiles
        \/ certs = <<>>
    BY Zenon DEF Init, AuthInit
  <2>2. <<>> \in Seq(Lines)
    OBVIOUS
  <2> QED
    BY <2>1, <2>2, ConfigAssumption
<1>3. AuthTypes /\ DaemonSane
  BY <1>1, <1>2, <1>c DEF Init, AuthInit, AuthTypes, DaemonSane, DaemonType, Off
<1>4. UserTypes /\ \A u \in Users : UserSane(u)
  <2>1. PICK pair \in [Users -> Keys \cup {None}] :
          home = [u \in Users |-> [cert |-> pair[u], key |-> pair[u], pin |-> 0]]
    BY ClientAssumption DEF Init
  <2> QED
    BY <2>1 DEF Init, UserTypes, ProcType, HomeType, UserSane, Fits, Served, Idle, Commands
<1> QED
  BY <1>3, <1>4 DEF AccessInv

\* An enrolment takes no line away.
LEMMA FileGrows ==
  ASSUME AuthTypes, NEW x \in Lines, certs' = certs \/ certs' = Append(certs, x)
  PROVE  certs' \in Seq(Lines) /\ \A k : Listed(k) => Listed(k)'
BY DEF AuthTypes, Listed

\* The administrator takes one line away and leaves the others.
LEMMA FileShrinks ==
  ASSUME AuthTypes, NEW i \in DOMAIN certs, RemoveLine(i)
  PROVE  /\ certs' \in Seq(Lines)
         /\ \A j \in DOMAIN certs : j # i => \E m \in DOMAIN certs' : certs'[m] = certs[j]
<1> DEFINE n == Len(certs) - 1
<1>1. /\ certs \in Seq(Lines) /\ n \in Nat /\ i \in 1..(n + 1) /\ DOMAIN certs = 1..(n + 1)
      /\ certs' = [j \in 1..n |-> IF j < i THEN certs[j] ELSE certs[j + 1]]
  BY DEF AuthTypes, RemoveLine
<1> HIDE DEF n
<1>2. \A j \in 1..(n + 1) : certs[j] \in Lines
  BY <1>1
<1>3. certs' \in [1..n -> Lines]
  BY <1>1, <1>2
<1>4. certs' \in Seq(Lines)
  BY <1>1, <1>3
<1>5. ASSUME NEW j \in DOMAIN certs, j # i PROVE \E m \in DOMAIN certs' : certs'[m] = certs[j]
  <2>1. CASE j < i
    BY <1>1, <2>1
  <2>2. CASE i < j
    <3>1. j - 1 \in 1..n /\ ~(j - 1 < i) /\ (j - 1) + 1 = j
      BY <1>1, <2>2
    <3>2. certs'[j - 1] = certs[j]
      BY <1>1, <3>1
    <3> QED
      BY <1>1, <3>1, <3>2
  <2> QED
    BY <1>1, <1>5, <2>1, <2>2
<1> QED
  BY <1>4, <1>5

\* Steps of the daemon and of the administrator.
LEMMA DaemonSteps ==
  ASSUME AccessInv, (Tick \/ NewServer \/ EmbedPrintedCert) /\ UNCHANGED clientVars
  PROVE  AccessInv'
<1>1. UNCHANGED <<certs, home, proc, enrolled>>
  BY DEF Tick, NewServer, EmbedPrintedCert, clientVars
<1>2. AuthTypes' /\ DaemonSane'
  <2>1. CASE Tick
    <3>1. now' = now + 1 /\ UNCHANGED <<file, config, daemon, starts, codes, certs>>
      BY <2>1 DEF Tick
    <3>2. now \in Nat /\ daemon.deadline \in Int /\ config.window \in Int
      BY DEF AccessInv, AuthTypes, DaemonType, ConfigType
    <3> QED
      BY <3>1, <3>2 DEF AccessInv, AuthTypes, DaemonSane
  <2>2. CASE NewServer
    <3> DEFINE c == loadConfig(file)
               enrol == c.mode = "certs-file" /\ c.window # -1
               cert == IF c.keySource = "embedded" THEN c.cert ELSE starts + 1
    <3>1. c \in ConfigType /\ c.window # 0 /\ c.cert = file.cert /\ c.certsFile = file.certsFile
      BY LoadedConfig DEF AccessInv, AuthTypes
    <3>2. /\ config' = c /\ UNCHANGED <<now, file, certs>> /\ starts' = starts + 1
          /\ codes' = IF enrol THEN codes + 1 ELSE codes
          /\ daemon' = [up |-> TRUE, deadline |-> IF enrol THEN now + c.window ELSE -1,
                        key |-> IF enrol THEN codes + 1 ELSE 0, cert |-> cert]
      BY <2>2 DEF NewServer, serverCert
    <3>3. now \in Nat /\ codes \in Nat /\ starts \in Nat /\ c.window \in Int /\ cert \in Nat
      <4>1. now \in Nat /\ codes \in Nat /\ starts \in Nat
        BY DEF AccessInv, AuthTypes
      <4> HIDE DEF c
      <4>2. c.window \in Int /\ c.cert \in Nat
        BY <3>1 DEF ConfigType
      <4> QED
        BY <4>1, <4>2
    <3> HIDE DEF c
    <3>4. CASE enrol
      BY <3>1, <3>2, <3>3, <3>4 DEF AccessInv, AuthTypes, DaemonSane, DaemonType
    <3>5. CASE ~enrol
      BY <3>1, <3>2, <3>3, <3>5 DEF AccessInv, AuthTypes, DaemonSane, DaemonType
    <3> QED
      BY <3>4, <3>5
  <2>3. CASE EmbedPrintedCert
    BY <2>3 DEF EmbedPrintedCert, AccessInv, AuthTypes, DaemonSane, DaemonType, ConfigType
  <2> QED
    BY <2>1, <2>2, <2>3
<1>3. UserTypes'
  BY <1>1 DEF AccessInv, UserTypes
<1>4. ASSUME NEW u \in Users PROVE UserSane(u)'
  <2>1. Served(proc[u]) => UNCHANGED <<config, daemon>>
    BY DEF AccessInv, UserSane, Fits, Tick, NewServer, EmbedPrintedCert
  <2> QED
    BY <1>1, <2>1 DEF AccessInv, UserSane, Fits, Served, Listed
<1> QED
  BY <1>2, <1>3, <1>4 DEF AccessInv

LEMMA CrashStep ==
  ASSUME AccessInv, Crash
  PROVE  AccessInv'
<1>1. /\ daemon' = Off /\ UNCHANGED <<now, file, config, starts, codes, certs, home, enrolled>>
      /\ proc' = [u \in Users |-> IF proc[u].pc \in {"check", "handle", "reply"} THEN Idle ELSE proc[u]]
  BY DEF Crash, DaemonEnds
<1>2. AuthTypes' /\ DaemonSane'
  BY <1>1 DEF AccessInv, AuthTypes, DaemonSane, DaemonType, Off
<1>3. UserTypes'
  BY <1>1 DEF AccessInv, UserTypes, ProcType, Idle, Commands
<1>4. ASSUME NEW u \in Users PROVE UserSane(u)'
  <2>1. CASE Served(proc[u])
    BY <1>1, <2>1 DEF AccessInv, UserSane, Fits, Served, Listed, Idle
  <2>2. CASE ~Served(proc[u])
    BY <1>1, <2>2 DEF AccessInv, UserSane, Fits, Served, Listed
  <2> QED
    BY <2>1, <2>2
<1> QED
  BY <1>2, <1>3, <1>4 DEF AccessInv

LEMMA EditStep ==
  ASSUME AccessInv, EditCerts
  PROVE  AccessInv'
<1>1. PICK i \in DOMAIN certs :
        LET k == certs[i].key
            Gone == k # None /\ \A j \in DOMAIN certs : j # i => certs[j].key # k
        IN  /\ RemoveLine(i)
            /\ proc' = [u \in Users |->
                         IF Gone /\ proc[u].pc \in {"handle", "reply"} /\ proc[u].key = k
                         THEN [proc[u] EXCEPT !.revoked = TRUE] ELSE proc[u]]
            /\ enrolled' = [u \in Users |-> IF Gone /\ enrolled[u] = k THEN None ELSE enrolled[u]]
            /\ UNCHANGED home
  BY DEF EditCerts
<1> DEFINE k0 == certs[i].key
           Gone == k0 # None /\ \A j \in DOMAIN certs : j # i => certs[j].key # k0
           Marked(u) == Gone /\ proc[u].pc \in {"handle", "reply"} /\ proc[u].key = k0
<1>2. /\ UNCHANGED <<now, file, config, daemon, starts, codes>> /\ certs # <<>>
      /\ certs' \in Seq(Lines)
      /\ \A j \in DOMAIN certs : j # i => \E m \in DOMAIN certs' : certs'[m] = certs[j]
  BY <1>1, FileShrinks DEF RemoveLine, AccessInv, AuthTypes
<1>3. AuthTypes' /\ DaemonSane'
  BY <1>2 DEF AccessInv, AuthTypes, DaemonSane
<1>4. ASSUME NEW k, Listed(k), ~(Gone /\ k = k0), k # None PROVE Listed(k)'
  <2>1. PICK j \in DOMAIN certs : certs[j].key = k /\ j # i
    BY <1>4 DEF Listed
  <2> QED
    BY <1>2, <2>1 DEF Listed
<1>5. /\ proc' = [u \in Users |-> IF Marked(u) THEN [proc[u] EXCEPT !.revoked = TRUE] ELSE proc[u]]
      /\ enrolled' = [u \in Users |-> IF Gone /\ enrolled[u] = k0 THEN None ELSE enrolled[u]]
      /\ UNCHANGED home
  BY <1>1
<1> HIDE DEF k0, Gone
<1>6. ASSUME NEW u \in Users
      PROVE  LET p == proc'[u]
             IN  /\ p \in ProcType /\ p.pc = proc[u].pc /\ p.cmd = proc[u].cmd
                 /\ p.key = proc[u].key /\ p.ok = proc[u].ok
                 /\ p.revoked <=> proc[u].revoked \/ Marked(u)
  <2>1. proc[u] \in ProcType
    BY DEF AccessInv, UserTypes
  <2>2. CASE Marked(u)
    <3>1. proc'[u] = [proc[u] EXCEPT !.revoked = TRUE]
      BY <1>5, <2>2
    <3> HIDE DEF Marked
    <3> QED
      BY <2>1, <2>2, <3>1 DEF ProcType
  <2>3. CASE ~Marked(u)
    <3>1. proc'[u] = proc[u]
      BY <1>5, <2>3
    <3> HIDE DEF Marked
    <3> QED
      BY <2>1, <2>3, <3>1
  <2> QED
    BY <2>2, <2>3
<1>7. UserTypes'
  <2>1. enrolled' \in [Users -> Keys \cup {None}] /\ home' \in [Users -> HomeType]
    BY <1>5 DEF AccessInv, UserTypes
  <2>2. DOMAIN proc' = Users /\ proc' = [u \in Users |-> proc'[u]]
    BY <1>5
  <2> QED
    BY <1>6, <2>1, <2>2 DEF UserTypes
<1>8. ASSUME NEW u \in Users PROVE UserSane(u)'
  <2>1. PICK p, q, h, e, f : p = proc[u] /\ q = proc'[u] /\ h = home[u] /\ e = enrolled[u] /\ f = enrolled'[u]
    OBVIOUS
  <2>2. Fits(p, h, e)
    BY <2>1 DEF AccessInv, UserSane
  <2>3. /\ q.pc = p.pc /\ q.cmd = p.cmd /\ q.key = p.key /\ q.ok = p.ok
        /\ p.revoked => q.revoked
        /\ Gone /\ p.pc \in {"handle", "reply"} /\ p.key = k0 => q.revoked
    BY <1>6, <2>1
  <2>4. f = None \/ (f = e /\ ~(Gone /\ e = k0))
    BY <1>5, <2>1
  <2>5. e # None => Listed(e)
    BY <2>2 DEF Fits
  <2>6. f # None => f = e /\ Listed(f)'
    BY <1>4, <2>4, <2>5
  <2>7. p.pc \in {"handle", "reply"} => p.key # None
    BY <2>2, AuthAssumption DEF Fits, Served
  <2>8. p.pc \in {"handle", "reply"} /\ Listed(p.key) => Listed(p.key)' \/ q.revoked
    BY <1>4, <2>3, <2>7
  <2>9. UNCHANGED <<config, daemon>> /\ home'[u] = h
    BY <1>2, <1>5, <2>1
  <2> HIDE DEF Marked
  <2>10. Fits(q, h, f)'
    BY <2>2, <2>3, <2>6, <2>8, <2>9 DEF Fits, Served
  <2> QED
    BY <2>1, <2>9, <2>10 DEF UserSane
<1> QED
  BY <1>3, <1>7, <1>8 DEF AccessInv

\* A command of one user leaves the other users as they are.
LEMMA OneUserMoves ==
  ASSUME AccessInv, NEW u \in Users, UserSane(u)', AuthTypes', UserTypes', DaemonSane',
         \A v \in Users : v # u => proc'[v] = proc[v] /\ home'[v] = home[v] /\ enrolled'[v] = enrolled[v],
         UNCHANGED config, daemon'.up = daemon.up, \A k : Listed(k) => Listed(k)'
  PROVE  AccessInv'
<1>1. ASSUME NEW v \in Users, v # u PROVE UserSane(v)'
  BY <1>1 DEF AccessInv, UserSane, Fits, Served
<1> QED
  BY <1>1 DEF AccessInv

\* a step of a command that the daemon's state is not changed by
LEMMA ClientMoves ==
  ASSUME AccessInv, NEW u \in Users, UNCHANGED authVars,
         NEW p \in ProcType, NEW h \in HomeType, NEW e \in Keys \cup {None}, Fits(p, h, e),
         proc' = [proc EXCEPT ![u] = p], home' = [home EXCEPT ![u] = h],
         enrolled' = [enrolled EXCEPT ![u] = e]
  PROVE  AccessInv'
<1>1. UNCHANGED <<now, file, config, daemon, starts, codes, certs>>
  BY DEF authVars
<1>2. AuthTypes' /\ DaemonSane'
  BY <1>1 DEF AccessInv, AuthTypes, DaemonSane
<1>3. UserTypes'
  BY DEF AccessInv, UserTypes
<1>4. proc'[u] = p /\ home'[u] = h /\ enrolled'[u] = e
  BY DEF AccessInv, UserTypes
<1>5. UserSane(u)'
  BY <1>1, <1>4 DEF UserSane, Fits, Served, Listed
<1>6. \A k : Listed(k) => Listed(k)'
  BY <1>1 DEF Listed
<1>7. \A v \in Users : v # u => proc'[v] = proc[v] /\ home'[v] = home[v] /\ enrolled'[v] = enrolled[v]
  BY DEF AccessInv, UserTypes
<1> QED
  BY <1>1, <1>2, <1>3, <1>5, <1>6, <1>7, OneUserMoves

\* The steps of a command on the client's side, and the check of the daemon.
LEMMA ClientSteps ==
  ASSUME AccessInv, NEW u \in Users,
         \/ \E code \in KnownCodes : Run(u, "enroll", code)
         \/ \E cmd \in {"enable-enroll", "silos"} : Run(u, cmd, 0)
         \/ LoadPair(u) \/ MintCert(u) \/ MintKey(u) \/ Connect(u)
         \/ ServeHTTP(u) \/ Receive(u) \/ ClientEnds(u)
  PROVE  AccessInv'
<1> DEFINE p0 == proc[u]
           h0 == home[u]
           e0 == enrolled[u]
<1>0. /\ UserTypes /\ p0 \in ProcType /\ h0 \in HomeType /\ e0 \in Keys \cup {None} /\ Fits(p0, h0, e0)
      /\ home = [home EXCEPT ![u] = h0] /\ enrolled = [enrolled EXCEPT ![u] = e0]
  BY DEF AccessInv, UserTypes, UserSane
<1>1. Idle \in ProcType /\ Fits(Idle, h0, e0)
  BY <1>0 DEF ProcType, Commands, Idle, Fits, Served
<1>2. ASSUME NEW cmd \in Commands, NEW code \in Nat, Run(u, cmd, code) PROVE AccessInv'
  <2> DEFINE p == [Idle EXCEPT !.pc = "load", !.cmd = cmd, !.code = code]
  <2>1. p \in ProcType /\ Fits(p, h0, e0)
    BY <1>0 DEF ProcType, Commands, Idle, Fits, Served
  <2>2. /\ proc' = [proc EXCEPT ![u] = p] /\ UNCHANGED authVars
        /\ home' = [home EXCEPT ![u] = h0] /\ enrolled' = [enrolled EXCEPT ![u] = e0]
    BY <1>0, <1>2 DEF Run
  <2> HIDE DEF p, h0, e0
  <2> QED
    BY <1>0, <2>1, <2>2, ClientMoves
<1>3. CASE LoadPair(u)
  <2>1. /\ UNCHANGED authVars
        /\ home' = [home EXCEPT ![u] = h0] /\ enrolled' = [enrolled EXCEPT ![u] = e0]
    BY <1>0, <1>3 DEF LoadPair
  <2>2. CASE h0.cert = None \/ h0.key = None
    <3> DEFINE p == [p0 EXCEPT !.pc = "mintCert"]
    <3>1. proc' = [proc EXCEPT ![u] = p]
      BY <1>3, <2>2 DEF LoadPair, Goto
    <3>2. p \in ProcType /\ p.pc = "mintCert"
      BY <1>0 DEF ProcType
    <3>3. Fits(p, h0, e0)
      BY <1>0, <2>2, <3>2 DEF Fits, Served
    <3> HIDE DEF p
    <3> QED
      BY <1>0, <2>1, <3>1, <3>2, <3>3, ClientMoves
  <2>3. CASE ~(h0.cert = None \/ h0.key = None) /\ (h0.cert # h0.key \/ h0.cert = Torn)
    <3>1. proc' = [proc EXCEPT ![u] = Idle]
      BY <1>3, <2>3 DEF LoadPair, Quit
    <3> QED
      BY <1>0, <1>1, <2>1, <3>1, ClientMoves
  <2>4. CASE ~(h0.cert = None \/ h0.key = None) /\ ~(h0.cert # h0.key \/ h0.cert = Torn)
    <3> DEFINE p == [p0 EXCEPT !.pc = "connect", !.key = h0.key]
    <3>1. proc' = [proc EXCEPT ![u] = p]
      BY <1>3, <2>4 DEF LoadPair
    <3>2. h0.key \in Keys /\ h0.cert = h0.key
      BY <1>0, <2>4 DEF HomeType
    <3>3. p \in ProcType /\ p.pc = "connect" /\ p.key = h0.key
      BY <1>0, <3>2 DEF ProcType
    <3>4. Fits(p, h0, e0)
      BY <1>0, <3>2, <3>3 DEF Fits, Served
    <3> HIDE DEF p
    <3> QED
      BY <1>0, <2>1, <3>1, <3>3, <3>4, ClientMoves
  <2> QED
    BY <2>2, <2>3, <2>4
<1>4. CASE MintCert(u)
  <2>1. PICK k \in Keys : /\ home' = [home EXCEPT ![u].cert = k]
                          /\ proc' = [proc EXCEPT ![u].pc = "mintKey", ![u].key = k]
    BY <1>4 DEF MintCert, UnusedKeys
  <2> DEFINE p == [p0 EXCEPT !.pc = "mintKey", !.key = k]
             h == [h0 EXCEPT !.cert = k]
  <2>2. /\ proc' = [proc EXCEPT ![u] = p] /\ home' = [home EXCEPT ![u] = h]
        /\ UNCHANGED <<authVars, enrolled>> /\ p0.pc = "mintCert"
    BY <1>4, <2>1 DEF MintCert, At
  <2>3. p \in ProcType /\ h \in HomeType /\ p.pc = "mintKey" /\ p.key = k
    BY <1>0 DEF ProcType, HomeType
  <2>4. Fits(p, h, e0)
    BY <1>0, <2>2, <2>3 DEF Fits, Served
  <2> HIDE DEF p, h
  <2> QED
    BY <1>0, <2>2, <2>3, <2>4, ClientMoves
<1>5. CASE MintKey(u)
  <2> DEFINE p == [p0 EXCEPT !.pc = "load"]
             h == [h0 EXCEPT !.key = p0.key]
  <2>1. /\ proc' = [proc EXCEPT ![u] = p] /\ home' = [home EXCEPT ![u] = h]
        /\ UNCHANGED <<authVars, enrolled>> /\ p0.pc = "mintKey"
    BY <1>5 DEF MintKey, At, Goto
  <2>2. p \in ProcType /\ h \in HomeType /\ p.pc = "load"
    BY <1>0 DEF ProcType, HomeType
  <2>3. Fits(p, h, e0)
    BY <1>0, <2>1, <2>2 DEF Fits, Served
  <2> HIDE DEF p, h
  <2> QED
    BY <1>0, <2>1, <2>2, <2>3, ClientMoves
<1>6. CASE Connect(u)
  <2>1. CASE daemon.up /\ home' = [home EXCEPT ![u].pin = daemon.cert] /\ Goto(u, "check")
    <3> DEFINE p == [p0 EXCEPT !.pc = "check"]
               h == [h0 EXCEPT !.pin = daemon.cert]
    <3>1. /\ proc' = [proc EXCEPT ![u] = p] /\ home' = [home EXCEPT ![u] = h]
          /\ UNCHANGED <<authVars, enrolled>> /\ p0.pc = "connect"
      BY <1>6, <2>1 DEF Connect, At, Goto
    <3>2. daemon.cert \in Nat
      BY DEF AccessInv, AuthTypes, DaemonType
    <3>3. /\ p \in ProcType /\ h \in HomeType /\ p.pc = "check" /\ p.key = p0.key
          /\ h.cert = h0.cert /\ h.key = h0.key
      BY <1>0, <3>2 DEF ProcType, HomeType
    <3>4. Fits(p, h, e0)
      BY <1>0, <2>1, <3>1, <3>3 DEF Fits, Served
    <3> HIDE DEF p, h
    <3> QED
      BY <1>0, <3>1, <3>3, <3>4, ClientMoves
  <2>2. CASE Quit(u) /\ UNCHANGED home
    <3>1. /\ proc' = [proc EXCEPT ![u] = Idle] /\ home' = [home EXCEPT ![u] = h0]
          /\ UNCHANGED authVars /\ enrolled' = [enrolled EXCEPT ![u] = e0]
      BY <1>0, <1>6, <2>2 DEF Connect, Quit
    <3> QED
      BY <1>0, <1>1, <3>1, ClientMoves
  <2> QED
    BY <1>6, <2>1, <2>2 DEF Connect
<1>7. CASE ServeHTTP(u)
  <2>1. PICK result \in {"ok", "refused", "error"} :
          /\ p0.pc = "check" /\ daemon.up /\ UNCHANGED <<authVars, home, enrolled>>
          /\ checkAuthorized(p0.cmd, p0.key, result)
          /\ IF result = "ok" THEN Goto(u, "handle") ELSE Reply(u, result)
    BY <1>7 DEF ServeHTTP, At
  <2>2. CASE result = "ok"
    <3> DEFINE p == [p0 EXCEPT !.pc = "handle"]
    <3>1. p0.cmd # "enroll" /\ config.mode = "certs-file" => Listed(p0.key)
      BY <2>1, <2>2 DEF checkAuthorized, checkCertificateAuthorized, Listed
    <3>2. proc' = [proc EXCEPT ![u] = p]
      BY <2>1, <2>2 DEF Goto
    <3>3. p \in ProcType /\ p.pc = "handle" /\ p.key = p0.key /\ p.cmd = p0.cmd
      BY <1>0 DEF ProcType
    <3>4. Fits(p, h0, e0)
      BY <1>0, <2>1, <3>1, <3>3 DEF Fits, Served
    <3> HIDE DEF p
    <3> QED
      BY <1>0, <2>1, <3>2, <3>3, <3>4, ClientMoves
  <2>3. CASE result # "ok"
    <3> DEFINE p == [p0 EXCEPT !.pc = "reply", !.ok = FALSE, !.revoked = FALSE]
    <3>1. proc' = [proc EXCEPT ![u] = p]
      BY <2>1, <2>3 DEF Reply
    <3>2. p \in ProcType /\ p.pc = "reply" /\ p.key = p0.key /\ p.cmd = p0.cmd /\ ~p.ok
      BY <1>0 DEF ProcType
    <3>3. Fits(p, h0, e0)
      BY <1>0, <2>1, <3>2 DEF Fits, Served
    <3> HIDE DEF p
    <3> QED
      BY <1>0, <2>1, <3>1, <3>2, <3>3, ClientMoves, ZenonT(60)
  <2> QED
    BY <2>2, <2>3
<1>8. CASE Receive(u)
  <2> DEFINE e == IF p0.cmd = "enroll" /\ p0.ok /\ ~p0.revoked THEN p0.key ELSE e0
  <2>1. /\ proc' = [proc EXCEPT ![u] = Idle] /\ enrolled' = [enrolled EXCEPT ![u] = e]
        /\ UNCHANGED <<authVars, home>> /\ p0.pc = "reply"
    BY <1>0, <1>8 DEF Receive, At, Quit
  <2>2. e \in Keys \cup {None} /\ Fits(Idle, h0, e)
    BY <1>0, <2>1 DEF Fits, Served, Idle
  <2> HIDE DEF e
  <2> QED
    BY <1>0, <1>1, <2>1, <2>2, ClientMoves
<1>9. CASE ClientEnds(u)
  <2>1. proc' = [proc EXCEPT ![u] = Idle] /\ UNCHANGED <<authVars, enrolled>>
    BY <1>9 DEF ClientEnds, Quit
  <2>2. PICK h \in HomeType : home' = [home EXCEPT ![u] = h] /\ Fits(Idle, h, e0)
    <3>1. CASE UNCHANGED home
      BY <1>0, <1>1, <3>1
    <3>2. CASE p0.pc = "mintCert" /\ home' = [home EXCEPT ![u].cert = Torn]
      <4> DEFINE h == [h0 EXCEPT !.cert = Torn]
      <4>1. h \in HomeType /\ home' = [home EXCEPT ![u] = h]
        BY <1>0, <3>2 DEF HomeType
      <4>2. Fits(Idle, h, e0)
        BY <1>0, <3>2 DEF Fits, Served, Idle
      <4> QED
        BY <4>1, <4>2
    <3>3. CASE p0.pc = "mintKey" /\ home' = [home EXCEPT ![u].key = Torn]
      <4> DEFINE h == [h0 EXCEPT !.key = Torn]
      <4>1. h \in HomeType /\ home' = [home EXCEPT ![u] = h]
        BY <1>0, <3>3 DEF HomeType
      <4>2. Fits(Idle, h, e0)
        BY <1>0, <3>3 DEF Fits, Served, Idle
      <4> QED
        BY <4>1, <4>2
    <3>4. CASE home' = [home EXCEPT ![u].pin = -1]
      <4> DEFINE h == [h0 EXCEPT !.pin = -1]
      <4>1. /\ h \in HomeType /\ home' = [home EXCEPT ![u] = h]
            /\ h.cert = h0.cert /\ h.key = h0.key
        BY <1>0, <3>4 DEF HomeType
      <4>2. Fits(Idle, h, e0)
        BY <1>1, <4>1 DEF Fits
      <4> QED
        BY <4>1, <4>2
    <3> QED
      BY <1>9, <3>1, <3>2, <3>3, <3>4 DEF ClientEnds, At
  <2> QED
    BY <1>0, <1>1, <2>1, <2>2, ClientMoves
<1> QED
  <2>1. ASSUME NEW code \in KnownCodes PROVE code \in Nat
    BY DEF KnownCodes, AccessInv, AuthTypes
  <2> QED
    BY <1>2, <1>3, <1>4, <1>5, <1>6, <1>7, <1>8, <1>9, <2>1 DEF Commands

\* The handlers of the daemon.
LEMMA HandleStep ==
  ASSUME AccessInv, NEW u \in Users, Handle(u)
  PROVE  AccessInv'
<1> DEFINE p0 == proc[u]
<1>0. /\ p0 \in ProcType /\ Fits(p0, home[u], enrolled[u]) /\ AuthTypes /\ DaemonSane /\ UserTypes
      /\ p0.pc = "handle" /\ daemon.up /\ p0.key \in Keys
  BY DEF AccessInv, UserTypes, UserSane, Handle, At, Fits, Served
<1>k. PICK k0 \in Keys : k0 = p0.key
  BY <1>0
<1>1. PICK result \in {"ok", "refused", "error"} :
        /\ Reply(u, result)
        /\ \/ p0.cmd = "enroll" /\ blindEnrollHandler(p0.key, p0.code, result)
           \/ p0.cmd = "enable-enroll" /\ enableEnrollHandler(result)
           \/ p0.cmd = "silos" /\ result = "ok" /\ UNCHANGED authVars
  BY DEF Handle
<1> DEFINE ok == result = "ok"
           p == [p0 EXCEPT !.pc = "reply", !.ok = ok, !.revoked = FALSE]
<1>2. /\ proc' = [proc EXCEPT ![u] = p] /\ UNCHANGED <<home, enrolled, config>>
  <2>1. UNCHANGED config
    BY <1>1 DEF blindEnrollHandler, enableEnrollHandler, authVars
  <2> QED
    BY <1>1, <2>1 DEF Reply, Handle
<1>3. p \in ProcType /\ p.pc = "reply" /\ p.key = k0 /\ p.cmd = p0.cmd /\ (p.ok <=> ok)
  BY <1>0, <1>k DEF ProcType
<1> DEFINE Grown == /\ certs' \in Seq(Lines) /\ \A k : Listed(k) => Listed(k)'
                    /\ p0.cmd = "enroll" /\ ok => Listed(k0)'
                    /\ certs' = certs \/ config.certsFile
<1>4. Grown
  <2>1. CASE certs' = certs /\ ~(p0.cmd = "enroll" /\ ok)
    BY <1>0, <2>1 DEF AuthTypes, Listed
  <2>2. ASSUME NEW x \in Lines, certs' = Append(certs, x), config.certsFile,
               p0.cmd = "enroll" /\ ok => x.key = k0
        PROVE  Grown
    <3>1. certs \in Seq(Lines)
      BY <1>0 DEF AuthTypes
    <3>2. certs' \in Seq(Lines) /\ \A k : Listed(k) => Listed(k)'
      BY <1>0, <2>2, FileGrows
    <3>3. Len(certs) + 1 \in DOMAIN certs' /\ certs'[Len(certs) + 1] = x
      BY <2>2, <3>1
    <3>4. x.key = k0 => Listed(k0)'
      BY <3>3 DEF Listed
    <3> QED
      BY <2>2, <3>2, <3>4
  <2>3. CASE p0.cmd = "enroll" /\ EnrolmentOpen(p0.code) /\ enrollCertificate(k0, result)
    <3>1. \A key \in {k0, None}, readable \in BOOLEAN :
            Line(key, readable) \in Lines /\ Line(key, readable).key = key
      BY <1>k DEF Line, Lines
    <3>2. CASE certs' = certs /\ result = "error"
      BY <2>1, <3>2
    <3>3. ASSUME NEW key \in {k0, None}, NEW readable \in BOOLEAN, config.certsFile,
                 certs' = Append(certs, Line(key, readable)), ok => key = k0
          PROVE  Grown
      <4>1. PICK x \in Lines : x = Line(key, readable) /\ x.key = key
        BY <3>1
      <4> HIDE DEF Grown
      <4> QED
        BY <2>2, <3>3, <4>1
    <3> HIDE DEF Grown
    <3> QED
      BY <2>3, <3>2, <3>3 DEF enrollCertificate
  <2> HIDE DEF Grown
  <2>4. CASE p0.cmd = "enroll" /\ blindEnrollHandler(p0.key, p0.code, result)
    BY <1>k, <2>1, <2>3, <2>4 DEF blindEnrollHandler
  <2>5. CASE p0.cmd # "enroll"
    BY <1>1, <2>1, <2>5 DEF enableEnrollHandler, authVars
  <2> QED
    BY <1>1, <2>4, <2>5
<1>5. /\ AuthTypes' /\ DaemonSane' /\ daemon'.up = daemon.up
  <2>1. CASE UNCHANGED <<now, file, config, daemon, starts, codes>>
    BY <1>0, <1>4, <2>1 DEF AuthTypes, DaemonSane
  <2>2. CASE enableEnrollHandler(result)
    <3> DEFINE deadline == now + config.window
    <3>1. UNCHANGED <<now, file, config, starts, certs>>
      BY <2>2 DEF enableEnrollHandler
    <3>2. now \in Nat /\ config.window \in Int /\ codes \in Nat
      BY <1>0 DEF AuthTypes, ConfigType
    <3>3. /\ daemon' \in DaemonType /\ codes' \in Nat
          /\ daemon'.up = daemon.up /\ daemon'.deadline = deadline /\ daemon'.cert = daemon.cert
          /\ daemon'.key = codes' \/ (daemon'.key = daemon.key /\ codes' = codes)
      <4> HIDE DEF p0, p, ok, Grown
      <4>1. deadline \in Int /\ daemon \in DaemonType
        BY <1>0, <3>2 DEF AuthTypes
      <4>2. CASE daemon' = [daemon EXCEPT !.deadline = deadline, !.key = codes + 1] /\ codes' = codes + 1
        <5> DEFINE key == codes + 1
        <5>0. key \in Nat /\ codes' = key /\ daemon' = [daemon EXCEPT !.deadline = deadline, !.key = key]
          BY <3>2, <4>2
        <5> HIDE DEF deadline, key
        <5>1. daemon' \in DaemonType
          BY <4>1, <5>0 DEF DaemonType
        <5>2. /\ daemon'.up = daemon.up /\ daemon'.deadline = deadline
              /\ daemon'.cert = daemon.cert /\ daemon'.key = key
          BY <4>1, <5>0 DEF DaemonType
        <5> QED
          BY <5>0, <5>1, <5>2
      <4>3. CASE daemon' = [daemon EXCEPT !.deadline = deadline] /\ codes' = codes
        <5> HIDE DEF deadline
        <5>1. daemon' \in DaemonType
          BY <4>1, <4>3 DEF DaemonType
        <5>2. /\ daemon'.up = daemon.up /\ daemon'.deadline = deadline
              /\ daemon'.cert = daemon.cert /\ daemon'.key = daemon.key
          BY <4>1, <4>3 DEF DaemonType
        <5> QED
          BY <3>2, <4>3, <5>1, <5>2
      <4> QED
        BY <2>2, <4>2, <4>3 DEF enableEnrollHandler
    <3>4. AuthTypes'
      BY <1>0, <1>4, <3>1, <3>3 DEF AuthTypes
    <3>5. DaemonSane'
      BY <1>0, <3>1, <3>2, <3>3 DEF DaemonSane
    <3> QED
      BY <3>3, <3>4, <3>5
  <2> QED
    BY <1>1, <2>1, <2>2 DEF blindEnrollHandler, authVars
<1> HIDE DEF p0, p, ok
<1>6. /\ UserTypes' /\ proc'[u] = p /\ home'[u] = home[u] /\ enrolled'[u] = enrolled[u]
      /\ \A v \in Users : v # u => proc'[v] = proc[v] /\ home'[v] = home[v] /\ enrolled'[v] = enrolled[v]
  BY <1>0, <1>2, <1>3 DEF UserTypes
<1>7. UserSane(u)'
  <2>1. PICK e : e = enrolled[u]
    OBVIOUS
  <2>2. /\ home[u].cert = k0 /\ home[u].key = k0
        /\ e # None => home[u].cert = e /\ home[u].key = e /\ Listed(e)
    BY <1>0, <1>k, <2>1 DEF Fits, Served
  <2>3. e # None => Listed(e)'
    BY <1>4, <2>2
  <2>4. p.cmd = "enroll" /\ p.ok => Listed(k0)'
    BY <1>3, <1>4
  <2>5. daemon'.up /\ enrolled'[u] = e /\ home'[u] = home[u] /\ proc'[u] = p
    BY <1>0, <1>5, <1>6, <2>1
  <2> HIDE DEF Grown
  <2> QED
    BY <1>3, <2>2, <2>3, <2>4, <2>5 DEF UserSane, Fits, Served, Listed
<1> QED
  BY <1>2, <1>4, <1>5, <1>6, <1>7, OneUserMoves

LEMMA AccessInvStep ==
  ASSUME AccessInv, [Next]_vars
  PROVE  AccessInv'
<1>1. CASE UNCHANGED vars
  BY <1>1 DEF vars, authVars, clientVars, AccessInv, AuthTypes, UserTypes, DaemonSane, UserSane,
              Fits, Served, Listed
<1>2. CASE (Tick \/ NewServer \/ EmbedPrintedCert) /\ UNCHANGED clientVars
  BY <1>2, DaemonSteps
<1>3. CASE EditCerts \/ Crash
  BY <1>3, EditStep, CrashStep
<1>4. ASSUME NEW u \in Users,
             \/ \E code \in KnownCodes : Run(u, "enroll", code)
             \/ \E cmd \in {"enable-enroll", "silos"} : Run(u, cmd, 0)
             \/ LoadPair(u) \/ MintCert(u) \/ MintKey(u) \/ Connect(u)
             \/ ServeHTTP(u) \/ Handle(u) \/ Receive(u) \/ ClientEnds(u)
      PROVE  AccessInv'
  BY <1>4, ClientSteps, HandleStep
<1> QED
  BY <1>1, <1>2, <1>3, <1>4 DEF Next

-----------------------------------------------------------------------------
\* The counters: none is followed past its bound.
Counts == now <= MaxTime /\ starts <= MaxStarts /\ codes <= MaxCodes

LEMMA CountsStep ==
  ASSUME AccessInv, Counts, [Next]_vars
  PROVE  Counts'
<1>1. /\ now \in Nat /\ starts \in Nat /\ codes \in Nat
      /\ MaxTime \in Nat /\ MaxStarts \in Nat /\ MaxCodes \in Nat
  BY AuthAssumption DEF AccessInv, AuthTypes
<1>2. \/ UNCHANGED <<now, starts, codes>>
      \/ now < MaxTime /\ now' = now + 1 /\ UNCHANGED <<starts, codes>>
      \/ /\ starts < MaxStarts /\ starts' = starts + 1 /\ UNCHANGED now
         /\ codes' = codes \/ (codes < MaxCodes /\ codes' = codes + 1)
      \/ codes < MaxCodes /\ codes' = codes + 1 /\ UNCHANGED <<now, starts>>
  <2>1. CASE UNCHANGED vars
    BY <2>1 DEF vars, authVars
  <2>2. CASE Tick \/ NewServer \/ EmbedPrintedCert
    BY <2>2 DEF Tick, NewServer, EmbedPrintedCert
  <2>3. CASE EditCerts \/ Crash
    BY <2>3 DEF EditCerts, RemoveLine, Crash, DaemonEnds
  <2>4. ASSUME NEW u \in Users,
               \/ \E code \in KnownCodes : Run(u, "enroll", code)
               \/ \E cmd \in {"enable-enroll", "silos"} : Run(u, cmd, 0)
               \/ LoadPair(u) \/ MintCert(u) \/ MintKey(u) \/ Connect(u)
               \/ ServeHTTP(u) \/ Receive(u) \/ ClientEnds(u)
        PROVE  UNCHANGED <<now, starts, codes>>
    BY <2>4 DEF Run, LoadPair, MintCert, MintKey, Connect, ServeHTTP, Receive, ClientEnds, authVars
  <2>5. ASSUME NEW u \in Users, Handle(u)
        PROVE  /\ UNCHANGED <<now, starts>>
               /\ codes' = codes \/ (codes < MaxCodes /\ codes' = codes + 1)
    BY <2>5 DEF Handle, blindEnrollHandler, enableEnrollHandler, authVars
  <2> QED
    BY <2>1, <2>2, <2>3, <2>4, <2>5 DEF Next
<1> QED
  BY <1>1, <1>2 DEF Counts

-----------------------------------------------------------------------------
\* The results.

\* The invariant holds in every state.
THEOREM AccessInvariant == Spec => []AccessInv
  BY AccessInvInit, AccessInvStep, PTL DEF Spec

\* The clock, the counters, the certs file and the files and commands of the
\* users have their types; the bounds on the counters hold.
THEOREM AccessTypeCorrect == Spec => []AccessTypeOK
<1>1. Init => Counts
  BY AuthAssumption DEF Init, AuthInit, Counts
<1>2. AccessInv /\ Counts => AccessTypeOK
  <2> SUFFICES ASSUME AccessInv, Counts PROVE AccessTypeOK
    OBVIOUS
  <2>1. /\ now \in 0..MaxTime /\ starts \in 0..MaxStarts /\ codes \in 0..MaxCodes
    BY AuthAssumption DEF AccessInv, AuthTypes, Counts
  <2> QED
    BY <2>1 DEF AccessInv, AuthTypes, UserTypes, DaemonType, ProcType, HomeType, AccessTypeOK
<1> QED
  BY <1>1, <1>2, CountsStep, AccessInvariant, PTL DEF Spec

\* A user who was told that they are enrolled keeps their key pair and their line
\* and is never told otherwise, whatever crashes, restarts, failed writes and other
\* enrolments come between and whatever other lines the administrator takes out.
\* They are let in unless a line above theirs or their own ends the search.
THEOREM EnrolmentLasts == Spec => []EnrolledClientAccepted
<1>1. AccessInv => EnrolledClientAccepted
  <2> SUFFICES ASSUME AccessInv, NEW u \in Users, NEW k, k = enrolled[u], k # None
               PROVE  /\ home[u].cert = k /\ home[u].key = k
                      /\ Listed(k) /\ ~checkCertificateAuthorized(k, "refused")
                      /\ \A i \in DOMAIN certs :
                           certs[i].key = k /\ Reached(i) => checkCertificateAuthorized(k, "ok")
    BY DEF EnrolledClientAccepted
  <2>1. /\ home[u].cert = k /\ home[u].key = k /\ Listed(k)
        /\ certs \in Seq(Lines) /\ (config.certsFile \/ certs = <<>>)
    BY DEF AccessInv, UserSane, Fits, AuthTypes, DaemonSane
  <2>2. config.certsFile
    BY <2>1 DEF Listed
  <2>3. PICK i \in DOMAIN certs : certs[i].key = k
    BY <2>1 DEF Listed
  <2>4. ~checkCertificateAuthorized(k, "refused")
    <3>1. Reached(i) \/ \E j \in DOMAIN certs : ~certs[j].readable
      BY <2>1 DEF Reached
    <3> QED
      BY <2>3, <3>1 DEF checkCertificateAuthorized
  <2>5. ASSUME NEW j \in DOMAIN certs, certs[j].key = k, Reached(j)
        PROVE  checkCertificateAuthorized(k, "ok")
    BY <2>2, <2>5 DEF checkCertificateAuthorized
  <2> QED
    BY <2>1, <2>4, <2>5
<1> QED
  BY <1>1, AccessInvariant, PTL

\* In certs-file mode the handler of a command runs only for a key that is in the
\* file, or that the administrator took out after ServeHTTP had looked: nothing
\* else that happens before the lock is taken removes a line.
THEOREM CommandsAuthorised == Spec => []CommandsNeedEnrolment
<1>1. AccessInv => CommandsNeedEnrolment
  BY DEF AccessInv, UserSane, Fits, CommandsNeedEnrolment, At
<1> QED
  BY <1>1, AccessInvariant, PTL

\* A client that pinned the certificate of the configuration file meets it
\* after every restart.
THEOREM PinsLast == Spec => []PinSurvivesRestart
<1>1. AccessInv => PinSurvivesRestart
  BY DEF AccessInv, DaemonSane, PinSurvivesRestart
<1> QED
  BY <1>1, AccessInvariant, PTL

\* In certs-file mode the daemon adds a line to the file only with the last code
\* issued, while the window is open, and never if the window is turned off.
THEOREM EnrolmentGuarded == Spec => EnrolmentOnlyInWindow
<1> DEFINE Guarded == Len(certs') > Len(certs) /\ config.mode = "certs-file" =>
                        /\ config.window > 0 /\ daemon.up /\ now <= daemon.deadline
                        /\ \E u \in Users : At(u, "handle") /\ ~At(u, "handle")' /\ proc[u].code = codes
<1>1. AccessInv /\ [Next]_vars => [Guarded]_vars
  <2> SUFFICES ASSUME AccessInv, Next, Len(certs') > Len(certs), config.mode = "certs-file"
               PROVE  /\ config.window > 0 /\ daemon.up /\ now <= daemon.deadline
                      /\ \E u \in Users : At(u, "handle") /\ ~At(u, "handle")' /\ proc[u].code = codes
    OBVIOUS
  <2>0. certs' # certs /\ ~EditCerts
    <3>1. Len(certs) \in Nat /\ certs' # certs
      BY DEF AccessInv, AuthTypes
    <3>2. ASSUME NEW i \in DOMAIN certs, RemoveLine(i) PROVE FALSE
      <4>1. Len(certs) - 1 \in Nat /\ Len(certs) \in Nat
        BY DEF AccessInv, AuthTypes
      <4>2. Len(certs') = Len(certs) - 1
        BY <3>2, <4>1 DEF RemoveLine
      <4> QED
        BY <4>1, <4>2
    <3> QED
      BY <3>1, <3>2 DEF EditCerts
  <2>1. PICK u \in Users : Handle(u)
    BY <2>0 DEF Next, Tick, NewServer, EmbedPrintedCert, Crash, DaemonEnds, Run, LoadPair, MintCert, MintKey,
           Connect, ServeHTTP, Receive, ClientEnds, authVars
  <2>2. /\ daemon.up /\ At(u, "handle") /\ EnrolmentOpen(proc[u].code)
        /\ \E result \in {"ok", "refused", "error"} : Reply(u, result)
    BY <2>0, <2>1 DEF Handle, blindEnrollHandler, enableEnrollHandler, authVars
  <2>3. now <= daemon.deadline /\ proc[u].code = daemon.key
    BY <2>2 DEF EnrolmentOpen
  <2>4. config.window > 0
    <3>1. /\ now \in Nat /\ daemon.deadline \in Int /\ config.window \in Int /\ config.window # 0
          /\ daemon.deadline = -1 \/ daemon.deadline <= now + config.window
      BY <2>2 DEF AccessInv, AuthTypes, DaemonType, ConfigType, DaemonSane
    <3> QED
      BY <2>3, <3>1
  <2>5. daemon.key = codes
    BY <2>2, <2>4 DEF AccessInv, DaemonSane
  <2>6. ~At(u, "handle")'
    BY <2>2 DEF Reply, At, AccessInv, UserTypes, ProcType
  <2> QED
    BY <2>2, <2>3, <2>4, <2>5, <2>6
<1> QED
  BY <1>1, AccessInvariant, PTL DEF Spec, EnrolmentOnlyInWindow
=============================================================================
