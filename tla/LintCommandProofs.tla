-------------------------- MODULE LintCommandProofs --------------------------
(* Proofs about LintCommand, for any number of commands and daemons.       *)
EXTENDS LintCommand, TLAPS

(* A daemon that serves owns the socket at the path, or somebody took its  *)
(* socket away.  The path belongs to one daemon at a time: OneDaemon.      *)
Owners ==
  /\ sock \in Daemons \cup {Nobody}
  /\ daemon \in [Daemons -> {"unborn", "starting", "probing", "replacing", "binding",
                             "serving", "draining", "gone"}]
  /\ \A d \in Daemons : Serving(d) => sock = d \/ d \in removed

(* Removing the path costs every other daemon that listens its socket, and *)
(* history says so.                                                        *)
LEMMA RemovalIsRecorded ==
  ASSUME Owners, NEW e \in Daemons, RemovePath(e),
         NEW to \in {"binding", "draining", "gone"}, Goes(e, to)
  PROVE  Owners'
  BY NobodyAssumption DEF Owners, RemovePath, Goes, Serving, Listening

(* A process that only moves on, and never into service, disturbs nothing. *)
LEMMA MovingOn ==
  ASSUME Owners, NEW e \in Daemons, Goes(e, "gone") \/ Goes(e, "starting")
           \/ Goes(e, "probing") \/ Goes(e, "replacing") \/ Goes(e, "binding"),
         sock' = sock, \A d \in Daemons \ {e} : d \in removed => d \in removed'
  PROVE  Owners'
  BY DEF Owners, Goes, Serving

(* Commands touch no socket file, and no process but the one they spawn.   *)
LEMMA CommandsLeaveSockets ==
  ASSUME NEW c \in Commands, CommandStep(c) \/ Take(c) \/ Settle(c)
  PROVE  /\ UNCHANGED fileVars /\ UNCHANGED found /\ UNCHANGED <<sock, removed>>
         /\ daemon' = daemon \/ SpawnDaemon
<1>1. CASE CommandStep(c)
  BY <1>1 DEF CommandStep, Ask, FailToConnect, Receive, SeeClose, TimeOut, daemonVars, fileVars
<1>2. CASE Take(c) \/ Settle(c)
  BY <1>2 DEF Take, Settle, fileVars
<1> QED
  BY <1>1, <1>2

(* Owners is inductive.                                                    *)
LEMMA OwnersInductive == Owners /\ [Next]_vars => Owners'
<1> SUFFICES ASSUME Owners, [Next]_vars PROVE Owners'
  OBVIOUS
<1>1. ASSUME NEW d \in Daemons, DaemonStep(d) PROVE Owners'
  <2>1. CASE Start(d)
    BY <2>1, MovingOn DEF Start, fileVars
  <2>2. CASE CheckPath(d)
    <3>1. Goes(d, "binding") \/ Goes(d, "probing")
      BY <2>2 DEF CheckPath
    <3> QED
      BY <3>1, <2>2, MovingOn DEF CheckPath, fileVars
  <2>3. CASE Probe(d)
    BY <2>3, MovingOn DEF Probe, Ends, fileVars
  <2>4. CASE Replace(d)
    BY <2>4, RemovalIsRecorded DEF Replace
  <2>5. CASE Bind(d)
    <3>1. CASE Binds /\ Goes(d, "serving") /\ sock' = d /\ UNCHANGED removed
      BY <3>1, NobodyAssumption DEF Owners, Goes, Serving, Binds
    <3> QED
      BY <3>1, <2>5, MovingOn DEF Bind, Ends, fileVars
  <2>6. CASE Shutdown(d)
    BY <2>6, RemovalIsRecorded DEF Shutdown
  <2>7. CASE EndDrain(d)
    BY <2>7, RemovalIsRecorded DEF EndDrain, Ends
  <2>8. CASE Crash(d)
    BY <2>8, MovingOn DEF Crash, Ends
  <2> QED
    BY <1>1, <2>1, <2>2, <2>3, <2>4, <2>5, <2>6, <2>7, <2>8 DEF DaemonStep, FireIdle
<1>2. ASSUME NEW c \in Commands, CommandStep(c) \/ Take(c) \/ Settle(c) PROVE Owners'
  <2>1. CASE daemon' = daemon
    BY <1>2, <2>1, CommandsLeaveSockets DEF Owners, Serving
  <2>2. CASE SpawnDaemon
    BY <1>2, <2>2, CommandsLeaveSockets DEF Owners, Serving, SpawnDaemon, Goes
  <2> QED
    BY <1>2, <2>1, <2>2, CommandsLeaveSockets
<1>3. CASE UNCHANGED vars
  BY <1>3 DEF vars, fileVars, daemonVars, Owners, Serving
<1> QED
  BY <1>1, <1>2, <1>3 DEF Next

(* Two daemons serve one project only when a socket file was removed under *)
(* one of them (startDaemon's unlink, shutdown's unlink).                  *)
THEOREM AtMostOneDaemon == Spec => []OneDaemon
<1>1. Init => Owners
  BY DEF Init, Owners, Serving
<1>2. Owners => OneDaemon
  BY DEF Owners, OneDaemon
<1> QED
  BY <1>1, <1>2, OwnersInductive, PTL DEF Spec
------------------------------------------------------------------------------
(* A daemon that has served never serves again: the file at the path is    *)
(* that of one that serves or has served, and what a probe found dead is   *)
(* of one that has.                                                        *)
Past(d) == daemon[d] \in {"draining", "gone"}
Probes ==
  /\ found \in [Daemons -> Daemons \cup {Nobody}]
  /\ \A d \in Daemons : sock = d => Serving(d) \/ Past(d)
  /\ \A d, e \in Daemons : found[e] = d => Past(d)

(* Probes survives a step that forgets what was found, or keeps it, and    *)
(* brings nobody back from the past.                                       *)
LEMMA PastIsKept ==
  ASSUME Owners, Probes, NEW e \in Daemons,
         NEW to \in {"probing", "replacing", "binding", "draining", "gone"},
         Goes(e, to), to \in {"draining", "gone"} \/ (~Serving(e) /\ ~Past(e)),
         found' = found \/ found' = [found EXCEPT ![e] = Nobody],
         sock' = sock \/ sock' = Nobody
  PROVE  Probes'
  BY NobodyAssumption DEF Owners, Probes, Goes, Serving, Past

(* Probes is inductive, with Owners.                                       *)
LEMMA ProbesInductive == Owners /\ Probes /\ [Next]_vars => Probes'
<1> SUFFICES ASSUME Owners, Probes, [Next]_vars PROVE Probes'
  OBVIOUS
<1>1. ASSUME NEW d \in Daemons, DaemonStep(d) PROVE Probes'
  <2>1. CASE Start(d)
    BY <2>1, NobodyAssumption DEF Start, Unborn, Owners, Probes, Goes, Serving, Past, fileVars
  <2>2. CASE CheckPath(d)
    <3>1. Goes(d, "binding") \/ Goes(d, "probing")
      BY <2>2 DEF CheckPath
    <3> QED
      BY <3>1, <2>2, PastIsKept DEF CheckPath, fileVars, Serving, Past
  <2>3. CASE Probe(d)
    <3>1. CASE Ends(d)
      BY <3>1, <2>3, PastIsKept DEF Probe, Ends, fileVars
    <3>2. CASE Goes(d, "replacing") /\ UNCHANGED found
      BY <3>2, <2>3, PastIsKept DEF Probe, fileVars, Serving, Past
    <3>3. CASE ~Alive /\ Goes(d, "replacing") /\ found' = [found EXCEPT ![d] = sock]
      <4>1. sock \in Daemons => Past(sock)
        BY <3>3 DEF Alive, Listening, Probes
      <4> QED
        BY <3>3, <4>1, <2>3, NobodyAssumption
        DEF Probe, Owners, Probes, Goes, Serving, Past, fileVars
    <3> QED
      BY <3>1, <3>2, <3>3, <2>3 DEF Probe
  <2>4. CASE Replace(d)
    BY <2>4, PastIsKept DEF Replace, RemovePath, Serving, Past
  <2>5. CASE Bind(d)
    <3>1. CASE Ends(d) /\ UNCHANGED fileVars
      BY <3>1, <2>5, PastIsKept DEF Ends, fileVars
    <3>2. CASE Binds /\ Goes(d, "serving") /\ sock' = d /\ UNCHANGED found
      BY <3>2, <2>5, NobodyAssumption DEF Bind, Owners, Probes, Goes, Serving, Past
    <3> QED
      BY <3>1, <3>2, <2>5 DEF Bind
  <2>6. CASE Shutdown(d)
    BY <2>6, PastIsKept DEF Shutdown, RemovePath
  <2>7. CASE EndDrain(d)
    BY <2>7, PastIsKept DEF EndDrain, RemovePath, Ends
  <2>8. CASE Crash(d)
    BY <2>8, PastIsKept DEF Crash, Ends
  <2> QED
    BY <1>1, <2>1, <2>2, <2>3, <2>4, <2>5, <2>6, <2>7, <2>8 DEF DaemonStep, FireIdle
<1>2. ASSUME NEW c \in Commands, CommandStep(c) \/ Take(c) \/ Settle(c) PROVE Probes'
  <2>1. CASE daemon' = daemon
    BY <1>2, <2>1, CommandsLeaveSockets DEF Probes, Serving, Past
  <2>2. CASE SpawnDaemon
    BY <1>2, <2>2, CommandsLeaveSockets DEF Owners, Probes, Serving, Past, SpawnDaemon, Goes, Unborn
  <2> QED
    BY <1>2, <2>1, <2>2, CommandsLeaveSockets
<1>3. CASE UNCHANGED vars
  BY <1>3 DEF vars, fileVars, daemonVars, Probes, Serving, Past
<1> QED
  BY <1>1, <1>2, <1>3 DEF Next

(* A serving daemon loses its socket file to itself, or to the three steps *)
(* that remove the path without knowing whose it is.                       *)
LEMMA RemoversAreKnown ==
  ASSUME Owners, Probes, [Next]_vars, NEW d \in Listening, sock' # d
  PROVE  \/ Shutdown(d)
         \/ \E e \in Daemons : Replace(e) /\ found[e] # d
         \/ \E e \in Daemons : EndDrain(e)
         \/ \E e \in removed : Shutdown(e)
<1>1. d \in Daemons /\ Serving(d) /\ sock = d
  BY DEF Listening
<1>2. ASSUME NEW c \in Commands, CommandStep(c) \/ Take(c) \/ Settle(c) PROVE FALSE
  BY <1>1, <1>2, CommandsLeaveSockets
<1>3. ASSUME NEW e \in Daemons, DaemonStep(e)
      PROVE  Replace(e) \/ EndDrain(e) \/ Shutdown(e)
  <2>1. Start(e) \/ CheckPath(e) \/ Probe(e) \/ Crash(e) => sock' = sock
    BY DEF Start, CheckPath, Probe, Crash, fileVars
  <2>2. ~Bind(e)
    BY <1>1, NobodyAssumption DEF Bind, Binds, fileVars
  <2> QED
    BY <1>1, <1>3, <2>1, <2>2 DEF DaemonStep, FireIdle
<1>4. ASSUME NEW e \in Daemons, Replace(e) PROVE found[e] # d
  BY <1>1 DEF Probes, Serving, Past
<1>5. ASSUME NEW e \in Daemons, Shutdown(e), e # d PROVE e \in removed
  BY <1>1, <1>5 DEF Shutdown, Owners
<1>6. ~UNCHANGED vars
  BY <1>1 DEF vars, fileVars
<1> QED
  BY <1>2, <1>3, <1>4, <1>5, <1>6 DEF Next

(* The socket file of a daemon that serves is removed only in the ways     *)
(* OnlyStaleSocketsGo names (startDaemon, shutdown).                       *)
THEOREM SocketsAreSafe == Spec => OnlyStaleSocketsGo
<1>1. Init => Owners /\ Probes
  BY NobodyAssumption DEF Init, Owners, Probes, Serving
<1>2. Owners /\ Probes /\ [Next]_vars =>
        [\A d \in Listening :
           sock' # d => \/ Shutdown(d)
                        \/ \E e \in Daemons : Replace(e) /\ found[e] # d
                        \/ \E e \in Daemons : EndDrain(e)
                        \/ \E e \in removed : Shutdown(e)]_vars
  BY RemoversAreKnown
<1> QED
  BY <1>1, <1>2, OwnersInductive, ProbesInductive, PTL DEF Spec, OnlyStaleSocketsGo
------------------------------------------------------------------------------
(* The part of the type that steps of a daemon leave alone.                *)
Places == {"unborn", "starting", "probing", "replacing", "binding", "serving", "draining", "gone"}
Messages == {"none", "request", "taken", "response", "error"}
CommandsHold ==
  /\ command \in [Commands -> {"connecting", "waiting", "printed answer", "printed own"}]
  /\ tries \in [Commands -> 0..MaxRetries]
  /\ peer \in [Commands -> Daemons \cup {Nobody}]
  /\ \A c \in Commands : command[c] = "connecting" <=> tries[c] < MaxRetries /\ peer[c] = Nobody

LEMMA TypeParts ==
  TypeOK <=> /\ sock \in Daemons \cup {Nobody} /\ removed \subseteq Daemons
             /\ daemon \in [Daemons -> Places] /\ idle \in [Daemons -> BOOLEAN]
             /\ found \in [Daemons -> Daemons \cup {Nobody}]
             /\ message \in [Commands -> Messages] /\ CommandsHold
  BY DEF TypeOK, Places, Messages, CommandsHold

(* What a process leaves behind when it ends.                              *)
LEMMA EndingKeepsTypes ==
  ASSUME TypeOK, NEW d \in Daemons, Ends(d), sock' \in Daemons \cup {Nobody}, removed' \subseteq Daemons
  PROVE  TypeOK'
<1>1. message' \in [Commands -> Messages]
  <2>1. message \in [Commands -> Messages]
    BY TypeParts
  <2> QED
    BY <2>1 DEF Ends, Messages
<1>2. daemon' \in [Daemons -> Places] /\ idle' \in [Daemons -> BOOLEAN]
      /\ found' \in [Daemons -> Daemons \cup {Nobody}]
  BY TypeParts DEF Ends, Goes, Places
<1>3. CommandsHold'
  BY TypeParts DEF Ends, commandVars, CommandsHold
<1> QED
  BY <1>1, <1>2, <1>3 DEF TypeOK, Places, Messages, CommandsHold

LEMMA DaemonKeepsTypes == ASSUME TypeOK, NEW d \in Daemons, DaemonStep(d) PROVE TypeOK'
<1>1. /\ sock \in Daemons \cup {Nobody} /\ removed \subseteq Daemons
      /\ daemon \in [Daemons -> Places] /\ idle \in [Daemons -> BOOLEAN]
      /\ found \in [Daemons -> Daemons \cup {Nobody}]
      /\ message \in [Commands -> Messages] /\ CommandsHold
  BY TypeParts
<1>2. CASE Ends(d)
  <2>1. sock' \in Daemons \cup {Nobody} /\ removed' \subseteq Daemons
    BY <1>1, <1>2 DEF DaemonStep, Start, CheckPath, Probe, Replace, Bind, Shutdown, FireIdle, EndDrain,
                      Crash, RemovePath, Listening, fileVars
  <2> QED
    BY <1>2, <2>1, EndingKeepsTypes
<1>3. CASE ~Ends(d)
  <2>1. UNCHANGED <<commandVars, message>>
    BY <1>3 DEF DaemonStep, Start, CheckPath, Probe, Replace, Bind, Shutdown, FireIdle, EndDrain, Crash
  <2>2. \E to \in Places : Goes(d, to)
    BY <1>3 DEF DaemonStep, Start, CheckPath, Probe, Replace, Bind, Shutdown, FireIdle, EndDrain, Crash, Places
  <2>3. daemon' \in [Daemons -> Places]
    BY <1>1, <2>2 DEF Goes
  <2>4. sock' \in Daemons \cup {Nobody} /\ removed' \subseteq Daemons
    BY <1>1, <1>3 DEF DaemonStep, Start, CheckPath, Probe, Replace, Bind, Shutdown, FireIdle, EndDrain,
                      Crash, RemovePath, Listening, fileVars
  <2>6. found' \in [Daemons -> Daemons \cup {Nobody}]
    BY <1>1, <1>3 DEF DaemonStep, Start, CheckPath, Probe, Replace, Bind, Shutdown, FireIdle, EndDrain, Crash
  <2>7. idle' \in [Daemons -> BOOLEAN]
    <3>1. \/ idle' = idle
          \/ idle' = [idle EXCEPT ![d] = TRUE]
          \/ idle' = [idle EXCEPT ![d] = FALSE]
      BY <1>3 DEF DaemonStep, Start, CheckPath, Probe, Replace, Bind, Shutdown, FireIdle, EndDrain, Crash
    <3> QED
      BY <1>1, <3>1
  <2>5. CommandsHold'
    BY <1>1, <2>1 DEF CommandsHold, commandVars
  <2> QED
    BY <1>1, <2>1, <2>3, <2>4, <2>5, <2>6, <2>7 DEF TypeOK, Places, Messages, CommandsHold
<1> QED
  BY <1>2, <1>3

(* A command connects once, and fails at most MaxRetries times.            *)
LEMMA CommandKeepsTypes ==
  ASSUME TypeOK, NEW c \in Commands, CommandStep(c) \/ Take(c) \/ Settle(c)
  PROVE  TypeOK'
<1>1. /\ sock \in Daemons \cup {Nobody} /\ removed \subseteq Daemons
      /\ daemon \in [Daemons -> Places] /\ idle \in [Daemons -> BOOLEAN]
      /\ found \in [Daemons -> Daemons \cup {Nobody}]
      /\ message \in [Commands -> Messages] /\ CommandsHold
  BY TypeParts
<1>2. sock' = sock /\ removed' = removed /\ found' = found /\ daemon' \in [Daemons -> Places]
  BY <1>1, CommandsLeaveSockets DEF SpawnDaemon, Goes, Places, Unborn
<1>3. idle' \in [Daemons -> BOOLEAN]
  <2>1. CASE CommandStep(c)
    BY <1>1, <2>1 DEF CommandStep, Ask, FailToConnect, Receive, SeeClose, TimeOut, daemonVars
  <2>2. CASE Take(c) \/ Settle(c)
    <3>1. \/ idle' = idle
          \/ idle' = [idle EXCEPT ![peer[c]] = Taken(peer[c]) # {}]
          \/ idle' = [idle EXCEPT ![peer[c]] = IdleAfter(c)]
      BY <2>2 DEF Take, Settle
    <3>2. (Taken(peer[c]) # {}) \in BOOLEAN /\ IdleAfter(c) \in BOOLEAN
      BY DEF IdleAfter, Serving
    <3>3. ASSUME NEW b \in BOOLEAN PROVE [idle EXCEPT ![peer[c]] = b] \in [Daemons -> BOOLEAN]
      BY <1>1
    <3> QED
      BY <1>1, <3>1, <3>2, <3>3
  <2> QED
    BY <2>1, <2>2
<1>4. message' \in [Commands -> Messages]
  BY <1>1 DEF CommandStep, Ask, FailToConnect, Receive, SeeClose, TimeOut, DestroySocket,
              Take, Settle, Reply, Messages
<1>5. CommandsHold'
  <2>1. CASE Ask(c)
    <3>1. sock \in Daemons
      BY <2>1 DEF Ask, Listening
    <3>2. command' = [command EXCEPT ![c] = "waiting"] \/ command' = [command EXCEPT ![c] = "printed own"]
      BY <2>1 DEF Ask
    <3>3. peer' = [peer EXCEPT ![c] = sock] /\ tries' = tries
      BY <2>1 DEF Ask
    <3> QED
      BY <1>1, <3>1, <3>2, <3>3, NobodyAssumption DEF CommandsHold
  <2>2. CASE FailToConnect(c)
    <3>1. /\ command[c] = "connecting" /\ peer' = peer /\ tries' = [tries EXCEPT ![c] = tries[c] + 1]
          /\ command' = IF tries[c] + 1 = MaxRetries THEN [command EXCEPT ![c] = "printed own"] ELSE command
      BY <2>2 DEF FailToConnect, LastTry, Prints
    <3>2. /\ tries[c] \in Nat /\ MaxRetries \in Nat /\ tries[c] < MaxRetries /\ peer[c] = Nobody
          /\ tries[c] + 1 \in 0..MaxRetries
          /\ tries[c] + 1 = MaxRetries <=> ~(tries[c] + 1 < MaxRetries)
      <4>1. tries[c] \in 0..MaxRetries /\ MaxRetries \in Nat
        BY <1>1, RetriesAssumption DEF CommandsHold
      <4>2. command[c] = "connecting"
        BY <3>1
      <4>3. tries[c] < MaxRetries /\ peer[c] = Nobody
        BY <1>1, <4>2 DEF CommandsHold
      <4> QED
        BY <4>1, <4>3
    <3>3. tries' \in [Commands -> 0..MaxRetries] /\ tries'[c] = tries[c] + 1
          /\ \A b \in Commands \ {c} : tries'[b] = tries[b] /\ command'[b] = command[b]
      BY <1>1, <3>1, <3>2 DEF CommandsHold
    <3>4. command' \in [Commands -> {"connecting", "waiting", "printed answer", "printed own"}]
          /\ command'[c] = IF tries[c] + 1 = MaxRetries THEN "printed own" ELSE "connecting"
      BY <1>1, <3>1 DEF CommandsHold
    <3> QED
      BY <1>1, <3>1, <3>2, <3>3, <3>4 DEF CommandsHold
  <2>3. CASE Receive(c) \/ SeeClose(c) \/ TimeOut(c)
    <3>1. /\ command[c] = "waiting" /\ tries' = tries /\ peer' = peer
          /\ \/ command' = [command EXCEPT ![c] = "printed answer"]
             \/ command' = [command EXCEPT ![c] = "printed own"]
      BY <2>3 DEF Receive, SeeClose, TimeOut, AwaitTimer, Prints
    <3> QED
      BY <1>1, <3>1 DEF CommandsHold
  <2>4. CASE Take(c) \/ Settle(c)
    BY <1>1, <2>4 DEF Take, Settle, commandVars, CommandsHold
  <2> QED
    BY <2>1, <2>2, <2>3, <2>4 DEF CommandStep
<1> QED
  BY <1>1, <1>2, <1>3, <1>4, <1>5 DEF TypeOK, Places, Messages, CommandsHold

(* The state of the commands and the daemons has its type: a command is    *)
(* connecting as long as, and no longer than, it has tries left and no     *)
(* peer (ensureDaemon).                                                    *)
THEOREM TypeCorrect == Spec => []TypeOK
<1>1. Init => TypeOK
  BY RetriesAssumption, NobodyAssumption DEF Init, TypeOK
<1>2. TypeOK /\ [Next]_vars => TypeOK'
  <2>1. ASSUME TypeOK, UNCHANGED vars PROVE TypeOK'
    BY <2>1 DEF TypeOK, vars, fileVars, daemonVars, commandVars
  <2> QED
    BY <2>1, DaemonKeepsTypes, CommandKeepsTypes DEF Next
<1> QED
  BY <1>1, <1>2, PTL DEF Spec
==============================================================================
