----------------------------- MODULE LintCommand -----------------------------
(***************************************************************************)
(* `ganko lint` and the daemons of one project: commands that connect to   *)
(* the daemon, start one, ask it and fall back to a lint of their own      *)
(* (packages/lsp/src/cli: lint.ts, daemon-client.ts, daemon-protocol.ts),  *)
(* and daemon processes that come and go around one socket path            *)
(* (daemon.ts).                                                            *)
(*                                                                         *)
(* These are operating-system processes: between any two file system or    *)
(* socket operations of one, the others run.  What a daemon does with the  *)
(* requests it took is SerialService; here it answers them in any order.   *)
(***************************************************************************)
EXTENDS Naturals, FiniteSets

CONSTANTS
  Commands,    \* runs of `ganko lint`
  Daemons,     \* daemon processes, one identity for each that is ever started
  Nobody,      \* the socket path does not exist; not connected
  MaxRetries   \* MAX_CONNECT_RETRIES, smaller

ASSUME NobodyAssumption == Nobody \notin Daemons
ASSUME RetriesAssumption == MaxRetries \in Nat \ {0}

VARIABLES
  sock,     \* whose socket file is at the path
  daemon,   \* daemon[d]: where process d is
  idle,     \* idle[d]: its idle timer is armed
  command,  \* command[c]: where command c is
  tries,    \* tries[c]: failed attempts to connect
  peer,     \* peer[c]: the daemon c is connected to
  message,  \* message[c]: c's request and its answer
  found,    \* history: found[d]: the socket file d's probe found dead
  removed   \* history: daemons whose socket file another removed while they served

fileVars == <<sock, removed>>
daemonVars == <<daemon, idle, found>>
commandVars == <<command, tries, peer>>
vars == <<fileVars, daemonVars, commandVars, message>>

TypeOK ==
  /\ sock \in Daemons \cup {Nobody}
  /\ daemon \in [Daemons -> {"unborn", "starting", "probing", "replacing", "binding",
                             "serving", "draining", "gone"}]
  /\ idle \in [Daemons -> BOOLEAN]
  /\ command \in [Commands -> {"connecting", "waiting", "printed answer", "printed own"}]
  /\ tries \in [Commands -> 0..MaxRetries]
  /\ peer \in [Commands -> Daemons \cup {Nobody}]
  /\ message \in [Commands -> {"none", "request", "taken", "response", "error"}]
  /\ found \in [Daemons -> Daemons \cup {Nobody}] /\ removed \subseteq Daemons
  /\ \A c \in Commands : command[c] = "connecting" <=> tries[c] < MaxRetries /\ peer[c] = Nobody

Init ==
  /\ sock = Nobody /\ daemon = [d \in Daemons |-> "unborn"] /\ idle = [d \in Daemons |-> FALSE]
  /\ command = [c \in Commands |-> "connecting"] /\ tries = [c \in Commands |-> 0]
  /\ peer = [c \in Commands |-> Nobody] /\ message = [c \in Commands |-> "none"]
  /\ found = [d \in Daemons |-> Nobody] /\ removed = {}
------------------------------------------------------------------------------
Serving(d) == daemon[d] = "serving"
Listening == {d \in Daemons : Serving(d) /\ sock = d}
Running(d) == daemon[d] \in {"serving", "draining"}

(* The commands whose lints are in d's chain.                              *)
Taken(d) == {c \in Commands : peer[c] = d /\ message[c] = "taken"}

(* The path is removed by e, whoever's socket it is.                       *)
RemovePath(e) ==
  /\ sock' = Nobody
  /\ removed' = (removed \cup Listening) \ {e}

Goes(d, to) == daemon' = [daemon EXCEPT ![d] = to]

(* The process ends, with the requests it has not answered.                *)
Ends(d) ==
  /\ Goes(d, "gone") /\ idle' = [idle EXCEPT ![d] = FALSE]
  /\ found' = [found EXCEPT ![d] = Nobody]
  /\ message' = [c \in Commands |->
       IF peer[c] = d /\ message[c] \in {"request", "taken"} THEN "none" ELSE message[c]]
  /\ UNCHANGED commandVars
------------------------------------------------------------------------------
(* startDaemon, from one operation on the path to the next.                *)
CheckPath(d) ==
  /\ daemon[d] = "starting"
  /\ Goes(d, IF sock = Nobody THEN "binding" ELSE "probing")
  /\ UNCHANGED <<fileVars, idle, found, commandVars, message>>

(* isSocketAlive: somebody accepts the connection, an error says no, or it *)
(* takes longer than a second, which counts as no.                         *)
Alive_Never == FALSE
Alive == Listening # {}
Probe(d) ==
  /\ daemon[d] = "probing"
  /\ \/ Alive /\ Ends(d) /\ UNCHANGED fileVars
     \/ /\ \/ ~Alive /\ found' = [found EXCEPT ![d] = sock]
           \/ Alive /\ UNCHANGED found
        /\ Goes(d, "replacing")
        /\ UNCHANGED <<fileVars, idle, commandVars, message>>

Replace(d) ==
  /\ daemon[d] = "replacing"
  /\ Goes(d, "binding") /\ RemovePath(d)
  /\ found' = [found EXCEPT ![d] = Nobody]
  /\ UNCHANGED <<idle, commandVars, message>>

(* listen: binding a path that exists fails with EADDRINUSE, and the       *)
(* process exits.                                                          *)
Binds_Over == TRUE
Binds == sock = Nobody
Bind(d) ==
  /\ daemon[d] = "binding"
  /\ \/ ~Binds /\ Ends(d) /\ UNCHANGED fileVars
     \/ /\ Binds /\ Goes(d, "serving") /\ sock' = d /\ idle' = [idle EXCEPT ![d] = TRUE]
        /\ UNCHANGED <<removed, found, commandVars, message>>

(* writeMessage to a command; one that has given up destroyed the socket.  *)
Reply(c, answer) ==
  message' = [message EXCEPT ![c] = IF command[c] = "waiting" THEN answer ELSE "none"]

(* handleRequest: the idle timer runs unless a lint does; a lint request   *)
(* that finds the chain busy arms it again.                                *)
Take(c) ==
  /\ message[c] = "request" /\ Running(peer[c])
  /\ IF Serving(peer[c])
     THEN /\ message' = [message EXCEPT ![c] = "taken"]
          /\ idle' = [idle EXCEPT ![peer[c]] = Taken(peer[c]) # {}]
     ELSE Reply(c, "error") /\ UNCHANGED idle
  /\ UNCHANGED <<fileVars, daemon, found, commandVars>>

(* The lint settles and is answered.  That its timer may have answered     *)
(* with an error before is TimeOut: the command ends and the lint runs on. *)
IdleAfter_Off(c) == FALSE
IdleAfter(c) == Taken(peer[c]) = {c} /\ Serving(peer[c])
Settle(c) ==
  /\ c \in Taken(peer[c]) /\ Running(peer[c])
  /\ \E answer \in {"response", "error"} : Reply(c, answer)
  /\ idle' = [idle EXCEPT ![peer[c]] = IdleAfter(c)]
  /\ UNCHANGED <<fileVars, daemon, found, commandVars>>

(* shutdown(): closing the server removes its socket path at once.         *)
Shutdown(d) ==
  /\ Serving(d)
  /\ Goes(d, "draining") /\ RemovePath(d)
  /\ idle' = [idle EXCEPT ![d] = FALSE]
  /\ UNCHANGED <<found, commandVars, message>>
FireIdle(d) == idle[d] /\ Shutdown(d)

(* The drain ends, or the hard-exit timer ends it: the path is removed     *)
(* once more.                                                              *)
EndDrain(d) == daemon[d] = "draining" /\ RemovePath(d) /\ Ends(d)

(* The process is killed; its socket file stays.                           *)
Crash(d) ==
  /\ daemon[d] \notin {"unborn", "gone"} /\ Ends(d)
  /\ UNCHANGED sock /\ removed' = removed \ {d}

(* `ganko daemon start`.  Processes are named in the order they start.     *)
(* Bound: one is left for each command that may still spawn it.            *)
Unborn == {d \in Daemons : daemon[d] = "unborn"}
Newborn == CHOOSE d \in Unborn : TRUE
MaySpawn == {c \in Commands : command[c] = "connecting" /\ tries[c] = 0}
Start(d) ==
  /\ d \in Unborn /\ d = Newborn /\ Cardinality(Unborn) > Cardinality(MaySpawn)
  /\ Goes(d, "starting")
  /\ UNCHANGED <<fileVars, idle, found, commandVars, message>>
------------------------------------------------------------------------------
(* tryDaemonLint ends: it destroys the socket, and what it has not read.   *)
(* Without an answer the command prints what a lint of its own finds.      *)
DestroySocket(c) ==
  message' = [message EXCEPT ![c] = IF @ \in {"request", "taken"} THEN @ ELSE "none"]
Prints(c, result) == command' = [command EXCEPT ![c] = result]

(* ensureDaemon connects to whoever listens on the path, and requestLint   *)
(* asks it.  writeMessage returns what socket.write does: false also when  *)
(* the message was taken but fills the socket's buffer, and the caller     *)
(* then believes the socket destroyed; the request may still arrive.       *)
Ask(c) ==
  /\ command[c] = "connecting" /\ Listening # {}
  /\ peer' = [peer EXCEPT ![c] = sock]
  /\ \E flowing, arrives \in BOOLEAN :
       /\ flowing => arrives
       /\ message' = [message EXCEPT ![c] = IF arrives THEN "request" ELSE @]
       /\ command' = [command EXCEPT ![c] = IF flowing THEN "waiting" ELSE "printed own"]
  /\ UNCHANGED <<fileVars, daemonVars, tries>>

(* An attempt fails, for want of a listener or by its 2 s timer: the first *)
(* failure spawns a daemon, the last one ends in a local lint.             *)
SpawnDaemon == Newborn \in Unborn /\ Goes(Newborn, "starting")

LastTry_Late(c) == tries[c] = MaxRetries
LastTry(c) == tries[c] + 1 = MaxRetries
FailToConnect(c) ==
  /\ command[c] = "connecting"
  /\ tries' = [tries EXCEPT ![c] = @ + 1]
  /\ IF LastTry(c) THEN Prints(c, "printed own") ELSE UNCHANGED command
  /\ IF tries[c] = 0 THEN SpawnDaemon ELSE UNCHANGED daemon
  /\ UNCHANGED <<fileVars, idle, found, peer, message>>

(* awaitResponse: the answer, the end of the connection, or its own timer. *)
Receive(c) ==
  /\ command[c] = "waiting" /\ message[c] \in {"response", "error"}
  /\ Prints(c, IF message[c] = "response" THEN "printed answer" ELSE "printed own")
  /\ DestroySocket(c) /\ UNCHANGED <<fileVars, daemonVars, tries, peer>>

SeeClose(c) ==
  /\ command[c] = "waiting" /\ daemon[peer[c]] = "gone"
  /\ Prints(c, "printed own")
  /\ DestroySocket(c) /\ UNCHANGED <<fileVars, daemonVars, tries, peer>>

AwaitTimer_Never(c) == FALSE
AwaitTimer(c) == command[c] = "waiting"
TimeOut(c) ==
  /\ AwaitTimer(c)
  /\ Prints(c, "printed own")
  /\ DestroySocket(c) /\ UNCHANGED <<fileVars, daemonVars, tries, peer>>
------------------------------------------------------------------------------
DaemonStep(d) ==
  \/ Start(d) \/ CheckPath(d) \/ Probe(d) \/ Replace(d) \/ Bind(d)
  \/ Shutdown(d) \/ FireIdle(d) \/ EndDrain(d) \/ Crash(d)
CommandStep(c) ==
  \/ Ask(c) \/ FailToConnect(c) \/ Receive(c) \/ SeeClose(c) \/ TimeOut(c)
Next ==
  \/ \E d \in Daemons : DaemonStep(d)
  \/ \E c \in Commands : CommandStep(c) \/ Take(c) \/ Settle(c)

(* A command goes on, a message that was sent arrives, idle timers fire.   *)
(* Nothing is owed by a daemon that lints, or starts.                      *)
Fairness ==
  /\ \A c \in Commands : WF_vars(CommandStep(c)) /\ WF_vars(Take(c))
  /\ \A d \in Daemons : WF_vars(FireIdle(d))
Spec == Init /\ [][Next]_vars /\ Fairness
------------------------------------------------------------------------------
(* Every lint command ends with one result printed, whatever the daemons   *)
(* do: hang, crash, refuse, or never come up (ensureDaemon, awaitResponse, *)
(* tryDaemonLint).                                                         *)
EveryLintEnds == \A c \in Commands : <>(command[c] \in {"printed answer", "printed own"})

(* At most one daemon serves the project, unless the socket file of one    *)
(* that served was removed by another process (startDaemon).               *)
OneDaemon ==
  \A d, e \in Daemons : Serving(d) /\ Serving(e) /\ d # e => d \in removed \/ e \in removed

(* Nobody removes the socket file of a daemon that serves, except the      *)
(* daemon itself; one that starts, if its probe took too long, or found    *)
(* another's file dead and the daemon has bound the path since; one that   *)
(* ends its drain, which does not look; and one that is shut down after    *)
(* its own file was removed (startDaemon, shutdown).                       *)
OnlyStaleSocketsGo ==
  [][\A d \in Listening :
       sock' # d => \/ Shutdown(d)
                    \/ \E e \in Daemons : Replace(e) /\ found[e] # d
                    \/ \E e \in Daemons : EndDrain(e)
                    \/ \E e \in removed : Shutdown(e)]_vars

(* A daemon that nobody can reach any more ends at last, unless a lint it  *)
(* took keeps it (resetIdleTimer).                                         *)
Unreachable(d) == Serving(d) /\ d \in removed
UnreachableEnds ==
  \A d \in Daemons : (Unreachable(d) /\ Taken(d) = {}) ~> (~Serving(d) \/ Taken(d) # {})
==============================================================================
