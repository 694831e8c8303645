----------------------------- MODULE DaemonQueue -----------------------------
(***************************************************************************)
(* The request loop of the ganko daemon (packages/lsp/src/cli/daemon.ts):  *)
(* lint requests are serialized on one promise chain (state.pending), each *)
(* running request races a 120 s timer, an idle timer and signals start a  *)
(* shutdown that waits for the chain but not for longer than 10 s, and a   *)
(* pre-warm task started at listen time runs beside all of it.             *)
(*                                                                         *)
(* Node runs one callback at a time, so one action is one callback; what   *)
(* an await separates are separate actions.  The lint itself (what a       *)
(* request computes) is module DaemonWarm.                                 *)
(***************************************************************************)
EXTENDS Naturals

CONSTANTS
  Requests,   \* the lint requests clients may send, one identity each
  NoRequest   \* the resolved promise the chain starts with

ASSUME NoRequestAssumption == NoRequest \notin Requests

VARIABLES
  lint,      \* lint[r]: where request r is
  after,     \* after[r]: the request whose promise r was chained on
  pending,   \* state.pending: the last link of the chain
  timer,     \* timer[r]: the 120 s timer of a running request
  replies,   \* replies[r]: how many responses were written for r
  idle,      \* state.idleTimer # null
  prewarm,   \* has the pre-warm task ended?
  project,   \* state.project # null
  phase,     \* the daemon's own life cycle
  arrival,   \* history: arrival[r] is r's rank among the accepted requests
  accepted   \* history: how many requests were accepted

vars == <<lint, after, pending, timer, replies, idle, prewarm, project, phase,
          arrival, accepted>>

chainVars == <<after, pending, arrival, accepted>>

(* A request names a client's message (its id and socket).  "waiting" has  *)
(* started and awaits the pre-warm task or its ESLint configuration;       *)
(* "linting" has its project.                                              *)
Running(r) == lint[r] \in {"waiting", "linting"}
Accepted(r) == lint[r] \in {"queued", "waiting", "linting", "settled"}

(* "killing" and "closing" are the windows in which the log file is being  *)
(* closed before process.exit; the event loop still runs in them.          *)
Alive == phase \in {"serving", "draining", "killing", "closing"}
shutdownStarted == phase # "serving"

TypeOK ==
  /\ lint \in [Requests -> {"new", "queued", "waiting", "linting", "settled", "refused"}]
  /\ after \in [Requests -> Requests \cup {NoRequest}]
  /\ pending \in Requests \cup {NoRequest}
  /\ timer \in [Requests -> {"off", "armed", "fired"}]
  /\ replies \in [Requests -> Nat]
  /\ idle \in BOOLEAN
  /\ prewarm \in {"loading", "done"}
  /\ project \in BOOLEAN
  /\ phase \in {"serving", "draining", "killing", "closing", "stopped", "killed"}
  /\ arrival \in [Requests -> Nat]
  /\ accepted \in Nat

(* The listen callback has run: the idle timer is armed and the pre-warm   *)
(* task is loading the ESLint configuration.                               *)
Init ==
  /\ lint = [r \in Requests |-> "new"]
  /\ after = [r \in Requests |-> NoRequest]
  /\ pending = NoRequest
  /\ timer = [r \in Requests |-> "off"]
  /\ replies = [r \in Requests |-> 0]
  /\ idle = TRUE
  /\ prewarm = "loading"
  /\ project = FALSE
  /\ phase = "serving"
  /\ arrival = [r \in Requests |-> 0]
  /\ accepted = 0
------------------------------------------------------------------------------
(* What a lint request is chained on: the last link, whatever its state.   *)
ChainedOn_Nothing == NoRequest
ChainedOn_Count == accepted
ChainedOn == pending

(* A promise of the chain has settled: the initial one, or a request's.    *)
Settled(p) == p = NoRequest \/ (p \in Requests /\ lint[p] = "settled")

(* handleRequest takes work until a shutdown has started.                  *)
Accepting_Late == Alive
Accepting == ~shutdownStarted

(* A finished handler may write its response unless the timer fired first. *)
MayAnswer_Always(r) == TRUE
MayAnswer(r) == timer[r] # "fired"

(* The timer of a request is armed when its turn comes.                    *)
ArmTimer_Never(r) == UNCHANGED timer
ArmTimer(r) == timer' = [timer EXCEPT ![r] = "armed"]

(* After its await the pre-warm task gives up if a shutdown has started.   *)
PrewarmMakesProject_Anyway == TRUE
PrewarmMakesProject == ~shutdownStarted

(* The hard-exit timer is still pending as long as the chain is.           *)
HardExitArmed == ~Settled(pending)

Reply(r) == replies' = [replies EXCEPT ![r] = @ + 1]
------------------------------------------------------------------------------
(* handleRequest, a lint request: linked behind state.pending.             *)
AcceptLint(r) ==
  /\ Accepting /\ lint[r] = "new"
  /\ lint' = [lint EXCEPT ![r] = "queued"]
  /\ after' = [after EXCEPT ![r] = ChainedOn]
  /\ pending' = r
  /\ arrival' = [arrival EXCEPT ![r] = accepted + 1]
  /\ accepted' = accepted + 1
  /\ idle' = TRUE
  /\ UNCHANGED <<timer, replies, prewarm, project, phase>>

(* handleRequest once shutdownStarted: an immediate -32000 error.          *)
RefuseLint(r) ==
  /\ Alive /\ ~Accepting /\ lint[r] = "new"
  /\ lint' = [lint EXCEPT ![r] = "refused"]
  /\ Reply(r)
  /\ UNCHANGED <<chainVars, timer, idle, prewarm, project, phase>>

(* handleRequest, a status request: answered at once, re-arms the timer.   *)
ReceiveStatus ==
  /\ Accepting
  /\ idle' = TRUE
  /\ UNCHANGED <<lint, chainVars, timer, replies, prewarm, project, phase>>

(* The callback chained on after[r] runs: the idle timer is cleared and    *)
(* the request's own timer armed.                                          *)
StartLint(r) ==
  /\ Alive /\ lint[r] = "queued" /\ Settled(after[r])
  /\ lint' = [lint EXCEPT ![r] = "waiting"]
  /\ ArmTimer(r)
  /\ idle' = FALSE
  /\ UNCHANGED <<chainVars, replies, prewarm, project, phase>>

(* handleLintRequest past its first awaits: it takes or makes a project.   *)
PrepareLint(r) ==
  /\ Alive /\ lint[r] = "waiting" /\ prewarm = "done"
  /\ lint' = [lint EXCEPT ![r] = "linting"]
  /\ project' = TRUE
  /\ UNCHANGED <<chainVars, timer, replies, idle, prewarm, phase>>

(* The 120 s timer of a running request fires: the client is told, the     *)
(* handler goes on.                                                        *)
TimeOutLint(r) ==
  /\ Alive /\ timer[r] = "armed"
  /\ timer' = [timer EXCEPT ![r] = "fired"]
  /\ Reply(r)
  /\ UNCHANGED <<lint, chainVars, idle, prewarm, project, phase>>

(* The handler resolves, or rejects (from "waiting" too: making the        *)
(* project can throw); its result is dropped when the timer fired before.  *)
SettleLint(r) ==
  /\ Alive /\ Running(r) /\ prewarm = "done"
  /\ lint' = [lint EXCEPT ![r] = "settled"]
  /\ IF MayAnswer(r) THEN Reply(r) ELSE UNCHANGED replies
  /\ timer' = [timer EXCEPT ![r] = IF @ = "armed" THEN "off" ELSE @]
  /\ idle' = TRUE
  /\ UNCHANGED <<chainVars, prewarm, project, phase>>

(* The pre-warm task loads the configuration and makes a project if there  *)
(* is none yet; making it can throw, which the task swallows.              *)
FinishPrewarm ==
  /\ Alive /\ prewarm = "loading"
  /\ prewarm' = "done"
  /\ project' \in {project, project \/ PrewarmMakesProject}
  /\ UNCHANGED <<lint, chainVars, timer, replies, idle, phase>>
------------------------------------------------------------------------------
(* shutdown(): idempotent, stops the idle timer and starts the drain.      *)
Shutdown ==
  /\ idle' = FALSE
  /\ phase' = IF phase = "serving" THEN "draining" ELSE phase

(* The idle timer fires.  A request that settles during the drain re-arms  *)
(* it, so it can also fire when there is nothing left to shut down.        *)
FireIdle ==
  /\ Alive /\ idle
  /\ Shutdown
  /\ UNCHANGED <<lint, chainVars, timer, replies, prewarm, project>>

(* A shutdown request, SIGTERM or SIGINT.                                  *)
ReceiveShutdown ==
  /\ phase = "serving"
  /\ Shutdown
  /\ UNCHANGED <<lint, chainVars, timer, replies, prewarm, project>>

(* The chain has settled: the project is disposed and the log closed.      *)
(* After a hard exit the first close wins and the exit code stays 1.       *)
FinishDrain ==
  /\ phase \in {"draining", "killing"} /\ Settled(pending)
  /\ phase' = IF phase = "draining" THEN "closing" ELSE phase
  /\ project' = FALSE
  /\ UNCHANGED <<lint, chainVars, timer, replies, idle, prewarm>>

(* The 10 s hard-exit timer fires with work still on the chain.            *)
FireHardExit ==
  /\ phase = "draining" /\ HardExitArmed
  /\ phase' = "killing"
  /\ UNCHANGED <<lint, chainVars, timer, replies, idle, prewarm, project>>

(* The log file is closed and process.exit is called.                      *)
Exit ==
  /\ \/ phase = "closing" /\ phase' = "stopped"
     \/ phase = "killing" /\ phase' = "killed"
  /\ UNCHANGED <<lint, chainVars, timer, replies, idle, prewarm, project>>

Next ==
  \/ \E r \in Requests : \/ AcceptLint(r) \/ RefuseLint(r)
                         \/ StartLint(r) \/ PrepareLint(r)
                         \/ TimeOutLint(r) \/ SettleLint(r)
  \/ ReceiveStatus \/ FinishPrewarm \/ FireIdle \/ ReceiveShutdown
  \/ FinishDrain \/ FireHardExit \/ Exit

(* Microtasks and timers always run.  Nothing else is owed: a handler may  *)
(* never finish, the pre-warm task awaits the user's ESLint configuration  *)
(* with no time limit (evaluateWorkspace has none), and clients need not   *)
(* send anything.                                                          *)
Fairness ==
  /\ \A r \in Requests : WF_vars(StartLint(r)) /\ WF_vars(TimeOutLint(r))
  /\ WF_vars(FinishDrain) /\ WF_vars(FireHardExit) /\ WF_vars(Exit)

Spec == Init /\ [][Next]_vars /\ Fairness
------------------------------------------------------------------------------
(* What the clients see of all this: the ticket counter of SerialService.  *)
Place(r) ==
  CASE lint[r] = "new" -> "away"       [] lint[r] = "refused" -> "turned away"
    [] lint[r] = "queued" -> "line"    [] lint[r] = "settled" -> "served"
    [] OTHER -> "called"

Counter ==
  CASE phase = "serving" -> "open"     [] phase = "stopped" -> "ended"
    [] phase = "killed" -> "cut off"   [] OTHER -> "closing"

Service ==
  INSTANCE SerialService
    WITH place   <- [r \in Requests |-> Place(r)],
         answers <- replies,
         ticket  <- arrival,
         drawn   <- accepted,
         counter <- Counter

(* The daemon's request loop is such a counter: it takes requests in the   *)
(* order they came, one at a time, and starts the next once the one before *)
(* has settled; it answers the one it runs even if its handler never ends  *)
(* (the 120 s timer); it stops gracefully only behind the last one, and a  *)
(* shutdown that has begun does end the process, by force if the chain     *)
(* never settles (the 10 s timer).  The last three are liveness, owed by   *)
(* the fairness of SerialService.                                          *)
ImplementsSerialService == Service!Spec

(* Lint requests run one at a time and in the order they arrived: whatever *)
(* has started has every earlier request behind it.  Warm state is shared  *)
(* without a lock on the strength of this (handleLintRequest awaits inside *)
(* its updates).                                                           *)
SerialInOrder ==
  \A r, s \in Requests :
    (/\ Accepted(r) /\ Accepted(s) /\ arrival[r] < arrival[s]
     /\ lint[s] # "queued") => lint[r] = "settled"

(* A client gets at most one response per request id, whichever of the     *)
(* handler, the 120 s timer and the shutdown comes first.                  *)
AtMostOneReply == \A r \in Requests : replies[r] <= 1

(* A graceful stop (exit code 0) leaves no accepted request unanswered:    *)
(* the promise shutdown() waits for covers every request ever accepted.    *)
GracefulStopAnswersAll ==
  phase \in {"closing", "stopped"} =>
    \A r \in Requests : Accepted(r) => lint[r] = "settled" /\ replies[r] = 1

(* Once shutdown() has disposed the project, neither the pre-warm task nor *)
(* a request makes another one that nobody would dispose.                  *)
NoProjectAfterDispose == phase \in {"closing", "stopped"} => ~project
==============================================================================
