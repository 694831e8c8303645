-------------------------- MODULE DaemonQueueProofs --------------------------
(***************************************************************************)
(* Safety of the daemon's request loop, for every set of requests.         *)
(*                                                                         *)
(* SerialInOrder is not inductive: a request that starts only knows that   *)
(* the promise it was chained on has settled.  What carries it is the      *)
(* chain itself: after[r] is the request accepted just before r, so by     *)
(* SerialInOrder of that one everything before it has settled as well, and *)
(* state.pending is the request accepted last.                             *)
(***************************************************************************)
EXTENDS DaemonQueue, TLAPS

(* arrival numbers the accepted requests, each with a number of its own.   *)
Ranked ==
  /\ \A r \in Requests : arrival[r] <= accepted /\ (Accepted(r) <=> arrival[r] # 0)
  /\ \A r, s \in Requests : (Accepted(r) /\ arrival[r] = arrival[s]) => r = s

(* state.pending is the last request accepted, or the initial promise.     *)
PendingIsLast ==
  /\ pending = NoRequest => accepted = 0
  /\ pending \in Requests => Accepted(pending) /\ arrival[pending] = accepted

(* A request is chained on the one accepted just before it.                *)
ChainedInOrder ==
  \A r \in Requests : Accepted(r) =>
    \/ after[r] = NoRequest /\ arrival[r] = 1
    \/ after[r] \in Requests /\ Accepted(after[r]) /\ arrival[after[r]] + 1 = arrival[r]

(* Who has answered a request: nobody before it runs, then its timer or    *)
(* its handler, never both.                                                *)
RepliesAgree ==
  \A r \in Requests :
    /\ lint[r] \in {"new", "queued"} => replies[r] = 0 /\ timer[r] = "off"
    /\ lint[r] = "refused" => replies[r] = 1 /\ timer[r] = "off"
    /\ Running(r) => \/ timer[r] = "armed" /\ replies[r] = 0
                     \/ timer[r] = "fired" /\ replies[r] = 1
    /\ lint[r] = "settled" => replies[r] = 1 /\ timer[r] # "armed"

(* The project is disposed only behind a chain that has settled.           *)
ClosedIsDrained ==
  phase \in {"closing", "stopped"} => Settled(pending) /\ ~project

(* The inductive invariant of the request loop.                            *)
IInv ==
  /\ TypeOK /\ Ranked /\ PendingIsLast /\ ChainedInOrder
  /\ SerialInOrder /\ RepliesAgree /\ ClosedIsDrained
------------------------------------------------------------------------------
(* The initial state satisfies the inductive invariant.                    *)
LEMMA InitIInv == Init => IInv
<1> SUFFICES ASSUME Init PROVE IInv
  OBVIOUS
<1>1. TypeOK
  BY DEF Init, TypeOK
<1>2. \A r \in Requests : ~Accepted(r) /\ ~Running(r)
  BY DEF Init, Accepted, Running
<1>3. Ranked /\ PendingIsLast
  BY <1>2, NoRequestAssumption DEF Init, Ranked, PendingIsLast
<1>4. ChainedInOrder /\ SerialInOrder /\ RepliesAgree /\ ClosedIsDrained
  BY <1>2 DEF Init, ChainedInOrder, SerialInOrder, RepliesAgree, ClosedIsDrained
<1> QED  BY <1>1, <1>3, <1>4 DEF IInv

(* Once the last link of the chain has settled, every accepted request has:*)
(* what lets shutdown() wait for state.pending alone.                      *)
LEMMA DrainedAllSettled ==
  ASSUME IInv, Settled(pending), NEW r \in Requests, Accepted(r)
  PROVE  lint[r] = "settled"
<1>1. arrival[r] # 0 /\ arrival[r] <= accepted
  BY DEF IInv, Ranked
<1>2. pending # NoRequest
  BY <1>1 DEF IInv, PendingIsLast, TypeOK
<1>3. /\ pending \in Requests /\ lint[pending] = "settled"
      /\ Accepted(pending) /\ arrival[pending] = accepted
  BY <1>2 DEF IInv, PendingIsLast, Settled, Accepted
<1>4. CASE arrival[r] = accepted
  BY <1>3, <1>4 DEF IInv, Ranked
<1>5. CASE arrival[r] # accepted
  <2>1. arrival[r] < arrival[pending]
    BY <1>1, <1>3, <1>5 DEF IInv, TypeOK
  <2> QED  BY <2>1, <1>3 DEF IInv, SerialInOrder
<1> QED  BY <1>4, <1>5

(* A request whose predecessor on the chain has settled has only settled   *)
(* requests before it: what lets its callback start.                       *)
LEMMA PredecessorsSettled ==
  ASSUME IInv, NEW r \in Requests, lint[r] = "queued", Settled(after[r]),
         NEW s \in Requests, Accepted(s), arrival[s] < arrival[r]
  PROVE  lint[s] = "settled"
<1>1. arrival[s] # 0 /\ arrival[s] \in Nat /\ arrival[r] \in Nat
  BY DEF IInv, Ranked, TypeOK
<1>2. Accepted(r)
  BY DEF Accepted
<1>3. after[r] \in Requests /\ Accepted(after[r]) /\ arrival[after[r]] + 1 = arrival[r]
  BY <1>1, <1>2 DEF IInv, ChainedInOrder
<1>4. lint[after[r]] = "settled"
  BY <1>3, NoRequestAssumption DEF Settled
<1>5. arrival[s] <= arrival[after[r]] /\ arrival[after[r]] \in Nat
  BY <1>1, <1>3 DEF IInv, TypeOK
<1>6. CASE arrival[s] = arrival[after[r]]
  BY <1>3, <1>4, <1>6 DEF IInv, Ranked
<1>7. CASE arrival[s] # arrival[after[r]]
  <2>1. arrival[s] < arrival[after[r]]
    BY <1>1, <1>5, <1>7
  <2> QED  BY <2>1, <1>3, <1>4 DEF IInv, SerialInOrder
<1> QED  BY <1>6, <1>7
------------------------------------------------------------------------------
(* Every step keeps the types.                                             *)
LEMMA StepTypeOK == TypeOK /\ [Next]_vars => TypeOK'
<1> SUFFICES ASSUME TypeOK, [Next]_vars PROVE TypeOK'
  OBVIOUS
<1> USE DEF TypeOK
<1>1. ASSUME NEW r \in Requests, AcceptLint(r) PROVE TypeOK'
  BY <1>1 DEF AcceptLint, ChainedOn
<1>2. ASSUME NEW r \in Requests, RefuseLint(r) PROVE TypeOK'
  BY <1>2 DEF RefuseLint, Reply, chainVars
<1>3. ASSUME NEW r \in Requests, StartLint(r) PROVE TypeOK'
  BY <1>3 DEF StartLint, ArmTimer, chainVars
<1>4. ASSUME NEW r \in Requests, PrepareLint(r) PROVE TypeOK'
  BY <1>4 DEF PrepareLint, chainVars
<1>5. ASSUME NEW r \in Requests, TimeOutLint(r) PROVE TypeOK'
  BY <1>5 DEF TimeOutLint, Reply, chainVars
<1>6. ASSUME NEW r \in Requests, SettleLint(r) PROVE TypeOK'
  BY <1>6 DEF SettleLint, Reply, chainVars
<1>7. CASE ReceiveStatus
  BY <1>7 DEF ReceiveStatus, chainVars
<1>8. CASE FinishPrewarm
  BY <1>8 DEF FinishPrewarm, PrewarmMakesProject, shutdownStarted, chainVars
<1>9. CASE FireIdle
  BY <1>9 DEF FireIdle, Shutdown, chainVars
<1>10. CASE ReceiveShutdown
  BY <1>10 DEF ReceiveShutdown, Shutdown, chainVars
<1>11. CASE FinishDrain
  BY <1>11 DEF FinishDrain, chainVars
<1>12. CASE FireHardExit
  BY <1>12 DEF FireHardExit, chainVars
<1>13. CASE Exit
  BY <1>13 DEF Exit, chainVars
<1>14. CASE UNCHANGED vars
  BY <1>14 DEF vars
<1> QED  BY <1>1, <1>2, <1>3, <1>4, <1>5, <1>6, <1>7, <1>8, <1>9,
            <1>10, <1>11, <1>12, <1>13, <1>14 DEF Next

(* Every step but AcceptLint leaves the chain and the accepted set alone.  *)
LEMMA ChainOnlyGrows ==
  ASSUME TypeOK, [Next]_vars, ~\E r \in Requests : AcceptLint(r)
  PROVE  /\ UNCHANGED chainVars
         /\ \A q \in Requests : Accepted(q)' <=> Accepted(q)
<1>1. CASE UNCHANGED vars
  BY <1>1 DEF vars, chainVars, Accepted
<1>2. ASSUME NEW r \in Requests,
             RefuseLint(r) \/ StartLint(r) \/ PrepareLint(r) \/ TimeOutLint(r) \/ SettleLint(r)
      PROVE  /\ UNCHANGED chainVars
             /\ \A q \in Requests : Accepted(q)' <=> Accepted(q)
  BY <1>2 DEF TypeOK, RefuseLint, StartLint, PrepareLint, TimeOutLint, SettleLint,
              Running, Accepted
<1>3. CASE \/ ReceiveStatus \/ FinishPrewarm \/ FireIdle \/ ReceiveShutdown
           \/ FinishDrain \/ FireHardExit \/ Exit
  BY <1>3 DEF ReceiveStatus, FinishPrewarm, FireIdle, ReceiveShutdown, FinishDrain,
              FireHardExit, Exit, Accepted
<1> QED  BY <1>1, <1>2, <1>3 DEF Next

(* The bookkeeping of the chain survives every step.                       *)
LEMMA StepChain ==
  IInv /\ [Next]_vars => (Ranked /\ PendingIsLast /\ ChainedInOrder)'
<1> SUFFICES ASSUME IInv, [Next]_vars PROVE (Ranked /\ PendingIsLast /\ ChainedInOrder)'
  OBVIOUS
<1>1. CASE ~\E r \in Requests : AcceptLint(r)
  <2>1. /\ UNCHANGED chainVars
        /\ \A q \in Requests : Accepted(q)' <=> Accepted(q)
    BY <1>1, ChainOnlyGrows DEF IInv
  <2>2. Ranked'
    BY <2>1 DEF IInv, Ranked, chainVars
  <2>3. PendingIsLast'
    BY <2>1 DEF IInv, PendingIsLast, chainVars
  <2>4. ChainedInOrder'
    BY <2>1 DEF IInv, ChainedInOrder, chainVars
  <2> QED  BY <2>2, <2>3, <2>4
<1>2. ASSUME NEW r \in Requests, AcceptLint(r)
      PROVE  (Ranked /\ PendingIsLast /\ ChainedInOrder)'
  <2>1. /\ Accepted(r)' /\ ~Accepted(r) /\ arrival'[r] = accepted + 1
        /\ accepted' = accepted + 1 /\ pending' = r /\ after'[r] = pending
        /\ accepted \in Nat
    BY <1>2 DEF AcceptLint, ChainedOn, IInv, TypeOK, Accepted
  <2>2. \A q \in Requests : q # r => /\ Accepted(q)' <=> Accepted(q)
                                     /\ arrival'[q] = arrival[q] /\ after'[q] = after[q]
    BY <1>2 DEF AcceptLint, IInv, TypeOK, Accepted
  <2>3. \A q \in Requests : arrival[q] \in Nat /\ arrival[q] <= accepted
    BY DEF IInv, TypeOK, Ranked
  <2>4. Ranked'
    BY <2>1, <2>2, <2>3 DEF IInv, Ranked
  <2>5. PendingIsLast'
    BY <2>1, NoRequestAssumption DEF PendingIsLast
  <2>6. ASSUME NEW q \in Requests, q # r, Accepted(q)'
        PROVE  \/ after'[q] = NoRequest /\ arrival'[q] = 1
               \/ /\ after'[q] \in Requests /\ Accepted(after[q])
                  /\ after[q] # r /\ arrival[after[q]] + 1 = arrival'[q]
    BY <2>1, <2>2, <2>6 DEF IInv, ChainedInOrder
  <2>7. ASSUME NEW q \in Requests, Accepted(q)'
        PROVE  \/ after'[q] = NoRequest /\ arrival'[q] = 1
               \/ /\ after'[q] \in Requests /\ arrival'[after'[q]] + 1 = arrival'[q]
                  /\ lint'[after'[q]] \in {"queued", "waiting", "linting", "settled"}
    <3>1. CASE q # r
      <4>1. after'[q] = after[q]
        BY <2>2, <3>1
      <4> QED  BY <2>2, <2>6, <2>7, <3>1, <4>1 DEF Accepted
    <3>2. CASE q = r /\ pending = NoRequest
      BY <2>1, <3>2 DEF IInv, PendingIsLast
    <3>3. CASE q = r /\ pending \in Requests
      <4>1. pending # r /\ Accepted(pending) /\ arrival[pending] = accepted
        BY <2>1, <3>3 DEF IInv, PendingIsLast
      <4> QED  BY <2>1, <2>2, <3>3, <4>1 DEF Accepted
    <3> QED  BY <3>1, <3>2, <3>3 DEF IInv, TypeOK
  <2>8. ChainedInOrder'
    BY <2>7 DEF ChainedInOrder, Accepted
  <2> QED  BY <2>4, <2>5, <2>8
<1> QED  BY <1>1, <1>2

(* Requests start in arrival order and one at a time, whatever the step.   *)
LEMMA StepSerial == IInv /\ [Next]_vars => SerialInOrder'
<1> SUFFICES ASSUME IInv, [Next]_vars,
                    NEW q \in Requests, NEW s \in Requests,
                    Accepted(q)', Accepted(s)', arrival'[q] < arrival'[s],
                    lint'[s] # "queued"
             PROVE  lint'[q] = "settled"
  BY DEF SerialInOrder
<1>1. ASSUME NEW r \in Requests, AcceptLint(r) PROVE lint'[q] = "settled"
  <2>1. s # r /\ lint'[s] = lint[s] /\ Accepted(s) /\ arrival'[s] = arrival[s]
    BY <1>1 DEF AcceptLint, IInv, TypeOK, Accepted
  <2>2. arrival[s] <= accepted /\ arrival[s] \in Nat /\ accepted \in Nat
    BY DEF IInv, Ranked, TypeOK
  <2>3. q # r
    BY <1>1, <2>1, <2>2 DEF AcceptLint, IInv, TypeOK
  <2>4. lint'[q] = lint[q] /\ Accepted(q) /\ arrival'[q] = arrival[q]
    BY <1>1, <2>3 DEF AcceptLint, IInv, TypeOK, Accepted
  <2> QED  BY <2>1, <2>4 DEF IInv, SerialInOrder
<1>2. CASE ~\E r \in Requests : AcceptLint(r)
  <2>1. /\ Accepted(q) /\ Accepted(s) /\ arrival[q] < arrival[s]
    BY <1>2, ChainOnlyGrows DEF IInv, chainVars
  <2>2. lint[q] = "settled" => lint'[q] = "settled"
    BY <1>2, <2>1 DEF Next, vars, RefuseLint, StartLint, PrepareLint, TimeOutLint, SettleLint,
                 Running, ReceiveStatus, FinishPrewarm, FireIdle, ReceiveShutdown, FinishDrain,
                 FireHardExit, Exit, IInv, TypeOK
  <2>3. CASE lint[s] # "queued"
    BY <2>1, <2>2, <2>3 DEF IInv, SerialInOrder
  <2>4. CASE lint[s] = "queued"
    <3>1. StartLint(s)
      BY <1>2, <2>4 DEF Next, vars, RefuseLint, StartLint, PrepareLint, TimeOutLint, SettleLint,
                 Running, ReceiveStatus, FinishPrewarm, FireIdle, ReceiveShutdown, FinishDrain,
                 FireHardExit, Exit, IInv, TypeOK
    <3> QED  BY <2>1, <2>2, <3>1, PredecessorsSettled DEF StartLint
  <2> QED  BY <2>3, <2>4
<1> QED  BY <1>1, <1>2

(* The timer and the handler of a request answer it once between them.     *)
LEMMA StepReplies == IInv /\ [Next]_vars => RepliesAgree'
<1> SUFFICES ASSUME IInv, [Next]_vars PROVE RepliesAgree'
  OBVIOUS
<1> USE DEF IInv, TypeOK, RepliesAgree, Running
<1>1. ASSUME NEW r \in Requests, AcceptLint(r) PROVE RepliesAgree'
  BY <1>1 DEF AcceptLint
<1>2. ASSUME NEW r \in Requests, RefuseLint(r) PROVE RepliesAgree'
  BY <1>2 DEF RefuseLint, Reply
<1>3. ASSUME NEW r \in Requests, StartLint(r) PROVE RepliesAgree'
  BY <1>3 DEF StartLint, ArmTimer
<1>4. ASSUME NEW r \in Requests, PrepareLint(r) PROVE RepliesAgree'
  BY <1>4 DEF PrepareLint
<1>5. ASSUME NEW r \in Requests, TimeOutLint(r) PROVE RepliesAgree'
  BY <1>5 DEF TimeOutLint, Reply
<1>6. ASSUME NEW r \in Requests, SettleLint(r) PROVE RepliesAgree'
  BY <1>6 DEF SettleLint, MayAnswer, Reply
<1>7. CASE UNCHANGED <<lint, timer, replies>>
  BY <1>7
<1> QED  BY <1>1, <1>2, <1>3, <1>4, <1>5, <1>6, <1>7
         DEF Next, vars, ReceiveStatus, FinishPrewarm, FireIdle, ReceiveShutdown,
             FinishDrain, FireHardExit, Exit

(* Nothing un-settles the chain or makes a project once it was disposed.   *)
LEMMA StepClosed == IInv /\ [Next]_vars => ClosedIsDrained'
<1> SUFFICES ASSUME IInv, [Next]_vars, phase' \in {"closing", "stopped"}
             PROVE  Settled(pending)' /\ ~project'
  BY DEF ClosedIsDrained
<1>1. CASE phase \in {"closing", "stopped"}
  <2>1. Settled(pending) /\ ~project
    BY <1>1 DEF IInv, ClosedIsDrained
  <2>2. \A r \in Requests : lint[r] \notin {"queued", "waiting", "linting"}
    BY <2>1, DrainedAllSettled DEF Accepted
  <2> QED  BY <1>1, <2>1, <2>2
           DEF Next, vars, chainVars, AcceptLint, Accepting, shutdownStarted, RefuseLint, StartLint,
               PrepareLint, TimeOutLint, SettleLint, Running, ReceiveStatus, FinishPrewarm,
               PrewarmMakesProject, FireIdle, ReceiveShutdown, Shutdown, FinishDrain,
               FireHardExit, Exit, Settled, IInv, TypeOK
<1>2. CASE phase \notin {"closing", "stopped"}
  <2>1. FinishDrain
    BY <1>2 DEF Next, vars, AcceptLint, RefuseLint, StartLint, PrepareLint, TimeOutLint,
                SettleLint, ReceiveStatus, FinishPrewarm, FireIdle, ReceiveShutdown, Shutdown,
                FinishDrain, FireHardExit, Exit
  <2> QED  BY <2>1 DEF FinishDrain, chainVars, Settled
<1> QED  BY <1>1, <1>2

(* The inductive invariant holds in every reachable state.                 *)
LEMMA Inductive == Spec => []IInv
<1>1. IInv /\ [Next]_vars => IInv'
  <2> SUFFICES ASSUME IInv, [Next]_vars PROVE IInv'
    OBVIOUS
  <2>1. TypeOK'
    BY StepTypeOK DEF IInv
  <2> QED  BY <2>1, StepChain, StepSerial, StepReplies, StepClosed DEF IInv
<1> QED  BY <1>1, InitIInv, PTL DEF Spec
------------------------------------------------------------------------------
(* The variables of the request loop keep their types.                     *)
THEOREM TypeCorrect == Spec => []TypeOK
<1>1. IInv => TypeOK
  BY DEF IInv
<1> QED  BY <1>1, Inductive, PTL

(* Lint requests run one at a time, in the order they arrived.             *)
THEOREM RequestsAreSerial == Spec => []SerialInOrder
<1>1. IInv => SerialInOrder
  BY DEF IInv
<1> QED  BY <1>1, Inductive, PTL

(* No request is answered twice, by its handler and its timer.             *)
THEOREM NoSecondReply == Spec => []AtMostOneReply
<1>1. IInv => AtMostOneReply
  <2> SUFFICES ASSUME IInv, NEW r \in Requests PROVE replies[r] <= 1
    BY DEF AtMostOneReply
  <2>1. lint[r] \in {"new", "queued", "waiting", "linting", "settled", "refused"}
    BY DEF IInv, TypeOK
  <2>2. replies[r] = 0 \/ replies[r] = 1
    BY <2>1 DEF IInv, RepliesAgree, Running
  <2> QED  BY <2>2
<1> QED  BY <1>1, Inductive, PTL

(* A stop with exit code 0 has answered every request it accepted.         *)
THEOREM GracefulStopIsComplete == Spec => []GracefulStopAnswersAll
<1>1. IInv => GracefulStopAnswersAll
  <2> SUFFICES ASSUME IInv, phase \in {"closing", "stopped"},
                      NEW r \in Requests, Accepted(r)
               PROVE  lint[r] = "settled" /\ replies[r] = 1
    BY DEF GracefulStopAnswersAll
  <2>1. lint[r] = "settled"
    BY DrainedAllSettled DEF IInv, ClosedIsDrained
  <2> QED  BY <2>1 DEF IInv, RepliesAgree
<1> QED  BY <1>1, Inductive, PTL

(* After shutdown() has disposed the project nobody makes another one.     *)
THEOREM DisposedForGood == Spec => []NoProjectAfterDispose
<1>1. IInv => NoProjectAfterDispose
  BY DEF IInv, ClosedIsDrained, NoProjectAfterDispose
<1> QED  BY <1>1, Inductive, PTL
------------------------------------------------------------------------------
(* The implementation of SerialService, step by step.  A step of one       *)
(* request changes its place alone.                                        *)
LEMMA PlaceMoves ==
  ASSUME TypeOK, NEW r \in Requests, NEW to,
         lint' = [lint EXCEPT ![r] = to], NEW shown,
         Place(r)' = shown
  PROVE  [q \in Requests |-> Place(q)]' = [[q \in Requests |-> Place(q)] EXCEPT ![r] = shown]
<1>1. \A q \in Requests : q # r => Place(q)' = Place(q)
  BY DEF Place, TypeOK
<1> QED  BY <1>1

(* Whatever leaves the requests alone leaves their places alone.           *)
LEMMA PlacesStay ==
  ASSUME UNCHANGED lint
  PROVE  [q \in Requests |-> Place(q)]' = [q \in Requests |-> Place(q)]
BY DEF Place

(* Every step of the request loop is a step of the counter, or no step of  *)
(* it at all.                                                              *)
LEMMA StepServes == IInv /\ [Next]_vars => [Service!Next]_(Service!vars)
<1> SUFFICES ASSUME IInv, [Next]_vars PROVE [Service!Next]_(Service!vars)
  OBVIOUS
<1>t. TypeOK
  BY DEF IInv
<1>1. ASSUME NEW r \in Requests, AcceptLint(r) PROVE Service!Draw(r)
  <2>1. Place(r) = "away" /\ Place(r)' = "line"
    BY <1>1, <1>t DEF AcceptLint, Place, TypeOK
  <2>2. [q \in Requests |-> Place(q)]' = [[q \in Requests |-> Place(q)] EXCEPT ![r] = "line"]
    BY <1>1, <1>t, <2>1, PlaceMoves DEF AcceptLint
  <2>3. Counter = "open" /\ Counter' = Counter
    BY <1>1 DEF AcceptLint, Accepting, shutdownStarted, Counter
  <2> QED  BY <1>1, <2>1, <2>2, <2>3 DEF AcceptLint, Service!Draw
<1>2. ASSUME NEW r \in Requests, RefuseLint(r) PROVE Service!TurnAway(r)
  <2>1. Place(r) = "away" /\ Place(r)' = "turned away"
    BY <1>2, <1>t DEF RefuseLint, Place, TypeOK
  <2>2. [q \in Requests |-> Place(q)]' = [[q \in Requests |-> Place(q)] EXCEPT ![r] = "turned away"]
    BY <1>2, <1>t, <2>1, PlaceMoves DEF RefuseLint
  <2>3. Counter = "closing" /\ Counter' = Counter
    BY <1>2 DEF RefuseLint, Accepting, Alive, shutdownStarted, Counter
  <2>4. replies[r] = 0
    BY <1>2 DEF RefuseLint, IInv, RepliesAgree
  <2>5. replies' = [replies EXCEPT ![r] = 1]
    BY <1>2, <1>t, <2>4 DEF RefuseLint, Reply, TypeOK
  <2> QED  BY <1>2, <2>1, <2>2, <2>3, <2>5 DEF RefuseLint, chainVars, Service!TurnAway
<1>3. ASSUME NEW r \in Requests, StartLint(r) PROVE Service!Call(r)
  <2>1. Place(r) = "line" /\ Place(r)' = "called"
    BY <1>3, <1>t DEF StartLint, Place, TypeOK
  <2>2. [q \in Requests |-> Place(q)]' = [[q \in Requests |-> Place(q)] EXCEPT ![r] = "called"]
    BY <1>3, <1>t, <2>1, PlaceMoves DEF StartLint
  <2>3. Counter \in {"open", "closing"} /\ Counter' = Counter
    BY <1>3 DEF StartLint, Alive, Counter
  <2>4. ASSUME NEW q \in Requests, arrival[q] \in 1..(arrival[r] - 1)
        PROVE  Place(q) = "served"
    <3>1. Accepted(q) /\ arrival[q] < arrival[r]
      BY <1>t, <2>4 DEF IInv, Ranked, TypeOK
    <3>2. lint[q] = "settled"
      BY <1>3, <3>1, PredecessorsSettled DEF StartLint
    <3> QED  BY <3>2 DEF Place
  <2> QED  BY <1>3, <2>1, <2>2, <2>3, <2>4
           DEF StartLint, chainVars, Service!Call, Service!Before, Service!Open
<1>4. ASSUME NEW r \in Requests, PrepareLint(r) PROVE UNCHANGED Service!vars
  <2>1. Place(r)' = "called" /\ Place(r) = "called"
    BY <1>4, <1>t DEF PrepareLint, Place, TypeOK
  <2>2. [q \in Requests |-> Place(q)]' = [[q \in Requests |-> Place(q)] EXCEPT ![r] = "called"]
    BY <1>4, <1>t, <2>1, PlaceMoves DEF PrepareLint
  <2>3. [q \in Requests |-> Place(q)]' = [q \in Requests |-> Place(q)]
    BY <2>1, <2>2
  <2> QED  BY <1>4, <2>3 DEF PrepareLint, chainVars, Counter, Service!vars
<1>5. ASSUME NEW r \in Requests, TimeOutLint(r) PROVE Service!Answer(r)
  <2>1. Running(r) /\ replies[r] = 0
    BY <1>5, <1>t DEF TimeOutLint, IInv, RepliesAgree, TypeOK, Running
  <2>2. Place(r) = "called"
    BY <2>1 DEF Running, Place
  <2>3. Counter \in {"open", "closing"} /\ Counter' = Counter
    BY <1>5 DEF TimeOutLint, Alive, Counter
  <2> QED  BY <1>5, <1>t, <2>1, <2>2, <2>3, PlacesStay
           DEF TimeOutLint, Reply, chainVars, Service!Answer, Service!Open, TypeOK
<1>6. ASSUME NEW r \in Requests, SettleLint(r) PROVE Service!Answer(r) \/ Service!Leave(r)
  <2>1. Place(r) = "called" /\ Place(r)' = "served"
    BY <1>6, <1>t DEF SettleLint, Running, Place, TypeOK
  <2>2. [q \in Requests |-> Place(q)]' = [[q \in Requests |-> Place(q)] EXCEPT ![r] = "served"]
    BY <1>6, <1>t, <2>1, PlaceMoves DEF SettleLint
  <2>3. Counter \in {"open", "closing"} /\ Counter' = Counter
    BY <1>6 DEF SettleLint, Alive, Counter
  <2>4. CASE timer[r] = "fired"
    <3>1. replies[r] = 1 /\ UNCHANGED replies
      BY <1>6, <2>4 DEF SettleLint, MayAnswer, IInv, RepliesAgree
    <3> QED  BY <1>6, <2>1, <2>2, <2>3, <3>1
             DEF SettleLint, chainVars, Service!Leave, Service!Open
  <2>5. CASE timer[r] # "fired"
    <3>1. replies[r] = 0 /\ Reply(r)
      BY <1>6, <2>5 DEF SettleLint, MayAnswer, IInv, RepliesAgree
    <3>2. replies' = [replies EXCEPT ![r] = 1]
      BY <1>t, <3>1 DEF Reply, TypeOK
    <3> QED  BY <1>6, <2>1, <2>2, <2>3, <3>1, <3>2
             DEF SettleLint, chainVars, Service!Answer, Service!Open
  <2> QED  BY <2>4, <2>5
<1>7. CASE ReceiveStatus \/ FinishPrewarm \/ FinishDrain \/ FireHardExit
  <2>1. UNCHANGED <<lint, replies, arrival, accepted>> /\ Counter' = Counter
    BY <1>7 DEF ReceiveStatus, FinishPrewarm, FinishDrain, FireHardExit, chainVars, Counter
  <2> QED  BY <2>1, PlacesStay DEF Service!vars
<1>8. CASE FireIdle \/ ReceiveShutdown
  <2>1. UNCHANGED <<lint, replies, arrival, accepted>>
    BY <1>8 DEF FireIdle, ReceiveShutdown, chainVars
  <2>2. Counter' = Counter \/ (Counter = "open" /\ Counter' = "closing")
    BY <1>8 DEF FireIdle, ReceiveShutdown, Shutdown, Counter
  <2> QED  BY <2>1, <2>2, PlacesStay DEF Service!Next, Service!Close, Service!vars
<1>9. CASE Exit
  <2>1. UNCHANGED <<lint, replies, arrival, accepted>> /\ Counter = "closing"
    BY <1>9 DEF Exit, chainVars, Counter
  <2>2. CASE phase = "killing"
    BY <1>9, <2>1, <2>2, PlacesStay DEF Exit, Counter, Service!Next, Service!End
  <2>3. CASE phase = "closing"
    <3>1. ASSUME NEW r \in Requests, arrival[r] # 0
          PROVE  Place(r) = "served" /\ replies[r] = 1
      <4>1. Accepted(r) /\ Settled(pending)
        BY <2>3, <3>1 DEF IInv, Ranked, ClosedIsDrained
      <4>2. lint[r] = "settled"
        BY <4>1, DrainedAllSettled
      <4> QED  BY <4>2 DEF Place, IInv, RepliesAgree
    <3> QED  BY <1>9, <2>1, <2>3, <3>1, PlacesStay DEF Exit, Counter, Service!Next, Service!End
  <2> QED  BY <1>9, <2>2, <2>3 DEF Exit
<1>10. CASE UNCHANGED vars
  BY <1>10, PlacesStay DEF vars, Counter, Service!vars
<1> QED  BY <1>1, <1>2, <1>3, <1>4, <1>5, <1>6, <1>7, <1>8, <1>9, <1>10 DEF Next, Service!Next

(* The request loop is a ticket counter: requests are taken in the order   *)
(* they came, called one at a time, answered once, and a graceful stop     *)
(* waits for the last of them.  (That everybody called is answered and a   *)
(* closing counter ends is the run's part.)                                *)
THEOREM ServesInTurn == Spec => Service!SafeSpec
<1>1. Init => Service!Init
  BY DEF Init, Service!Init, Place, Counter
<1>2. IInv /\ [Next]_vars => [Service!Next]_(Service!vars)
  BY StepServes
<1> QED  BY <1>1, <1>2, Inductive, PTL DEF Spec, Service!SafeSpec
==============================================================================
