---------------------------- MODULE SerialService ----------------------------
(***************************************************************************)
(* What the daemon promises the programs that send it lint requests: a     *)
(* counter with numbered tickets.  A request that is taken draws the next  *)
(* ticket, tickets are called in order and one at a time, every request    *)
(* gets one answer, and the counter closes only behind the last ticket,    *)
(* unless it is shut down by force.  It says nothing of promises, timers,  *)
(* the pre-warm task or the project.                                       *)
(***************************************************************************)
EXTENDS Naturals

CONSTANT Requests

VARIABLES
  place,     \* place[r]: where request r is
  answers,   \* answers[r]: how many answers r got
  ticket,    \* ticket[r]: r's number, 0 before it is taken
  drawn,     \* the last number given out
  counter    \* is the counter open?

vars == <<place, answers, ticket, drawn, counter>>

Open == counter \in {"open", "closing"}

Init ==
  /\ place = [r \in Requests |-> "away"]
  /\ answers = [r \in Requests |-> 0]
  /\ ticket = [r \in Requests |-> 0]
  /\ drawn = 0
  /\ counter = "open"

Draw(r) ==
  /\ counter = "open" /\ place[r] = "away"
  /\ place' = [place EXCEPT ![r] = "line"]
  /\ ticket' = [ticket EXCEPT ![r] = drawn + 1]
  /\ drawn' = drawn + 1
  /\ UNCHANGED <<answers, counter>>

(* Once the counter is closing a request is turned away with an answer.    *)
TurnAway(r) ==
  /\ counter = "closing" /\ place[r] = "away"
  /\ place' = [place EXCEPT ![r] = "turned away"]
  /\ answers' = [answers EXCEPT ![r] = 1]
  /\ UNCHANGED <<ticket, drawn, counter>>

Before(r) == {q \in Requests : ticket[q] \in 1..(ticket[r] - 1)}

Call(r) ==
  /\ Open /\ place[r] = "line"
  /\ \A q \in Before(r) : place[q] = "served"
  /\ place' = [place EXCEPT ![r] = "called"]
  /\ UNCHANGED <<answers, ticket, drawn, counter>>

(* The one who was called may get an answer and keep the counter busy, or  *)
(* get it on leaving.                                                      *)
Answer(r) ==
  /\ Open /\ place[r] = "called" /\ answers[r] = 0
  /\ answers' = [answers EXCEPT ![r] = 1]
  /\ place' \in {place, [place EXCEPT ![r] = "served"]}
  /\ UNCHANGED <<ticket, drawn, counter>>

Leave(r) ==
  /\ Open /\ place[r] = "called" /\ answers[r] = 1
  /\ place' = [place EXCEPT ![r] = "served"]
  /\ UNCHANGED <<answers, ticket, drawn, counter>>

Close ==
  /\ counter = "open" /\ counter' = "closing"
  /\ UNCHANGED <<place, answers, ticket, drawn>>

(* The service ends in peace, with everybody served, or by force.          *)
End ==
  /\ counter = "closing"
  /\ \/ /\ \A r \in Requests : ticket[r] # 0 => place[r] = "served" /\ answers[r] = 1
        /\ counter' = "ended"
     \/ counter' = "cut off"
  /\ UNCHANGED <<place, answers, ticket, drawn>>

Next ==
  \/ \E r \in Requests : Draw(r) \/ TurnAway(r) \/ Call(r) \/ Answer(r) \/ Leave(r)
  \/ Close \/ End

(* Nobody is left standing while the counter is free, the one who was      *)
(* called is answered, and a counter that is closing ends.  Nothing makes  *)
(* the one who was called leave.                                           *)
Fairness ==
  /\ \A r \in Requests : WF_vars(Call(r)) /\ WF_vars(Answer(r))
  /\ WF_vars(End)

SafeSpec == Init /\ [][Next]_vars
Spec == SafeSpec /\ Fairness
==============================================================================
