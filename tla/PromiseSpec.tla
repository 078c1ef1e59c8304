----------------------------- MODULE PromiseSpec -----------------------------
(***************************************************************************)
(* What a promise promises to a script, whatever library makes it: the     *)
(* guarantees that libs/q.js writes above when, "that fulfilled and        *)
(* rejected will be called only once", that either is called "but not      *)
(* both", and "not ... in this turn".                                      *)
(*                                                                         *)
(* A promise settles once and keeps its outcome.  A handler given to then  *)
(* waits; once the promise is settled it is called, once, with the outcome,*)
(* in a step after the one that gave it, and the handlers of a promise are *)
(* called in the order in which they were given.                           *)
(*                                                                         *)
(* Several promises may settle in one step (those that follow another),    *)
(* several handlers may be given in one, and the call of a handler may do  *)
(* both.                                                                   *)
(***************************************************************************)
EXTENDS Integers, Sequences

CONSTANTS
  Promises,  \* the promises a script may ever hold
  Handlers,  \* the pairs of functions it may ever give to then
  Pending    \* no outcome yet

VARIABLES
  outcome,  \* of each promise: its value or its reason, or Pending
  waiting,  \* [Promises -> Seq(Handlers)]: the handlers still to be called
  answer    \* of each handler: the outcome it was called with, or Pending

vars == <<outcome, waiting, answer>>

TypeOK ==
  /\ DOMAIN outcome = Promises
  /\ waiting \in [Promises -> Seq(Handlers)]
  /\ DOMAIN answer = Handlers

Init ==
  /\ outcome = [p \in Promises |-> Pending]
  /\ waiting = [p \in Promises |-> <<>>]
  /\ answer = [h \in Handlers |-> Pending]

-----------------------------------------------------------------------------

\* A promise that has an outcome keeps it.
Settles ==
  \A p \in Promises : outcome[p] # Pending => outcome'[p] = outcome[p]

\* A handler waits in one place, and only until it was called.
WaitsOnce ==
  /\ \A p \in Promises : \A i \in 1..Len(waiting[p]) :
       /\ answer[waiting[p][i]] = Pending
       /\ \A q \in Promises : \A j \in 1..Len(waiting[q]) :
            waiting[p][i] = waiting[q][j] => p = q /\ i = j

\* The handlers of p are the ones of old, then the ones just given to then.
Observes(p, old) ==
  /\ Len(old) <= Len(waiting'[p])
  /\ SubSeq(waiting'[p], 1, Len(old)) = old

Observe ==
  /\ \A p \in Promises : Observes(p, waiting[p])
  /\ UNCHANGED answer

\* The first handler of p is called with the outcome that p had before.
Answer(p) ==
  /\ waiting[p] # <<>>
  /\ outcome[p] # Pending
  /\ answer' = [answer EXCEPT ![Head(waiting[p])] = outcome[p]]
  /\ Observes(p, Tail(waiting[p]))
  /\ \A q \in Promises \ {p} : Observes(q, waiting[q])

Next ==
  /\ TypeOK' /\ WaitsOnce'
  /\ Settles
  /\ Observe \/ \E p \in Promises : Answer(p)

Spec == Init /\ [][Next]_vars

=============================================================================
