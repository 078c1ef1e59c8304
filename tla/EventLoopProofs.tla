---------------------------- MODULE EventLoopProofs ----------------------------
(***************************************************************************)
(* For any number of timeouts, cancels, requests for a flush and calls of  *)
(* main, with every step of theirs where it races: how often a request is  *)
(* flushed, when an exception of the phaser can end the timer thread, what *)
(* the parties of the phaser are, and when main waits for its function.    *)
(***************************************************************************)
EXTENDS EventLoop, FiniteSetTheorems, TLAPS

-----------------------------------------------------------------------------
(* The invariants *)

Request == [at : RequestAt, cancel : (UNION {IntervalOf(f) : f \in Flushes}) \cup {NoTimer},
            flushed : Nat, overwritten : BOOLEAN]

TypeInv ==
  /\ timer \in [Tasks -> TimerState]
  /\ canceled \in [Tasks -> BOOLEAN]
  /\ request \in [Flushes -> Request]
  /\ \A f \in Flushes : request[f].cancel \in IntervalOf(f) \cup {NoTimer}
  /\ clear \in [Clears -> [at : ClearAt, task : Timers \cup {NoTimer}]]

\* One thread runs all the functions.
OneRuns == \A t, u \in Tasks : timer[t] \in Stages /\ timer[u] \in Stages => t = u

\* The places of a request that has set its interval.
Started == {"scheduled", "interval", "complete"}

\* The interval has one task to come, and none runs before the timeout; as long
\* as that is not over the loop has not run.  The loop makes cancel reach the
\* task to come, unless setInterval overwrites that, before the first flush.
IntervalInv(f) ==
  /\ request[f].at = "idle" => timer[TimeoutOf(f)] = "unset"
  /\ request[f].at \notin Started =>
       /\ request[f].cancel = NoTimer
       /\ \A u \in IntervalOf(f) : timer[u] \in {"unset", "refused"}
  /\ request[f].at \in {"interval", "complete"} => request[f].cancel # NoTimer
  /\ \A u, v \in IntervalOf(f) :
       timer[u] \in {"set", "looping"} /\ timer[v] \in {"set", "looping"} => u = v
  /\ \A u \in IntervalOf(f) : timer[u] \in Stages => timer[TimeoutOf(f)] # "set"
  /\ timer[TimeoutOf(f)] \in Stages \cup {"set"} =>
       /\ request[f].cancel =
            IF request[f].at \in {"interval", "complete"} THEN FirstOf(f) ELSE NoTimer
       /\ \A u \in IntervalOf(f) : timer[u] = "set" => u = FirstOf(f)
  /\ \A u \in IntervalOf(f) : timer[u] \in {"handling", "clearing"} =>
       \/ request[f].cancel = OtherOf(f, u)
       \/ request[f].overwritten /\ request[f].flushed = 0

\* The interval is canceled, and none of its tasks at work.
Over(f) ==
  \A u \in IntervalOf(f) : /\ timer[u] \notin {"looping", "handling", "clearing"}
                           /\ timer[u] = "set" => canceled[u]

\* A flush ends the interval, or its cancel was overwritten and the next one does.
FlushedInv(f) ==
  /\ request[f].flushed \in {0, 1, 2}
  /\ request[f].flushed # 0 =>
       request[f].at = "complete" /\ timer[TimeoutOf(f)] \notin {"set", "handling", "clearing"}
  /\ request[f].flushed = 1 => Over(f) \/ request[f].overwritten
  /\ request[f].flushed = 2 => Over(f) /\ request[f].overwritten

FlushInv(f) == IntervalInv(f) /\ FlushedInv(f)

OnceInv == OneRuns /\ \A f \in Flushes : FlushInv(f)

-----------------------------------------------------------------------------
(* The tasks of the flushes *)

\* The three tasks of a flush are different, and no other flush or script has one.
LEMMA TasksAreApart ==
  ASSUME NEW f \in Flushes
  PROVE  /\ TasksOf(f) \subseteq Tasks /\ TimeoutOf(f) \in TasksOf(f)
         /\ IntervalOf(f) \subseteq TasksOf(f) /\ TimeoutOf(f) \notin IntervalOf(f)
         /\ \A t \in TasksOf(f) : t \notin Timers /\ (t = TimeoutOf(f) \/ t \in IntervalOf(f))
         /\ \A g \in Flushes : \A t \in TasksOf(f) : t \in TasksOf(g) => g = f
<1>1. \A t \in TasksOf(f) : t \notin Timers
  BY TasksAssumption
<1>2. TasksOf(f) \subseteq Tasks
  BY DEF Tasks
<1> QED
  BY <1>1, <1>2 DEF TasksOf, TimeoutOf, IntervalOf

\* Every task is a script's or a flush's.
LEMMA TaskOfSomeone ==
  ASSUME NEW t \in Tasks
  PROVE  t \in Timers \/ \E f \in Flushes : t \in TasksOf(f)
BY DEF Tasks

\* The two tasks of an interval take turns.
LEMMA OtherIsOther ==
  ASSUME NEW f \in Flushes, NEW u \in IntervalOf(f)
  PROVE  /\ OtherOf(f, u) \in IntervalOf(f) /\ OtherOf(f, u) # u
         /\ \A v \in IntervalOf(f) : v = u \/ v = OtherOf(f, u)
<1>1. \E v \in IntervalOf(f) : v # u
  BY DEF IntervalOf
<1>2. OtherOf(f, u) \in IntervalOf(f) /\ OtherOf(f, u) # u
  BY <1>1 DEF OtherOf
<1> QED
  BY <1>2 DEF IntervalOf

LEMMA FirstIsFirst ==
  ASSUME NEW f \in Flushes
  PROVE  FirstOf(f) \in IntervalOf(f) /\ FirstOf(f) \in Tasks /\ NoTimer \notin IntervalOf(f)
<1>1. FirstOf(f) \in IntervalOf(f)
  BY DEF FirstOf, IntervalOf
<1>2. IntervalOf(f) \subseteq Tasks
  BY TasksAreApart
<1> QED
  BY <1>1, <1>2, NoTimerAssumption

\* The first stage of a function tells whose it is.
LEMMA FirstStages ==
  /\ \A t \in Timers : FirstStage(t) = "running"
  /\ \A f \in Flushes : /\ FirstStage(TimeoutOf(f)) = "handling"
                         /\ \A u \in IntervalOf(f) : FirstStage(u) = "looping"
  /\ \A t \in Tasks : FirstStage(t) \in Stages
<1>1. \A t \in Timers : FirstStage(t) = "running"
  BY DEF FirstStage
<1>2. ASSUME NEW f \in Flushes
      PROVE  /\ FirstStage(TimeoutOf(f)) = "handling"
             /\ \A u \in IntervalOf(f) : FirstStage(u) = "looping"
  <2>1. TimeoutOf(f) \notin Timers /\ \A u \in IntervalOf(f) : u \notin Timers
    BY TasksAreApart
  <2> QED
    BY <2>1 DEF FirstStage, TimeoutOf, IntervalOf
<1>3. \A t \in Tasks : FirstStage(t) \in Stages
  BY DEF FirstStage, Stages
<1> QED
  BY <1>1, <1>2, <1>3

\* A function that is set, running or over has a state of its own.
LEMMA StatesDiffer ==
  /\ \A s \in Stages : s \notin {"set", "unset", "done", "refused"}
  /\ Stages \subseteq TimerState /\ {"set", "unset", "done", "refused"} \subseteq TimerState
BY DEF Stages, TimerState

-----------------------------------------------------------------------------
(* A request is flushed once *)

LEMMA OnceInit == Init => TypeInv /\ OnceInv
<1> SUFFICES ASSUME Init PROVE TypeInv /\ OnceInv
  OBVIOUS
<1>1. /\ timer = [t \in Tasks |-> "unset"] /\ canceled = [t \in Tasks |-> FALSE]
      /\ request = [f \in Flushes |-> [at |-> "idle", cancel |-> NoTimer, flushed |-> 0,
                                       overwritten |-> FALSE]]
      /\ clear = [c \in Clears |-> [at |-> "idle", task |-> NoTimer]]
  BY DEF Init
<1>2. TypeInv
  BY <1>1 DEF TypeInv, Request, RequestAt, ClearAt, TimerState
<1>3. \A f \in Flushes : \A u \in TasksOf(f) : timer[u] = "unset"
  BY <1>1, TasksAreApart
<1>4. ASSUME NEW f \in Flushes PROVE FlushInv(f)
  <2>1. /\ request[f].at = "idle" /\ request[f].cancel = NoTimer /\ request[f].flushed = 0
        /\ timer[TimeoutOf(f)] = "unset" /\ \A u \in IntervalOf(f) : timer[u] = "unset"
    BY <1>1, <1>3, TasksAreApart
  <2> QED
    BY <2>1, StatesDiffer DEF FlushInv, IntervalInv, FlushedInv, Started
<1>5. OneRuns
  BY <1>1, StatesDiffer DEF OneRuns
<1> QED
  BY <1>2, <1>4, <1>5 DEF OnceInv

\* A step that starts no function leaves one running at most.
LEMMA RunsKept ==
  ASSUME OneRuns, \A u \in Tasks : timer'[u] \in Stages => timer[u] \in Stages
  PROVE  OneRuns'
BY DEF OneRuns

\* A flush whose tasks and whose request do not change.
LEMMA FlushKept ==
  ASSUME NEW f \in Flushes, FlushInv(f), request'[f] = request[f],
         \A u \in TasksOf(f) : timer'[u] = timer[u] /\ (canceled[u] => canceled'[u])
  PROVE  FlushInv(f)'
<1>1. /\ timer'[TimeoutOf(f)] = timer[TimeoutOf(f)]
      /\ \A u \in IntervalOf(f) : timer'[u] = timer[u] /\ (canceled[u] => canceled'[u])
  BY TasksAreApart
<1>2. IntervalInv(f)'
  BY <1>1 DEF FlushInv, IntervalInv
<1>3. Over(f) => Over(f)'
  BY <1>1 DEF Over
<1>4. FlushedInv(f)'
  BY <1>1, <1>3 DEF FlushInv, FlushedInv
<1> QED
  BY <1>2, <1>4 DEF FlushInv

\* What the scripts and main set and cancel is no task of a flush.
ScriptStep ==
  \/ \E t \in Timers : SetTimeout(t) \/ MainSchedules(t)
  \/ \E c \in Clears : (\E t \in Timers : CancelArrives(c, t)) \/ CancelSets(c)

LeavesFlushes ==
  /\ request' = request
  /\ clear' \in [Clears -> [at : ClearAt, task : Timers \cup {NoTimer}]]
  /\ timer' \in [Tasks -> TimerState] /\ canceled' \in [Tasks -> BOOLEAN]
  /\ \A u \in Tasks : timer'[u] \in Stages => timer[u] \in Stages
  /\ \A u \in Tasks : u \notin Timers => timer'[u] = timer[u] /\ (canceled[u] => canceled'[u])

LEMMA ScriptOnce ==
  ASSUME TypeInv, OnceInv, ScriptStep
  PROVE  TypeInv' /\ OnceInv'
<1>1. LeavesFlushes
  <2>1. ASSUME NEW t \in Timers, SetTimeout(t) \/ MainSchedules(t)
        PROVE  LeavesFlushes
    <3>1. /\ timer' = [timer EXCEPT ![t] = NextState] /\ UNCHANGED <<canceled, request, clear>>
          /\ NextState \in {"set", "refused"} /\ t \in Tasks
      BY <2>1 DEF SetTimeout, MainSchedules, Schedules, NextState, Tasks
    <3> QED
      BY <3>1, StatesDiffer DEF TypeInv, LeavesFlushes
  <2>2. ASSUME NEW c \in Clears, NEW t \in Timers, CancelArrives(c, t)
        PROVE  LeavesFlushes
    <3>1. /\ UNCHANGED <<timer, canceled, request>>
          /\ \/ clear' = [clear EXCEPT ![c] = [at |-> "arrived", task |-> t]]
             \/ clear' = [clear EXCEPT ![c] = [@ EXCEPT !.at = "over"]]
      BY <2>2 DEF CancelArrives
    <3>2. clear' \in [Clears -> [at : ClearAt, task : Timers \cup {NoTimer}]]
      BY <3>1 DEF TypeInv, ClearAt
    <3> QED
      BY <3>1, <3>2 DEF TypeInv, LeavesFlushes
  <2>3. ASSUME NEW c \in Clears, CancelSets(c)
        PROVE  LeavesFlushes
    <3>1. /\ UNCHANGED <<timer, request>>
          /\ clear' = [clear EXCEPT ![c] = [at |-> "over", task |-> NoTimer]]
          /\ canceled' = [canceled EXCEPT ![clear[c].task] = TRUE]
      BY <2>3 DEF CancelSets
    <3> QED
      BY <3>1 DEF TypeInv, ClearAt, LeavesFlushes
  <2> QED
    BY <2>1, <2>2, <2>3 DEF ScriptStep
<1>2. TypeInv'
  BY <1>1 DEF TypeInv, LeavesFlushes
<1>3. OneRuns'
  BY <1>1, RunsKept DEF OnceInv, LeavesFlushes
<1>4. ASSUME NEW f \in Flushes PROVE FlushInv(f)'
  <2>1. \A u \in TasksOf(f) : u \in Tasks /\ u \notin Timers
    BY TasksAreApart
  <2> QED
    BY <1>1, <2>1, FlushKept DEF OnceInv, LeavesFlushes
<1> QED
  BY <1>2, <1>3, <1>4 DEF OnceInv

\* The timer thread starts a function: nothing runs, the timeout of a flush goes
\* first, and after the flush the task to come is canceled.
LEMMA FireOnce ==
  ASSUME TypeInv, OnceInv, NEW t \in Tasks, Fire(t)
  PROVE  TypeInv' /\ OnceInv'
<1> DEFINE next == IF canceled[t] THEN "done" ELSE FirstStage(t)
<1>1. /\ \A u \in Tasks : timer[u] \notin Stages
      /\ timer[t] = "set" /\ ~NotDue(t)
      /\ timer' = [timer EXCEPT ![t] = next]
      /\ UNCHANGED <<canceled, request, clear>>
  BY DEF Fire
<1>2. next \in TimerState /\ next \notin {"set", "unset"}
  BY FirstStages, StatesDiffer
<1>3. \A u \in Tasks : timer'[u] = IF u = t THEN next ELSE timer[u]
  BY <1>1 DEF TypeInv
<1>4. TypeInv'
  BY <1>1, <1>2 DEF TypeInv
<1>5. OneRuns'
  BY <1>1, <1>3 DEF OneRuns
<1>6. ASSUME NEW f \in Flushes PROVE FlushInv(f)'
  <2>1. /\ IntervalInv(f) /\ FlushedInv(f)
        /\ TimeoutOf(f) \in Tasks /\ \A u \in IntervalOf(f) : u \in Tasks /\ u # TimeoutOf(f)
    BY TasksAreApart DEF OnceInv, FlushInv
  <2>2. CASE t \notin TasksOf(f)
    BY <1>1, <1>3, <2>2, FlushKept, TasksAreApart DEF OnceInv
  <2>3. CASE t = TimeoutOf(f)
    <3>1. /\ request[f].flushed = 0 /\ request[f].at # "idle"
          /\ \A u \in IntervalOf(f) : timer'[u] = timer[u]
      BY <1>1, <1>3, <2>1, <2>3 DEF IntervalInv, FlushedInv
    <3>2. timer'[TimeoutOf(f)] # "set"
      BY <1>2, <1>3, <2>1, <2>3
    <3>3. IntervalInv(f)'
      BY <1>1, <2>1, <2>3, <3>1, <3>2 DEF IntervalInv
    <3> QED
      BY <1>1, <3>1, <3>3 DEF FlushInv, FlushedInv
  <2>4. CASE t \in IntervalOf(f)
    <3> DEFINE T == TimeoutOf(f)
    <3>1. timer[T] \notin Stages \cup {"set"} /\ timer'[T] = timer[T]
      BY <1>1, <1>3, <2>1, <2>4 DEF NotDue
    <3>2. request[f].at \in Started /\ request[f].at # "idle"
      BY <1>1, <2>1, <2>4 DEF IntervalInv, Started
    <3>3. next \in {"done", "looping"} /\ (next = "looping" => ~canceled[t])
      BY <2>4, FirstStages
    <3>4. \A u \in IntervalOf(f) : timer'[u] = IF u = t THEN next ELSE timer[u]
      BY <1>3, <2>1
    <3> HIDE DEF next, T
    <3>5. IntervalInv(f)'
      <4>1. \A u \in IntervalOf(f) : timer'[u] \notin {"handling", "clearing"}
        BY <1>1, <2>1, <3>3, <3>4 DEF Stages
      <4>2. \A u \in IntervalOf(f) : timer'[u] \in {"set", "looping"} => timer[u] \in {"set", "looping"}
        BY <1>1, <3>3, <3>4
      <4> QED
        BY <1>1, <2>1, <3>1, <3>2, <4>1, <4>2 DEF IntervalInv, T
    <3>6. Over(f) => Over(f)'
      BY <1>1, <2>1, <2>4, <3>3, <3>4 DEF Over
    <3>7. FlushedInv(f)'
      BY <1>1, <2>1, <3>1, <3>6 DEF FlushedInv, T
    <3> QED
      BY <3>5, <3>7 DEF FlushInv
  <2> QED
    BY <2>2, <2>3, <2>4, TasksAreApart
<1> QED
  BY <1>4, <1>5, <1>6 DEF OnceInv

\* A function is over.
LEMMA FinishedOnce ==
  ASSUME TypeInv, OnceInv, NEW t \in Tasks, Finished(t)
  PROVE  TypeInv' /\ OnceInv'
<1>1. /\ timer[t] \in Stages /\ timer' = [timer EXCEPT ![t] = "done"]
      /\ UNCHANGED <<canceled, request, clear>>
  BY DEF Finished, Stages
<1>2. /\ timer' \in [Tasks -> TimerState]
      /\ \A u \in Tasks : timer'[u] = IF u = t THEN "done" ELSE timer[u]
  BY <1>1, StatesDiffer DEF TypeInv
<1>3. TypeInv'
  BY <1>1, <1>2 DEF TypeInv
<1>4. OneRuns'
  BY <1>1, <1>2, RunsKept DEF OnceInv
<1>5. ASSUME NEW f \in Flushes PROVE FlushInv(f)'
  <2>1. /\ IntervalInv(f) /\ FlushedInv(f)
        /\ TimeoutOf(f) \in Tasks /\ \A u \in IntervalOf(f) : u \in Tasks
    BY TasksAreApart DEF OnceInv, FlushInv
  <2>2. /\ \A u \in IntervalOf(f) : timer'[u] = timer[u] \/ (timer'[u] = "done" /\ timer[u] \in Stages)
        /\ \/ timer'[TimeoutOf(f)] = timer[TimeoutOf(f)]
           \/ timer'[TimeoutOf(f)] = "done" /\ timer[TimeoutOf(f)] \in Stages
    BY <1>1, <1>2, <2>1
  <2>3. "done" \notin Stages \cup {"set", "looping", "handling", "clearing"}
        /\ "unset" \notin Stages /\ "refused" \notin Stages
    BY StatesDiffer
  <2>4. IntervalInv(f)'
    BY <1>1, <2>1, <2>2, <2>3 DEF IntervalInv
  <2>5. Over(f) => Over(f)'
    BY <1>1, <2>2, <2>3 DEF Over
  <2>6. FlushedInv(f)'
    BY <1>1, <2>1, <2>2, <2>3, <2>5 DEF FlushedInv
  <2> QED
    BY <2>4, <2>6 DEF FlushInv
<1> QED
  BY <1>3, <1>4, <1>5 DEF OnceInv

\* What a thread that asks for a flush does to its request.
RequestMoves(f) ==
  /\ request' \in [Flushes -> Request]
  /\ \A g \in Flushes : g # f => request'[g] = request[g]
  /\ request'[f].cancel \in IntervalOf(f) \cup {NoTimer} /\ request'[f].flushed = 0
  /\ request'[f].at # "idle"
  /\ ~AssignCancel(f) => /\ request'[f].cancel = request[f].cancel
                         /\ request'[f].overwritten = request[f].overwritten
  /\ AssignCancel(f) =>
       /\ request'[f].at = "interval"
       /\ request'[f].cancel = IF request[f].cancel = NoTimer THEN FirstOf(f)
                               ELSE OtherOf(f, request[f].cancel)
       /\ request'[f].overwritten = \E u \in IntervalOf(f) : timer[u] \in {"handling", "clearing"}

LEMMA RequestMoved ==
  ASSUME TypeInv, OnceInv, NEW f \in Flushes, RequestTimeout(f) \/ RequestStep(f)
  PROVE  RequestMoves(f) /\ request[f].flushed = 0
<1> DEFINE r == request[f]
<1>1. request \in [Flushes -> Request] /\ r \in Request /\ r.cancel \in IntervalOf(f) \cup {NoTimer}
  BY DEF TypeInv
<1>2. r.flushed = 0
  BY DEF OnceInv, FlushInv, FlushedInv, RequestTimeout, RequestStep, AssignTimeout,
     RequestInterval, AssignCancel, AssignInterval, RequestGoes
<1>3. ASSUME AssignCancel(f) PROVE RequestMoves(f)
  <2> DEFINE x == IF r.cancel = NoTimer THEN FirstOf(f) ELSE OtherOf(f, r.cancel)
             o == \E u \in IntervalOf(f) : timer[u] \in {"handling", "clearing"}
             m == [at |-> "interval", cancel |-> x, flushed |-> r.flushed, overwritten |-> o]
  <2>1. request' = [request EXCEPT ![f] = m]
    BY <1>3 DEF AssignCancel
  <2>2. x \in IntervalOf(f) /\ o \in BOOLEAN
    BY <1>1, FirstIsFirst, OtherIsOther
  <2> HIDE DEF x, o
  <2>3. m \in Request
    BY <1>2, <2>2 DEF Request, RequestAt
  <2>4. /\ request'[f] = m /\ request' \in [Flushes -> Request]
        /\ \A g \in Flushes : g # f => request'[g] = request[g]
    BY <1>1, <2>1, <2>3
  <2> QED
    BY <1>2, <1>3, <2>2, <2>4 DEF RequestMoves, x, o
<1>4. ASSUME ~AssignCancel(f) PROVE RequestMoves(f)
  <2>1. PICK place \in RequestAt \ {"idle"} : request' = [request EXCEPT ![f].at = place]
    BY <1>4 DEF RequestTimeout, RequestStep, AssignTimeout, RequestInterval, AssignInterval,
       RequestGoes, RequestAt
  <2> DEFINE m == [r EXCEPT !.at = place]
  <2>2. m \in Request /\ request' = [request EXCEPT ![f] = m]
    BY <1>1, <2>1 DEF Request
  <2>3. m.at = place /\ m.cancel = r.cancel /\ m.flushed = 0 /\ m.overwritten = r.overwritten
    BY <1>1, <1>2 DEF Request
  <2> HIDE DEF m
  <2>4. /\ request'[f] = m /\ request' \in [Flushes -> Request]
        /\ \A g \in Flushes : g # f => request'[g] = request[g]
    BY <1>1, <2>2
  <2> QED
    BY <1>1, <1>4, <2>1, <2>3, <2>4 DEF RequestMoves
<1> QED
  BY <1>2, <1>3, <1>4

\* A thread asks for a flush: it sets the timeout and the interval once, and
\* assigns cancel before the queue can be flushed.
LEMMA RequestOnce ==
  ASSUME TypeInv, OnceInv, NEW f \in Flushes, RequestTimeout(f) \/ RequestStep(f)
  PROVE  TypeInv' /\ OnceInv'
<1> DEFINE T == TimeoutOf(f)
           I == IntervalOf(f)
<1>1. /\ IntervalInv(f) /\ UNCHANGED <<canceled, clear>>
      /\ T \in Tasks /\ T \notin I /\ \A u \in I : u \in Tasks
      /\ FirstOf(f) \in I /\ FirstOf(f) \in Tasks /\ NoTimer \notin I
      /\ NextState \in {"set", "refused"}
      /\ RequestMoves(f)
  BY TasksAreApart, FirstIsFirst, RequestMoved DEF OnceInv, FlushInv, RequestTimeout,
     RequestStep, AssignTimeout, RequestInterval, AssignCancel, AssignInterval, NextState
<1>2. PICK x \in {T, FirstOf(f)} :
        timer' = timer \/ timer' = [timer EXCEPT ![x] = NextState]
  BY DEF RequestTimeout, RequestStep, AssignTimeout, RequestInterval, AssignCancel,
     AssignInterval, Schedules
<1>3. /\ timer' \in [Tasks -> TimerState]
      /\ \A u \in Tasks : timer'[u] \in Stages => timer[u] \in Stages
      /\ \A u \in Tasks : u \notin TasksOf(f) => timer'[u] = timer[u]
  BY <1>1, <1>2, StatesDiffer, TasksAreApart DEF TypeInv
<1>4. TypeInv'
  <2>1. \A g \in Flushes : request'[g].cancel \in IntervalOf(g) \cup {NoTimer}
    BY <1>1 DEF TypeInv, RequestMoves
  <2> QED
    BY <1>1, <1>3, <2>1 DEF TypeInv, RequestMoves
<1>5. OneRuns'
  BY <1>3, RunsKept DEF OnceInv
<1>6. ASSUME NEW g \in Flushes, g # f PROVE FlushInv(g)'
  <2>1. \A u \in TasksOf(g) : u \notin TasksOf(f) /\ u \in Tasks
    BY <1>6, TasksAreApart
  <2> QED
    BY <1>1, <1>3, <1>6, <2>1, FlushKept DEF OnceInv, RequestMoves
<1>7. FlushedInv(f)'
  BY <1>1 DEF RequestMoves, FlushedInv
<1>8. IntervalInv(f)'
  <2>1. CASE RequestTimeout(f)
    <3>1. /\ request[f].at = "idle" /\ request'[f].at \in {"refused", "timeout"}
          /\ request'[f].cancel = NoTimer
          /\ timer' = [timer EXCEPT ![T] = NextState]
          /\ \A u \in I : timer[u] \in {"unset", "refused"}
      BY <1>1, <2>1 DEF RequestTimeout, RequestGoes, Schedules, AssignCancel, TypeInv,
         RequestMoves, IntervalInv, Started, Request
    <3>2. \A u \in I : timer'[u] \in {"unset", "refused"}
      BY <1>1, <3>1 DEF TypeInv
    <3> QED
      BY <3>1, <3>2, StatesDiffer DEF IntervalInv, Started
  <2>2. CASE AssignTimeout(f) \/ AssignInterval(f)
    <3>1. /\ timer' = timer /\ request'[f].cancel = request[f].cancel
          /\ request'[f].overwritten = request[f].overwritten
          /\ request'[f].flushed = request[f].flushed
          /\ \/ request[f].at = "timeout" /\ request'[f].at = "assigned"
             \/ request[f].at = "interval" /\ request'[f].at = "complete"
      BY <1>1, <2>2, RequestMoved DEF AssignTimeout, AssignInterval, RequestGoes, AssignCancel,
         RequestMoves, TypeInv, Request
    <3> QED
      BY <1>1, <3>1 DEF IntervalInv, Started
  <2>3. CASE RequestInterval(f)
    <3>1. /\ request[f].at = "assigned" /\ request'[f].cancel = NoTimer
          /\ timer' = [timer EXCEPT ![FirstOf(f)] = NextState]
          /\ request'[f].at = IF NextState = "set" THEN "scheduled" ELSE "refused"
          /\ \A u \in I : timer[u] \in {"unset", "refused"}
      BY <1>1, <2>3 DEF RequestInterval, RequestGoes, Schedules, AssignCancel, TypeInv,
         RequestMoves, IntervalInv, Started, Request, NextState
    <3>2. /\ \A u \in I : timer'[u] = IF u = FirstOf(f) THEN NextState ELSE timer[u]
          /\ timer'[T] = timer[T]
      BY <1>1, <3>1 DEF TypeInv
    <3>3. \A u \in I : /\ timer'[u] \notin Stages
                       /\ timer'[u] = "set" => u = FirstOf(f)
      BY <1>1, <3>1, <3>2, StatesDiffer
    <3> QED
      BY <1>1, <3>1, <3>2, <3>3, StatesDiffer DEF IntervalInv, Started, Stages
  <2>4. CASE AssignCancel(f)
    <3>1. /\ request[f].at = "scheduled" /\ timer' = timer
          /\ request[f].cancel \in I \cup {NoTimer}
      BY <2>4 DEF AssignCancel, TypeInv
    <3>2. /\ request'[f].cancel \in I
          /\ request[f].cancel = NoTimer => request'[f].cancel = FirstOf(f)
      BY <1>1, <2>4, <3>1, OtherIsOther DEF RequestMoves
    <3> QED
      BY <1>1, <2>4, <3>1, <3>2 DEF RequestMoves, IntervalInv, Started
  <2> QED
    BY <2>1, <2>2, <2>3, <2>4 DEF RequestStep
<1> QED
  BY <1>4, <1>5, <1>6, <1>7, <1>8 DEF OnceInv, FlushInv

\* The loop of an interval: it sets the next task, which cancel reaches.
LEMMA LoopOnce ==
  ASSUME TypeInv, OnceInv, NEW f \in Flushes, NEW u \in IntervalOf(f), LoopSchedules(f, u)
  PROVE  TypeInv' /\ OnceInv'
<1> DEFINE v == OtherOf(f, u)
           T == TimeoutOf(f)
<1>1. /\ v \in IntervalOf(f) /\ v # u /\ \A w \in IntervalOf(f) : w = u \/ w = v
      /\ u \in Tasks /\ v \in Tasks
      /\ u # T /\ v # T /\ T \in Tasks
      /\ timer[u] = "looping" /\ clear' = clear
  BY OtherIsOther, TasksAreApart DEF LoopSchedules
<1>2. /\ IntervalInv(f) /\ FlushedInv(f) /\ ~Over(f)
      /\ timer[v] \notin Stages \cup {"set"} /\ timer[T] \notin Stages \cup {"set"}
      /\ request[f].at \in Started
  <2>1. IntervalInv(f) /\ FlushedInv(f) /\ ~Over(f)
    BY <1>1 DEF OnceInv, FlushInv, Over
  <2>2. timer[v] \notin Stages /\ timer[T] \notin Stages
    BY <1>1 DEF OnceInv, OneRuns, Stages
  <2> QED
    BY <1>1, <2>1, <2>2 DEF IntervalInv, Stages
<1>3. FirstOf(f) \in IntervalOf(f) /\ NoTimer \notin IntervalOf(f)
  BY FirstIsFirst
<1> HIDE DEF v, T
<1>4. CASE Refused
  <2>1. timer' = [timer EXCEPT ![u] = "ending"] /\ UNCHANGED <<canceled, request>>
    BY <1>4 DEF LoopSchedules
  <2>2. /\ timer' \in [Tasks -> TimerState]
        /\ \A w \in Tasks : timer'[w] = IF w = u THEN "ending" ELSE timer[w]
    BY <1>1, <2>1, StatesDiffer DEF TypeInv, Stages
  <2>3. TypeInv' /\ OneRuns'
    BY <1>1, <2>1, <2>2, RunsKept DEF TypeInv, OnceInv, Stages
  <2>4. ASSUME NEW g \in Flushes, g # f PROVE FlushInv(g)'
    BY <1>1, <2>1, <2>2, <2>4, FlushKept, TasksAreApart DEF OnceInv
  <2>5. timer'[u] = "ending" /\ timer'[v] = timer[v] /\ timer'[T] = timer[T]
    BY <1>1, <2>2
  <2>6. IntervalInv(f)'
    BY <1>1, <1>2, <2>1, <2>5 DEF IntervalInv, Started, Stages, T
  <2>7. FlushedInv(f)'
    BY <1>2, <2>1, <2>5 DEF FlushedInv, Stages, T
  <2> QED
    BY <2>3, <2>4, <2>6, <2>7 DEF OnceInv, FlushInv
<1>5. CASE ~Refused
  <2>1. /\ timer' = [timer EXCEPT ![v] = "set", ![u] = "handling"]
        /\ request' = [request EXCEPT ![f].cancel = v]
        /\ canceled' = [canceled EXCEPT ![v] = FALSE]
    BY <1>5 DEF LoopSchedules, v
  <2>2. /\ timer' \in [Tasks -> TimerState]
        /\ \A w \in Tasks : timer'[w] = IF w = u THEN "handling" ELSE IF w = v THEN "set" ELSE timer[w]
        /\ canceled' \in [Tasks -> BOOLEAN]
        /\ \A w \in Tasks : w # v => canceled'[w] = canceled[w]
    BY <1>1, <2>1 DEF TypeInv, TimerState, Stages
  <2>3. /\ request' \in [Flushes -> Request]
        /\ \A g \in Flushes : g # f => request'[g] = request[g]
        /\ request'[f].cancel = v /\ request'[f].flushed = request[f].flushed
        /\ request'[f].at = request[f].at /\ request'[f].overwritten = request[f].overwritten
    BY <1>1, <2>1 DEF TypeInv, Request
  <2>4. TypeInv'
    BY <1>1, <2>2, <2>3 DEF TypeInv
  <2>5. OneRuns'
    BY <1>1, <2>2, RunsKept DEF OnceInv, Stages
  <2>6. ASSUME NEW g \in Flushes, g # f PROVE FlushInv(g)'
    <3>1. \A w \in TasksOf(g) : w # u /\ w # v /\ w \in Tasks
      BY <1>1, <2>6, TasksAreApart
    <3> QED
      BY <1>1, <2>2, <2>3, <2>6, <3>1, FlushKept DEF OnceInv
  <2>7. timer'[u] = "handling" /\ timer'[v] = "set" /\ timer'[T] = timer[T]
    BY <1>1, <2>2
  <2>8. IntervalInv(f)'
    <3>1. OtherOf(f, u) = v
      BY DEF v
    <3> QED
      BY <1>1, <1>2, <1>3, <2>3, <2>7, <3>1 DEF IntervalInv, Started, Stages, T
  <2>9. FlushedInv(f)'
    BY <1>2, <2>3, <2>7 DEF FlushedInv, Stages, T
  <2> QED
    BY <2>4, <2>5, <2>6, <2>8, <2>9 DEF OnceInv, FlushInv
<1> QED
  BY <1>4, <1>5

\* handleTimer: the function of a flush is the only one at work, and cancels the
\* task that cancel reaches before it flushes.
LEMMA HandlerOnce ==
  ASSUME TypeInv, OnceInv, NEW f \in Flushes, NEW t \in TasksOf(f), HandleTimer(f, t)
  PROVE  TypeInv' /\ OnceInv'
<1> USE DEF HandleTimer, TimeoutIsUnassigned, IntervalIsUnassigned, HandlerThrows, ClearTimeout,
            ClearIntervalAndFlush
<1> DEFINE T == TimeoutOf(f)
           I == IntervalOf(f)
<1>1. /\ timer[t] \in {"handling", "clearing"} /\ t \in Tasks /\ clear' = clear
      /\ T \in Tasks /\ T \notin I /\ \A u \in I : u \in Tasks
      /\ t = T \/ t \in I
  BY TasksAreApart
<1>2. PICK next \in {"ending", "clearing"} : timer' = [timer EXCEPT ![t] = next]
  OBVIOUS
<1>3. canceled' \in [Tasks -> BOOLEAN] /\ \A u \in Tasks : canceled[u] => canceled'[u]
  BY <1>1 DEF TypeInv, Cancels
<1>4. /\ timer' \in [Tasks -> TimerState]
      /\ \A u \in Tasks : timer'[u] = IF u = t THEN next ELSE timer[u]
  BY <1>1, <1>2 DEF TypeInv, TimerState, Stages
<1>5. OneRuns'
  BY <1>1, <1>4, RunsKept DEF OnceInv, Stages
<1>6. /\ IntervalInv(f) /\ FlushedInv(f)
      /\ \A u \in Tasks : u # t => timer[u] \notin Stages
      /\ t \in I => ~Over(f) /\ timer[T] \notin Stages \cup {"set"}
      /\ request[f].at # "idle"
  <2>1. IntervalInv(f) /\ FlushedInv(f) /\ \A u \in Tasks : u # t => timer[u] \notin Stages
    BY <1>1 DEF OnceInv, OneRuns, FlushInv, Stages
  <2> QED
    BY <1>1, <2>1 DEF IntervalInv, Over, Stages, Started
<1>7. /\ \A u \in I : timer'[u] = timer[u] \/ (timer'[u] = next /\ timer[u] \in {"handling", "clearing"})
      /\ timer'[T] = timer[T] \/ (timer'[T] = next /\ timer[T] \in {"handling", "clearing"})
  BY <1>1, <1>4
<1>8. ASSUME NEW g \in Flushes, g # f, request'[g] = request[g] PROVE FlushInv(g)'
  <2>1. \A u \in TasksOf(g) : u # t /\ u \in Tasks
    BY <1>8, TasksAreApart
  <2> QED
    BY <1>3, <1>4, <1>8, <2>1, FlushKept DEF OnceInv
<1>9. CASE request' = request
  <2>1. IntervalInv(f)'
    BY <1>6, <1>7, <1>9 DEF IntervalInv, Stages
  <2>2. Over(f) => Over(f)'
    BY <1>1, <1>3, <1>7 DEF Over
  <2>3. FlushedInv(f)'
    BY <1>6, <1>7, <1>9, <2>2 DEF FlushedInv
  <2>4. TypeInv'
    BY <1>1, <1>3, <1>4, <1>9 DEF TypeInv
  <2> QED
    BY <1>5, <1>8, <1>9, <2>1, <2>3, <2>4 DEF OnceInv, FlushInv
<1>10. CASE ClearIntervalAndFlush(f, t)
  <2>1. /\ request' = [request EXCEPT ![f].flushed = @ + 1]
        /\ request[f].at = "complete" /\ timer[t] = "clearing"
        /\ canceled' = [canceled EXCEPT ![request[f].cancel] = TRUE]
        /\ timer' = [timer EXCEPT ![t] = "ending"]
    BY <1>10 DEF Cancels
  <2>2. request[f].cancel \in I /\ request[f].cancel \in Tasks
    BY <1>1, <1>6, <2>1 DEF TypeInv, IntervalInv
  <2>3. /\ request' \in [Flushes -> Request]
        /\ \A g \in Flushes : g # f => request'[g] = request[g]
        /\ request'[f].cancel = request[f].cancel /\ request'[f].at = "complete"
        /\ request'[f].flushed = request[f].flushed + 1
        /\ request'[f].overwritten = request[f].overwritten
    BY <2>1 DEF TypeInv, Request
  <2>4. /\ canceled'[request[f].cancel]
        /\ \A u \in Tasks : timer'[u] = IF u = t THEN "ending" ELSE timer[u]
    BY <1>1, <2>1, <2>2 DEF TypeInv
  <2>5. /\ \A u \in I : /\ timer'[u] \notin {"looping", "handling", "clearing"}
                        /\ timer'[u] = "set" => timer[u] = "set"
        /\ timer'[T] \notin {"handling", "clearing"}
        /\ timer'[T] = "set" => timer[T] = "set" /\ t # T
    BY <1>1, <1>6, <2>4 DEF Stages
  <2>6. TypeInv'
    BY <1>1, <1>3, <1>4, <2>3 DEF TypeInv
  <2>7. IntervalInv(f)'
    <3>1. \A u \in I : timer'[u] \in Stages => timer[u] \in Stages
      BY <1>1, <1>4 DEF Stages
    <3>2. timer'[T] \in Stages \cup {"set"} => timer[T] \in Stages \cup {"set"}
      BY <1>1, <1>4 DEF Stages
    <3> QED
      BY <1>1, <1>6, <2>1, <2>3, <2>5, <3>1, <3>2 DEF IntervalInv, Started
  <2>8. FlushedInv(f)'
    <3>1. CASE t = T
      <4>1. request[f].flushed = 0 /\ \A u \in I : timer[u] = "set" => u = request[f].cancel
        BY <1>6, <2>1, <3>1 DEF IntervalInv, FlushedInv, Stages
      <4>2. Over(f)'
        BY <2>4, <2>5, <4>1 DEF Over
      <4>3. timer'[T] = "ending"
        BY <1>1, <2>4, <3>1
      <4> QED
        BY <2>3, <4>1, <4>2, <4>3 DEF FlushedInv
    <3>2. CASE t \in I
      <4>1. /\ timer'[T] \notin {"set", "handling", "clearing"}
            /\ request[f].flushed = 0 \/ (request[f].flushed = 1 /\ request[f].overwritten)
        BY <1>6, <2>5, <3>2 DEF FlushedInv
      <4>2. CASE request[f].cancel = OtherOf(f, t)
        <5>1. \A u \in I : timer'[u] = "set" => u = request[f].cancel
          <6>1. \A u \in I : u = t \/ u = request[f].cancel
            BY <3>2, <4>2, OtherIsOther
          <6>2. timer'[t] # "set"
            BY <1>1, <2>4
          <6> QED
            BY <6>1, <6>2
        <5>2. Over(f)'
          BY <2>4, <2>5, <5>1 DEF Over
        <5> QED
          BY <2>3, <4>1, <5>2 DEF FlushedInv
      <4>3. CASE request[f].overwritten /\ request[f].flushed = 0
        BY <2>3, <4>1, <4>3 DEF FlushedInv
      <4> QED
        BY <1>1, <1>6, <3>2, <4>2, <4>3 DEF IntervalInv
    <3> QED
      BY <1>1, <3>1, <3>2
  <2> QED
    BY <1>5, <1>8, <2>3, <2>6, <2>7, <2>8 DEF OnceInv, FlushInv
<1> QED
  BY <1>9, <1>10

LEMMA OnceNext == TypeInv /\ OnceInv /\ [Next]_vars => TypeInv' /\ OnceInv'
<1> SUFFICES ASSUME TypeInv, OnceInv, [Next]_vars PROVE TypeInv' /\ OnceInv'
  OBVIOUS
<1>1. CASE ScriptStep
  BY <1>1, ScriptOnce
<1>2. ASSUME NEW t \in Tasks, Fire(t) \/ Finished(t)
      PROVE  TypeInv' /\ OnceInv'
  BY <1>2, FireOnce, FinishedOnce
<1>3. ASSUME NEW f \in Flushes, RequestTimeout(f) \/ RequestStep(f) \/ FlushStep(f)
      PROVE  TypeInv' /\ OnceInv'
  BY <1>3, RequestOnce, LoopOnce, HandlerOnce DEF FlushStep
<1>4. CASE UNCHANGED <<timer, canceled, request, clear>>
  <2>1. ASSUME NEW f \in Flushes PROVE FlushInv(f)'
    BY <1>4, <2>1, FlushKept DEF OnceInv
  <2> QED
    BY <1>4, <2>1 DEF TypeInv, OnceInv, OneRuns
<1>5. ASSUME MainReplaces \/ MainRegisters \/ MainArrives \/ MainAdvances \/ MainReturns
             \/ MainTimesOut \/ Shutdown \/ UNCHANGED vars
      PROVE  UNCHANGED <<timer, canceled, request, clear>>
  BY <1>5 DEF MainReplaces, MainRegisters, MainArrives, MainAdvances, MainReturns, MainTimesOut,
              Shutdown, vars
<1> QED
  BY <1>1, <1>2, <1>3, <1>4, <1>5 DEF Next, MainStep, TimerThread, ScriptStep

\* A request for a flush empties the queue once, and leaves no task of its
\* interval to run: whatever else is set, canceled or shut down meanwhile, and
\* although the interval sets its next task before it calls the function.  It
\* does so twice at most, and then too ends the interval, if setInterval
\* assigned its cancel over that of a loop under way.
THEOREM FlushedAtMostOnce == Spec => []FlushedOnce
<1>1. TypeInv /\ OnceInv => FlushedOnce
  BY DEF OnceInv, FlushInv, FlushedInv, FlushedOnce, Over
<1> QED
  BY <1>1, OnceInit, OnceNext, PTL DEF Spec

-----------------------------------------------------------------------------
(* What the phaser expects *)

IsPhaser(p) == p \in Phaser /\ p.unarrived <= p.parties

\* After a registration somebody is expected.
LEMMA RegisterExpects ==
  ASSUME NEW p, IsPhaser(p)
  PROVE  IsPhaser(Register(p)) /\ ~BadArrival(Register(p))
<1>1. /\ p \in Phaser /\ p.parties \in Nat /\ p.unarrived \in Nat
      /\ p.unarrived <= p.parties
  BY DEF IsPhaser, Phaser
<1>2. CASE p.terminated
  BY <1>2 DEF Register, BadArrival
<1>3. CASE ~p.terminated
  <2>1. p = [parties |-> p.parties, unarrived |-> p.unarrived, phase |-> p.phase,
             terminated |-> p.terminated]
    BY DEF IsPhaser, Phaser
  <2>2. Register(p) = [parties |-> p.parties + 1, unarrived |-> p.unarrived + 1,
                       phase |-> p.phase, terminated |-> p.terminated]
    BY <1>3, <2>1 DEF Register
  <2>3. Register(p) \in Phaser
    BY <1>1, <2>2 DEF Phaser
  <2>4. /\ Register(p).parties = p.parties + 1
        /\ Register(p).unarrived = p.unarrived + 1
    BY <2>2
  <2> QED
    BY <1>1, <2>3, <2>4 DEF IsPhaser, BadArrival
<1> QED
  BY <1>2, <1>3

\* The phasers nobody has registered on, and nobody will.
LEMMA NewAndEnded ==
  /\ IsPhaser(NewPhaser) /\ IsPhaser(Ended) /\ ~BadArrival(Ended)
  /\ NewPhaser.parties = 0 /\ NewPhaser.unarrived = 0 /\ NewPhaser.phase = 0
  /\ ~NewPhaser.terminated /\ Ended.terminated /\ Ended.unarrived = 0
<1>1. IsPhaser(Ended) /\ ~BadArrival(Ended) /\ Ended.terminated /\ Ended.unarrived = 0
  BY DEF Ended, IsPhaser, Phaser, BadArrival
<1>2. IsPhaser(NewPhaser)
  BY DEF NewPhaser, IsPhaser, Phaser
<1> QED
  BY <1>1, <1>2 DEF NewPhaser

\* A phase begins with every party expected, or the phaser is over: an arrival
\* leaves no phaser that would refuse the next one.
LEMMA AdvanceExpects ==
  ASSUME NEW p, IsPhaser(p)
  PROVE  IsPhaser(Advance(p)) /\ ~BadArrival(Advance(p))
<1>1. p.parties \in Nat /\ p.unarrived \in Nat /\ p.unarrived <= p.parties /\ p.phase \in Nat
  BY DEF IsPhaser, Phaser
<1>2. CASE p.unarrived > 0
  BY <1>1, <1>2 DEF Advance, BadArrival
<1>3. CASE ~(p.unarrived > 0) /\ p.parties = 0
  <2>1. Advance(p) = Ended
    BY <1>3 DEF Advance
  <2> QED
    BY <2>1, NewAndEnded
<1>4. CASE ~(p.unarrived > 0) /\ p.parties # 0
  <2>1. p = [parties |-> p.parties, unarrived |-> p.unarrived, phase |-> p.phase,
             terminated |-> p.terminated]
    BY DEF IsPhaser, Phaser
  <2>2. Advance(p) = [parties |-> p.parties, unarrived |-> p.parties, phase |-> p.phase + 1,
                      terminated |-> p.terminated]
    BY <1>4, <2>1 DEF Advance
  <2>3. Advance(p) \in Phaser
    BY <1>1, <2>2 DEF IsPhaser, Phaser
  <2>4. Advance(p).parties = p.parties /\ Advance(p).unarrived = p.parties
    BY <2>2
  <2> QED
    BY <1>1, <1>4, <2>3, <2>4 DEF IsPhaser, BadArrival
<1> QED
  BY <1>2, <1>3, <1>4

LEMMA ArriveExpects ==
  ASSUME NEW p, IsPhaser(p)
  PROVE  /\ IsPhaser(Arrive(p)) /\ (BadArrival(Arrive(p)) => BadArrival(p))
         /\ IsPhaser(ArriveAndDeregister(p))
         /\ BadArrival(ArriveAndDeregister(p)) => BadArrival(p)
<1>1. CASE p.terminated \/ BadArrival(p)
  BY <1>1 DEF Arrive, ArriveAndDeregister
<1>2. CASE ~(p.terminated \/ BadArrival(p))
  <2> DEFINE a == [p EXCEPT !.unarrived = @ - 1]
             d == [p EXCEPT !.parties = @ - 1, !.unarrived = @ - 1]
  <2>1. p.unarrived \in Nat /\ p.unarrived # 0 /\ p.parties \in Nat /\ p.unarrived <= p.parties
    BY <1>2 DEF IsPhaser, Phaser, BadArrival
  <2>2. p \in Phaser /\ p.parties - 1 \in Nat /\ p.unarrived - 1 \in Nat
    BY <2>1 DEF IsPhaser
  <2>3. a \in Phaser /\ a.parties = p.parties /\ a.unarrived = p.unarrived - 1
    BY <2>2 DEF Phaser
  <2>4. d \in Phaser /\ d.parties = p.parties - 1 /\ d.unarrived = p.unarrived - 1
    <3> DEFINE m == [p EXCEPT !.parties = p.parties - 1]
    <3>1. m \in Phaser /\ m.parties = p.parties - 1
      BY <2>2 DEF Phaser
    <3>2. d = [m EXCEPT !.unarrived = p.unarrived - 1]
      OBVIOUS
    <3> HIDE DEF m, d
    <3> QED
      BY <2>2, <3>1, <3>2 DEF Phaser
  <2>5. Arrive(p) = Advance(a) /\ ArriveAndDeregister(p) = Advance(d)
    BY <1>2 DEF Arrive, ArriveAndDeregister
  <2> HIDE DEF a, d
  <2>6. IsPhaser(a) /\ IsPhaser(d)
    BY <2>1, <2>3, <2>4 DEF IsPhaser
  <2> QED
    BY <2>5, <2>6, AdvanceExpects
<1> QED
  BY <1>1, <1>2

-----------------------------------------------------------------------------
(* Type correctness *)

MainRecord == [at : MainAt, fn : Timers \cup {NoTimer}, phase : Nat, counted : BOOLEAN]

\* The variables TypeInv does not speak of.
MainType ==
  /\ IsPhaser(phaser)
  /\ thread \in {"alive", "dead", "shutdown"}
  /\ main \in MainRecord
  /\ mainFns \subseteq Timers
  /\ timeouts \in Nat
  /\ stray \in BOOLEAN /\ orphaned \in BOOLEAN

\* The steps of main move its place, its function, the phase it waits for, and
\* whether it is counted.
LEMMA MainStepType ==
  ASSUME MainType, MainStep \/ MainTimesOut
  PROVE  MainType'
<1>1. main \in MainRecord /\ phaser.phase \in Nat /\ phaser.terminated \in BOOLEAN
  BY DEF MainType, IsPhaser, Phaser
<1>2. NoMain \in MainRecord
  BY DEF NoMain, MainRecord, MainAt
<1>3. main' \in MainRecord
  <2>1. CASE MainReplaces \/ MainAdvances
    BY <1>1, <2>1 DEF MainRecord, MainAt, MainReplaces, MainAdvances, MainGoes
  <2>2. CASE MainRegisters
    <3> DEFINE m == [main EXCEPT !.at = "registered"]
    <3>1. m \in MainRecord /\ main' = [m EXCEPT !.counted = ~phaser.terminated]
      BY <1>1, <2>2 DEF MainRegisters, MainRecord, MainAt
    <3> HIDE DEF m
    <3> QED
      BY <1>1, <3>1 DEF MainRecord
  <2>3. ASSUME NEW t \in Timers, MainSchedules(t) PROVE main' \in MainRecord
    <3> DEFINE m == [main EXCEPT !.at = "scheduled"]
    <3>1. m \in MainRecord /\ (main' = NoMain \/ main' = [m EXCEPT !.fn = t])
      BY <1>1, <2>3 DEF MainSchedules, MainIsOver, MainRecord, MainAt
    <3> HIDE DEF m
    <3> QED
      BY <1>2, <3>1 DEF MainRecord
  <2>4. CASE MainArrives
    <3> DEFINE m == [main EXCEPT !.at = "waiting"]
    <3>1. m \in MainRecord /\ (main' = NoMain \/ main' = [m EXCEPT !.phase = phaser.phase])
      BY <1>1, <2>4 DEF MainArrives, MainIsOver, MainRecord, MainAt
    <3> HIDE DEF m
    <3> QED
      BY <1>1, <1>2, <3>1 DEF MainRecord
  <2>5. CASE MainReturns \/ MainTimesOut
    BY <1>2, <2>5 DEF MainReturns, MainTimesOut, MainIsOver
  <2> QED
    BY <2>1, <2>2, <2>3, <2>4, <2>5 DEF MainStep
<1>4. IsPhaser(phaser')
  <2>1. \/ phaser' \in {phaser, NewPhaser, Register(phaser)}
        \/ phaser' \in {Arrive(phaser), ArriveAndDeregister(phaser)}
    BY DEF MainStep, MainReplaces, MainRegisters, MainSchedules, Schedules, MainArrives,
           MainAdvances, MainReturns, OnTaskFinished, MainTimesOut
  <2> QED
    BY <2>1, NewAndEnded, RegisterExpects, ArriveExpects DEF MainType
<1>5. thread' = thread /\ stray' = stray
  BY DEF MainStep, MainReplaces, MainRegisters, MainSchedules, MainArrives, MainAdvances,
         MainReturns, MainTimesOut, history
<1>6. orphaned' \in BOOLEAN
  <2>1. orphaned' = orphaned \/ orphaned' = (orphaned \/ (phaser.terminated /\ Pending # {}))
    BY DEF MainStep, MainReplaces, MainRegisters, MainSchedules, MainArrives, MainAdvances,
           MainReturns, MainTimesOut, history
  <2> QED
    BY <2>1 DEF MainType
<1>7. mainFns' \subseteq Timers /\ timeouts' \in Nat
  <2>1. \/ UNCHANGED <<mainFns, timeouts>>
        \/ UNCHANGED mainFns /\ timeouts' = timeouts + 1
        \/ UNCHANGED timeouts /\ \E t \in Timers : mainFns' = mainFns \cup {t}
    BY DEF MainStep, MainReplaces, MainRegisters, MainSchedules, MainArrives, MainAdvances,
           MainReturns, MainTimesOut, history
  <2> QED
    BY <2>1 DEF MainType
<1> QED
  BY <1>3, <1>4, <1>5, <1>6, <1>7 DEF MainType

\* Everything else leaves main alone, and registers, counts off or shuts down.
LoopStep ==
  \/ \E t \in Timers : SetTimeout(t)
  \/ \E c \in Clears : (\E t \in Timers : CancelArrives(c, t)) \/ CancelSets(c)
  \/ \E t \in Tasks : Fire(t) \/ Finished(t)
  \/ \E f \in Flushes : RequestTimeout(f) \/ RequestStep(f) \/ FlushStep(f)

LEMMA LoopStepType ==
  ASSUME MainType, LoopStep \/ Shutdown
  PROVE  /\ MainType' /\ UNCHANGED <<main, mainFns, timeouts, orphaned>>
         /\ LoopStep => phaser' \in {phaser, Register(phaser), ArriveAndDeregister(phaser)}
<1> USE DEF SetTimeout, Schedules, CancelArrives, CancelSets, CountsOff, Cancels, OnTaskFinished,
            Fire, Finished, RequestTimeout, RequestStep, AssignTimeout, RequestInterval,
            AssignCancel, AssignInterval, FlushStep, LoopSchedules, HandleTimer, HandlerThrows,
            TimeoutIsUnassigned, IntervalIsUnassigned, ClearTimeout, ClearIntervalAndFlush,
            Shutdown, LoopStep, history
<1>1. UNCHANGED <<main, mainFns, timeouts, orphaned>>
  OBVIOUS
<1>2. thread' \in {"alive", "dead", "shutdown"}
  BY DEF MainType
<1>3. /\ LoopStep => phaser' \in {phaser, Register(phaser), ArriveAndDeregister(phaser)}
      /\ Shutdown => phaser' = Ended
  OBVIOUS
<1>4. IsPhaser(phaser')
  BY <1>3, NewAndEnded, RegisterExpects, ArriveExpects DEF MainType
<1>5. stray' \in BOOLEAN
  <2>1. \/ stray' = stray
        \/ \E t \in Tasks : stray' = (stray \/ (BeingCanceled(t) /\ ~canceled[t]))
        \/ \E t : stray' = (stray \/ ~Waiting(t))
    OBVIOUS
  <2> QED
    BY <2>1 DEF MainType
<1> QED
  BY <1>1, <1>2, <1>3, <1>4, <1>5 DEF MainType

LEMMA TypeNext == MainType /\ [Next]_vars => MainType'
<1> SUFFICES ASSUME MainType, [Next]_vars PROVE MainType'
  OBVIOUS
<1>1. CASE UNCHANGED vars
  BY <1>1 DEF vars, history, MainType
<1> QED
  BY <1>1, MainStepType, LoopStepType DEF Next, TimerThread, LoopStep

LEMMA MainTypeInit == Init => MainType
<1> SUFFICES ASSUME Init PROVE MainType
  OBVIOUS
<1>1. NoMain \in MainRecord
  BY DEF NoMain, MainRecord, MainAt
<1>2. /\ phaser = NewPhaser /\ thread = "alive" /\ main = NoMain /\ mainFns = {}
      /\ timeouts = 0 /\ stray = FALSE /\ orphaned = FALSE
  BY DEF Init
<1> QED
  BY <1>1, <1>2, NewAndEnded DEF MainType

\* Every variable keeps its type, however functions, cancels, flushes, mains and
\* a shutdown interleave; no more parties are expected than are registered.
THEOREM TypeCorrect == Spec => []TypeOK
<1>1. TypeInv /\ MainType => TypeOK
  <2> SUFFICES ASSUME TypeInv, MainType PROVE TypeOK
    OBVIOUS
  <2>1. \A f \in Flushes :
          request[f] \in [at : RequestAt, cancel : IntervalOf(f) \cup {NoTimer},
                          flushed : Nat, overwritten : BOOLEAN]
    BY DEF TypeInv, Request
  <2> QED
    BY <2>1 DEF TypeInv, MainType, TypeOK, IsPhaser, MainRecord
<1> QED
  BY <1>1, OnceInit, MainTypeInit, OnceNext, TypeNext, PTL DEF Spec

-----------------------------------------------------------------------------
(* The timer thread survives *)

\* Only a phaser nobody has registered with yet would refuse an arrival: as long
\* as it is new, no function can run, or main gave up the one before for it.
PhaserInv ==
  /\ BadArrival(phaser) /\ Pending # {} => orphaned
  /\ thread = "dead" => orphaned

LEMMA PhaserInit == Init => PhaserInv
<1>1. Init => Pending = {}
  BY StatesDiffer DEF Init, Pending
<1> QED
  BY <1>1 DEF Init, PhaserInv

\* A step that registers, and any other that adds no function that can run.
LEMMA Registers ==
  ASSUME MainType, PhaserInv, phaser' = Register(phaser), UNCHANGED <<thread, orphaned>>
  PROVE  PhaserInv'
BY RegisterExpects DEF PhaserInv, MainType

LEMMA PhaserKept ==
  ASSUME PhaserInv, BadArrival(phaser') => BadArrival(phaser), Pending' \subseteq Pending,
         orphaned => orphaned', thread' = "dead" => thread = "dead" \/ orphaned'
  PROVE  PhaserInv'
BY DEF PhaserInv

\* The functions that can run do not increase.
LEMMA PendingKept ==
  ASSUME \A u \in Tasks : /\ timer'[u] = "set" => timer[u] = "set"
                          /\ timer'[u] \in Stages => timer[u] \in Stages \/ u \in Pending
                          /\ timer[u] = "set" /\ canceled[u] => canceled'[u]
  PROVE  Pending' \subseteq Pending
BY DEF Pending

LEMMA LoopPhaser ==
  ASSUME TypeInv, MainType, PhaserInv, LoopStep
  PROVE  PhaserInv'
<1> USE DEF HandleTimer, TimeoutIsUnassigned, IntervalIsUnassigned, HandlerThrows,
            ClearTimeout, ClearIntervalAndFlush, history
<1>1. /\ orphaned' = orphaned
      /\ phaser' \in {phaser, ArriveAndDeregister(phaser)} =>
           (BadArrival(phaser') => BadArrival(phaser))
  BY LoopStepType, ArriveExpects DEF MainType
<1>2. CASE \E t \in Timers : SetTimeout(t)
  BY <1>2, Registers DEF SetTimeout, Schedules
<1>3. ASSUME NEW f \in Flushes,
             RequestTimeout(f) \/ RequestInterval(f) \/ \E u \in IntervalOf(f) : LoopSchedules(f, u)
      PROVE  PhaserInv'
  BY <1>3, Registers DEF RequestTimeout, RequestInterval, LoopSchedules, Schedules
<1>4. ASSUME NEW f \in Flushes, AssignTimeout(f) \/ AssignCancel(f) \/ AssignInterval(f)
      PROVE  PhaserInv'
  <2>1. UNCHANGED <<timer, canceled, phaser, thread, orphaned>>
    BY <1>4 DEF AssignTimeout, AssignCancel, AssignInterval
  <2> QED
    BY <2>1 DEF PhaserInv, Pending
<1>5. ASSUME NEW c \in Clears, (\E t \in Timers : CancelArrives(c, t)) \/ CancelSets(c)
      PROVE  PhaserInv'
  <2>1. /\ UNCHANGED <<timer, thread>> /\ phaser' \in {phaser, ArriveAndDeregister(phaser)}
        /\ canceled' = canceled \/ canceled' = [canceled EXCEPT ![clear[c].task] = TRUE]
    BY <1>5 DEF CancelArrives, CancelSets, CountsOff, OnTaskFinished
  <2>2. \A u \in Tasks : canceled[u] => canceled'[u]
    BY <2>1 DEF TypeInv
  <2> QED
    BY <1>1, <2>1, <2>2, PendingKept, PhaserKept
<1>6. ASSUME NEW t \in Tasks, Fire(t) PROVE PhaserInv'
  <2>1. /\ timer[t] = "set" /\ UNCHANGED <<canceled, phaser, thread>>
        /\ timer' = [timer EXCEPT ![t] = IF canceled[t] THEN "done" ELSE FirstStage(t)]
    BY <1>6 DEF Fire
  <2>2. Pending' \subseteq Pending
    <3>1. canceled[t] \/ t \in Pending
      BY <2>1 DEF Pending
    <3> QED
      BY <2>1, <3>1, StatesDiffer, FirstStages, PendingKept DEF TypeInv
  <2> QED
    BY <1>1, <2>1, <2>2, PhaserKept
<1>7. ASSUME NEW t \in Tasks, Finished(t) PROVE PhaserInv'
  <2>1. /\ timer[t] \in Stages /\ timer' = [timer EXCEPT ![t] = "done"] /\ canceled' = canceled
        /\ phaser' = ArriveAndDeregister(phaser)
    BY <1>7 DEF Finished, Stages, OnTaskFinished
  <2>2. BadArrival(phaser) => orphaned
    BY <2>1 DEF PhaserInv, Pending
  <2>3. thread' = "dead" => thread = "dead" \/ orphaned'
    BY <1>1, <1>7, <2>2 DEF Finished
  <2>4. Pending' \subseteq Pending
    BY <2>1, StatesDiffer, PendingKept DEF TypeInv
  <2> QED
    BY <1>1, <2>1, <2>3, <2>4, PhaserKept
<1>8. ASSUME NEW f \in Flushes, NEW t \in TasksOf(f), HandleTimer(f, t)
      PROVE  PhaserInv'
  <2>1. /\ timer[t] \in Stages /\ thread' = thread /\ t \in Tasks
        /\ \E next \in {"clearing", "ending"} : timer' = [timer EXCEPT ![t] = next]
        /\ phaser' \in {phaser, ArriveAndDeregister(phaser)}
    BY <1>8, TasksAreApart DEF Stages, Cancels, CountsOff, OnTaskFinished
  <2>2. \A u \in Tasks : canceled[u] => canceled'[u]
    BY <1>8 DEF Cancels, TypeInv
  <2>3. \A u \in Tasks : /\ timer'[u] = "set" => timer[u] = "set"
                         /\ timer'[u] \in Stages => timer[u] \in Stages
    BY <2>1 DEF TypeInv
  <2> QED
    BY <1>1, <2>1, <2>2, <2>3, PendingKept, PhaserKept
<1> QED
  BY <1>2, <1>3, <1>4, <1>5, <1>6, <1>7, <1>8 DEF LoopStep, RequestStep, FlushStep

\* main replaces a phaser that is over: what can still run then is orphaned.
LEMMA MainPhaser ==
  ASSUME MainType, PhaserInv, MainStep \/ MainTimesOut \/ Shutdown
  PROVE  PhaserInv'
<1>1. CASE MainReplaces
  <2>1. /\ UNCHANGED <<timer, canceled, thread>>
        /\ phaser' = IF phaser.terminated THEN NewPhaser ELSE phaser
        /\ orphaned' = (orphaned \/ (phaser.terminated /\ Pending # {}))
    BY <1>1 DEF MainReplaces
  <2>2. Pending' = Pending
    BY <2>1 DEF Pending
  <2> QED
    BY <2>1, <2>2 DEF PhaserInv
<1>2. CASE MainRegisters \/ \E t \in Timers : MainSchedules(t)
  BY <1>2, Registers DEF MainRegisters, MainSchedules, Schedules, history
<1>3. CASE MainArrives \/ MainReturns \/ MainAdvances \/ MainTimesOut
  <2>1. /\ phaser' \in {phaser, Arrive(phaser), ArriveAndDeregister(phaser)}
        /\ UNCHANGED <<timer, canceled, thread, orphaned>>
    BY <1>3 DEF MainArrives, MainReturns, OnTaskFinished, MainAdvances, MainTimesOut, history
  <2>2. Pending' = Pending
    BY <2>1 DEF Pending
  <2> QED
    BY <2>1, <2>2, ArriveExpects, PhaserKept DEF MainType
<1>4. CASE Shutdown
  BY <1>4, NewAndEnded DEF Shutdown, PhaserInv, history
<1> QED
  BY <1>1, <1>2, <1>3, <1>4 DEF MainStep

LEMMA PhaserNext ==
  ASSUME TypeInv, MainType, PhaserInv, [Next]_vars
  PROVE  PhaserInv'
<1>1. CASE UNCHANGED vars
  BY <1>1 DEF vars, history, PhaserInv, Pending
<1> QED
  BY <1>1, LoopPhaser, MainPhaser DEF Next, TimerThread, LoopStep

\* No exception of the phaser ends the timer thread (what onTaskFinished throws
\* leaves the run method), however often and however late functions are canceled
\* and flushes count off the function they run in: only when main gave up a
\* phaser for a new one while functions that can run were registered on it.
THEOREM TimerSurvives == Spec => []TimerThreadSurvives
<1>1. Init => TypeInv /\ OnceInv /\ MainType /\ PhaserInv
  BY OnceInit, MainTypeInit, PhaserInit
<1>2. TypeInv /\ OnceInv /\ MainType /\ PhaserInv /\ [Next]_vars
        => (TypeInv /\ OnceInv /\ MainType /\ PhaserInv)'
  BY OnceNext, TypeNext, PhaserNext
<1>3. PhaserInv => TimerThreadSurvives
  BY DEF PhaserInv, TimerThreadSurvives
<1> QED
  BY <1>1, <1>2, <1>3, PTL DEF Spec

-----------------------------------------------------------------------------
(* What an arrival counts *)

LEMMA RegisterCounts ==
  ASSUME NEW p, IsPhaser(p), ~p.terminated
  PROVE  /\ Register(p).parties = p.parties + 1
         /\ Register(p).unarrived = p.unarrived + 1
         /\ Register(p).phase = p.phase
         /\ ~Register(p).terminated
<1>1. p = [parties |-> p.parties, unarrived |-> p.unarrived, phase |-> p.phase,
           terminated |-> p.terminated]
  BY DEF IsPhaser, Phaser
<1>2. Register(p) = [parties |-> p.parties + 1, unarrived |-> p.unarrived + 1,
                     phase |-> p.phase, terminated |-> p.terminated]
  BY <1>1 DEF Register
<1> QED
  BY <1>2

\* p comes to its next phase, or its end, when the last party has arrived.
Passes(p, q) ==
  IF p.unarrived > 1
  THEN q.unarrived = p.unarrived - 1 /\ q.phase = p.phase /\ ~q.terminated
  ELSE /\ p.unarrived = 1 /\ q.unarrived = q.parties
       /\ ~q.terminated => q.phase = p.phase + 1
       /\ q.terminated <=> q.parties = 0

\* A phase that has nobody to wait for is over.
LEMMA AdvanceCounts ==
  ASSUME NEW p, IsPhaser(p), ~p.terminated
  PROVE  /\ p.unarrived > 0 => Advance(p) = p
         /\ p.unarrived = 0 => /\ Advance(p).parties = p.parties
                               /\ Advance(p).unarrived = p.parties
                               /\ p.parties # 0 => Advance(p).phase = p.phase + 1
                               /\ Advance(p).terminated <=> p.parties = 0
<1>1. CASE p.unarrived > 0
  <2>1. p.unarrived # 0
    BY <1>1
  <2> QED
    BY <1>1, <2>1 DEF Advance
<1>2. CASE p.unarrived = 0
  <2>1. ~(p.unarrived > 0)
    BY <1>2
  <2>2. CASE p.parties = 0
    <3>1. Advance(p) = [parties |-> 0, unarrived |-> 0, phase |-> 0, terminated |-> TRUE]
      BY <2>1, <2>2 DEF Advance, Ended
    <3> QED
      BY <1>2, <2>1, <2>2, <3>1
  <2>3. CASE p.parties # 0
    <3>1. p = [parties |-> p.parties, unarrived |-> p.unarrived, phase |-> p.phase,
               terminated |-> p.terminated]
      BY DEF IsPhaser, Phaser
    <3>2. Advance(p) = [parties |-> p.parties, unarrived |-> p.parties, phase |-> p.phase + 1,
                        terminated |-> p.terminated]
      BY <2>1, <2>3, <3>1 DEF Advance
    <3>3. /\ Advance(p).parties = p.parties /\ Advance(p).unarrived = p.parties
          /\ Advance(p).phase = p.phase + 1 /\ Advance(p).terminated = p.terminated
      BY <3>2
    <3> QED
      BY <1>2, <2>1, <2>3, <3>3
  <2> QED
    BY <2>2, <2>3
<1>3. p.unarrived \in Nat
  BY DEF IsPhaser, Phaser
<1> QED
  BY <1>1, <1>2, <1>3

\* One arrival brings p there; one that deregisters takes its party along.
LEMMA ArriveCounts ==
  ASSUME NEW p, IsPhaser(p), ~p.terminated, ~BadArrival(p)
  PROVE  /\ Passes(p, Arrive(p)) /\ Arrive(p).parties = p.parties
         /\ Passes(p, ArriveAndDeregister(p))
         /\ ArriveAndDeregister(p).parties = p.parties - 1
<1> DEFINE a == [p EXCEPT !.unarrived = @ - 1]
           d == [p EXCEPT !.parties = @ - 1, !.unarrived = @ - 1]
<1>1. /\ p \in Phaser /\ p.parties \in Nat /\ p.unarrived \in Nat /\ p.unarrived # 0
      /\ p.unarrived <= p.parties /\ p.phase \in Nat
  BY DEF IsPhaser, Phaser, BadArrival
<1>2. p.parties - 1 \in Nat /\ p.unarrived - 1 \in Nat
  BY <1>1
<1>3. /\ a \in Phaser /\ a.parties = p.parties /\ a.unarrived = p.unarrived - 1
      /\ a.phase = p.phase /\ ~a.terminated
  BY <1>1, <1>2 DEF Phaser
<1>4. /\ d \in Phaser /\ d.parties = p.parties - 1 /\ d.unarrived = p.unarrived - 1
      /\ d.phase = p.phase /\ ~d.terminated
  <2> DEFINE m == [p EXCEPT !.parties = p.parties - 1]
  <2>1. m \in Phaser /\ m.parties = p.parties - 1 /\ m.phase = p.phase /\ ~m.terminated
    BY <1>1, <1>2 DEF Phaser
  <2>2. d = [m EXCEPT !.unarrived = p.unarrived - 1]
    OBVIOUS
  <2> HIDE DEF m, d
  <2> QED
    BY <1>2, <2>1, <2>2 DEF Phaser
<1>5. Arrive(p) = Advance(a) /\ ArriveAndDeregister(p) = Advance(d)
  BY DEF Arrive, ArriveAndDeregister
<1> HIDE DEF a, d
<1>6. IsPhaser(a) /\ IsPhaser(d)
  BY <1>1, <1>3, <1>4 DEF IsPhaser
<1>7. CASE p.unarrived > 1
  <2>1. Advance(a) = a /\ Advance(d) = d
    BY <1>1, <1>3, <1>4, <1>6, <1>7, AdvanceCounts
  <2> QED
    BY <1>3, <1>4, <1>5, <1>7, <2>1 DEF Passes
<1>8. CASE ~(p.unarrived > 1)
  <2>1. p.unarrived = 1
    BY <1>1, <1>8
  <2>2. a.unarrived = 0 /\ d.unarrived = 0
    BY <1>3, <1>4, <2>1
  <2> QED
    BY <1>3, <1>4, <1>5, <1>6, <1>8, <2>1, <2>2, AdvanceCounts DEF Passes
<1> QED
  BY <1>7, <1>8

-----------------------------------------------------------------------------
(* What is set, canceled and counted off *)

\* What is not set yet is neither canceled nor about to be; nobody has the
\* cancel function of a task of main; and a flush cancels its interval only when
\* it can be reached.
Fresh ==
  /\ \A t \in Timers : timer[t] = "unset" => ~canceled[t]
  /\ \A c \in Clears : clear[c].at = "arrived" =>
       clear[c].task \in Timers \ mainFns /\ timer[clear[c].task] # "unset"
  /\ \A f \in Flushes : request[f].at = "idle" => ~canceled[TimeoutOf(f)]
  /\ \A f \in Flushes : request[f].at # "complete" => \A u \in IntervalOf(f) : ~canceled[u]

\* The steps of the timer thread for scripts and main, and of the flushes.
ThreadStep == \E t \in Tasks : Fire(t) \/ Finished(t)
PromiseStep == \E f \in Flushes : RequestTimeout(f) \/ RequestStep(f) \/ FlushStep(f)

LEMMA FreshInit == Init => Fresh
<1> SUFFICES ASSUME Init PROVE Fresh
  OBVIOUS
<1>1. /\ \A t \in Tasks : timer[t] = "unset" /\ ~canceled[t]
      /\ \A c \in Clears : clear[c].at = "idle"
  BY DEF Init
<1>2. /\ \A t \in Timers : t \in Tasks
      /\ \A f \in Flushes : TimeoutOf(f) \in Tasks /\ \A u \in IntervalOf(f) : u \in Tasks
  BY TasksAreApart DEF Tasks
<1> QED
  BY <1>1, <1>2 DEF Fresh

\* A step that unsets no script's function and cancels none that is not set, and
\* touches no flush but one that is under way.
LEMMA FreshKept ==
  ASSUME Fresh,
         \A t \in Timers : /\ timer'[t] = "unset" => timer[t] = "unset"
                           /\ canceled'[t] => canceled[t] \/ timer[t] # "unset",
         clear' = clear, mainFns' = mainFns,
         \A f \in Flushes : request'[f].at = "idle" =>
           request[f].at = "idle" /\ (canceled'[TimeoutOf(f)] => canceled[TimeoutOf(f)]),
         \A f \in Flushes : request'[f].at # "complete" =>
           request[f].at # "complete" /\ \A u \in IntervalOf(f) : canceled'[u] => canceled[u]
  PROVE  Fresh'
<1>1. \A c \in Clears : clear'[c].at = "arrived" =>
        clear'[c].task \in Timers \ mainFns' /\ timer'[clear'[c].task] # "unset"
  BY DEF Fresh
<1> QED
  BY <1>1 DEF Fresh

\* What the scripts and main set and cancel.
LEMMA ScriptFresh ==
  ASSUME TypeInv, Fresh, ScriptStep
  PROVE  Fresh'
<1>1. /\ \A t \in Timers : t \in Tasks
      /\ \A f \in Flushes : /\ TimeoutOf(f) \in Tasks /\ TimeoutOf(f) \notin Timers
                            /\ \A u \in IntervalOf(f) : u \in Tasks /\ u \notin Timers
  BY TasksAreApart DEF Tasks
<1>2. ASSUME NEW t \in Timers, SetTimeout(t) \/ MainSchedules(t)
      PROVE  Fresh'
  <2>1. /\ timer' = [timer EXCEPT ![t] = NextState] /\ timer[t] = "unset"
        /\ UNCHANGED <<canceled, request, clear>>
        /\ NextState # "unset" /\ mainFns' \subseteq mainFns \cup {t}
    BY <1>2 DEF SetTimeout, MainSchedules, Schedules, NextState
  <2>2. \A u \in Tasks : timer'[u] = IF u = t THEN NextState ELSE timer[u]
    BY <1>1, <2>1 DEF TypeInv
  <2>3. \A c \in Clears : clear'[c].at = "arrived" =>
          clear'[c].task \in Timers \ mainFns' /\ timer'[clear'[c].task] # "unset"
    BY <1>1, <2>1, <2>2 DEF Fresh
  <2>4. \A u \in Timers : timer'[u] = "unset" => ~canceled'[u]
    BY <1>1, <2>1, <2>2 DEF Fresh
  <2> QED
    BY <2>1, <2>3, <2>4 DEF Fresh
<1>3. ASSUME NEW c \in Clears, NEW t \in Timers, CancelArrives(c, t)
      PROVE  Fresh'
  <2>1. /\ UNCHANGED <<timer, canceled, request, mainFns>>
        /\ t \in Timers \ mainFns /\ timer[t] # "unset"
        /\ \/ clear' = [clear EXCEPT ![c] = [at |-> "arrived", task |-> t]]
           \/ clear' = [clear EXCEPT ![c] = [@ EXCEPT !.at = "over"]]
    BY <1>3 DEF CancelArrives
  <2>2. \A d \in Clears : clear'[d].at = "arrived" =>
          clear'[d].task = t \/ (clear[d].at = "arrived" /\ clear'[d] = clear[d])
    BY <2>1 DEF TypeInv
  <2>3. \A d \in Clears : clear'[d].at = "arrived" =>
          clear'[d].task \in Timers \ mainFns' /\ timer'[clear'[d].task] # "unset"
    BY <2>1, <2>2 DEF Fresh
  <2> QED
    BY <2>1, <2>3 DEF Fresh
<1>4. ASSUME NEW c \in Clears, CancelSets(c)
      PROVE  Fresh'
  <2> DEFINE t == clear[c].task
  <2>1. /\ UNCHANGED <<timer, request, mainFns>> /\ clear[c].at = "arrived"
        /\ clear' = [clear EXCEPT ![c] = [at |-> "over", task |-> NoTimer]]
        /\ canceled' = [canceled EXCEPT ![t] = TRUE]
    BY <1>4 DEF CancelSets
  <2>2. t \in Timers /\ timer[t] # "unset"
    BY <2>1 DEF Fresh
  <2>3. \A u \in Tasks : u # t => canceled'[u] = canceled[u]
    BY <2>1 DEF TypeInv
  <2>4. \A d \in Clears : clear'[d].at = "arrived" => clear[d].at = "arrived" /\ clear'[d] = clear[d]
    BY <2>1 DEF TypeInv
  <2> HIDE DEF t
  <2> QED
    BY <1>1, <2>1, <2>2, <2>3, <2>4 DEF Fresh
<1> QED
  BY <1>2, <1>3, <1>4 DEF ScriptStep

LEMMA ThreadFresh ==
  ASSUME TypeInv, Fresh, ThreadStep
  PROVE  Fresh'
<1>1. PICK t \in Tasks : Fire(t) \/ Finished(t)
  BY DEF ThreadStep
<1>2. /\ UNCHANGED <<canceled, request, clear, mainFns>>
      /\ \E next \in TimerState \ {"unset"} : timer' = [timer EXCEPT ![t] = next]
  <2>1. {"done"} \cup Stages \subseteq TimerState \ {"unset"}
    BY StatesDiffer
  <2> QED
    BY <1>1, <2>1, FirstStages DEF Fire, Finished
<1>3. \A u \in Timers : timer'[u] = "unset" => timer[u] = "unset"
  BY <1>2 DEF TypeInv, Tasks
<1> QED
  BY <1>2, <1>3, FreshKept

\* A flush that is under way was asked for.
LEMMA FlushUnderWay ==
  ASSUME OnceInv, NEW f \in Flushes, NEW t \in TasksOf(f), timer[t] \in Stages
  PROVE  request[f].at # "idle"
<1>1. t = TimeoutOf(f) \/ t \in IntervalOf(f)
  BY TasksAreApart
<1> QED
  BY <1>1, StatesDiffer DEF OnceInv, FlushInv, IntervalInv, Started

\* What a flush does to its own tasks, and to no other.
LEMMA PromiseFresh ==
  ASSUME TypeInv, OnceInv, Fresh, PromiseStep
  PROVE  Fresh'
<1>1. PICK f \in Flushes : RequestTimeout(f) \/ RequestStep(f) \/ FlushStep(f)
  BY DEF PromiseStep
<1>2. /\ \A t \in Timers : t \notin TasksOf(f) /\ t \in Tasks
      /\ \A g \in Flushes : g # f => \A u \in TasksOf(g) : u \notin TasksOf(f) /\ u \in Tasks
      /\ \A g \in Flushes : TimeoutOf(g) \in TasksOf(g) /\ IntervalOf(g) \subseteq TasksOf(g)
      /\ \A u \in TasksOf(f) : u \in Tasks
      /\ TimeoutOf(f) \notin IntervalOf(f)
  BY TasksAreApart DEF Tasks
<1>3. CASE RequestTimeout(f) \/ RequestStep(f)
  <2>1. /\ RequestMoves(f) /\ UNCHANGED <<canceled, clear, mainFns>>
        /\ request[f].at # "complete"
    BY <1>3, RequestMoved DEF RequestTimeout, RequestStep, AssignTimeout, RequestInterval,
       AssignCancel, AssignInterval, RequestGoes
  <2>2. PICK x \in {TimeoutOf(f), FirstOf(f)} :
          timer' = timer \/ timer' = [timer EXCEPT ![x] = NextState]
    BY <1>3 DEF RequestTimeout, RequestStep, AssignTimeout, RequestInterval, AssignCancel,
       AssignInterval, Schedules
  <2>3. x \in TasksOf(f)
    BY <1>2, FirstIsFirst
  <2>4. \A t \in Timers : timer'[t] = timer[t]
    BY <1>2, <2>2, <2>3 DEF TypeInv
  <2> QED
    BY <2>1, <2>4, FreshKept DEF RequestMoves
<1>4. ASSUME NEW u \in IntervalOf(f), LoopSchedules(f, u)
      PROVE  Fresh'
  <2> DEFINE v == OtherOf(f, u)
  <2>1. /\ v \in IntervalOf(f) /\ UNCHANGED <<clear, mainFns>> /\ timer[u] \in Stages
        /\ \/ timer' = [timer EXCEPT ![u] = "ending"]
           \/ timer' = [timer EXCEPT ![v] = "set", ![u] = "handling"]
        /\ canceled' = canceled \/ canceled' = [canceled EXCEPT ![v] = FALSE]
        /\ request' = request \/ request' = [request EXCEPT ![f].cancel = v]
    BY <1>4, OtherIsOther DEF LoopSchedules, Stages
  <2> HIDE DEF v
  <2>2. /\ \A t \in Timers : timer'[t] = timer[t]
        /\ \A w \in Tasks : canceled'[w] => canceled[w]
        /\ \A g \in Flushes : request'[g].at = request[g].at
    BY <1>2, <2>1 DEF TypeInv, Request
  <2>3. \A g \in Flushes : TimeoutOf(g) \in Tasks /\ \A w \in IntervalOf(g) : w \in Tasks
    BY TasksAreApart
  <2> QED
    BY <1>2, <2>1, <2>2, <2>3, FreshKept
<1>5. ASSUME NEW t \in TasksOf(f), HandleTimer(f, t)
      PROVE  Fresh'
  <2> USE DEF HandleTimer, TimeoutIsUnassigned, IntervalIsUnassigned, HandlerThrows,
              ClearTimeout, ClearIntervalAndFlush, Cancels
  <2>1. /\ UNCHANGED <<clear, mainFns>> /\ timer[t] \in Stages
        /\ \E next \in Stages : timer' = [timer EXCEPT ![t] = next]
        /\ request' = request \/ request' = [request EXCEPT ![f].flushed = @ + 1]
        /\ \/ canceled' = canceled
           \/ canceled' = [canceled EXCEPT ![TimeoutOf(f)] = TRUE]
           \/ /\ request[f].at = "complete"
              /\ canceled' = [canceled EXCEPT ![request[f].cancel] = TRUE]
    BY <1>5 DEF Stages
  <2>2. \A g \in Flushes : request'[g].at = request[g].at
    BY <2>1 DEF TypeInv, Request
  <2>3. request[f].at # "idle"
    BY <2>1, FlushUnderWay
  <2>4. request[f].at = "complete" => request[f].cancel \in TasksOf(f)
    BY <1>2 DEF TypeInv, OnceInv, FlushInv, IntervalInv
  <2> HIDE DEF HandleTimer, Cancels
  <2>5. /\ \A x \in Timers : timer'[x] = timer[x] /\ canceled'[x] = canceled[x]
        /\ \A g \in Flushes : g # f => \A u \in TasksOf(g) : canceled'[u] = canceled[u]
        /\ request[f].at # "complete" => \A u \in IntervalOf(f) : canceled'[u] = canceled[u]
    BY <1>2, <2>1, <2>4 DEF TypeInv
  <2>6. \A g \in Flushes : request'[g].at = "idle" =>
          request[g].at = "idle" /\ (canceled'[TimeoutOf(g)] => canceled[TimeoutOf(g)])
    BY <1>2, <2>2, <2>3, <2>5
  <2>7. \A g \in Flushes : request'[g].at # "complete" =>
          request[g].at # "complete" /\ \A u \in IntervalOf(g) : canceled'[u] => canceled[u]
    BY <1>2, <2>2, <2>5
  <2> QED
    BY <2>1, <2>5, <2>6, <2>7, FreshKept
<1> QED
  BY <1>1, <1>3, <1>4, <1>5 DEF FlushStep

LEMMA FreshNext ==
  ASSUME TypeInv, OnceInv, Fresh, [Next]_vars
  PROVE  Fresh'
<1>1. CASE \/ MainReplaces \/ MainRegisters \/ MainArrives \/ MainAdvances \/ MainReturns
           \/ MainTimesOut \/ Shutdown \/ UNCHANGED vars
  <2>1. UNCHANGED <<timer, canceled, request, clear, mainFns>>
    BY <1>1 DEF MainReplaces, MainRegisters, MainArrives, MainAdvances, MainReturns,
                MainTimesOut, Shutdown, vars
  <2> QED
    BY <2>1 DEF Fresh
<1>2. \/ ScriptStep \/ ThreadStep \/ PromiseStep
      \/ MainReplaces \/ MainRegisters \/ MainArrives \/ MainAdvances \/ MainReturns
      \/ MainTimesOut \/ Shutdown \/ UNCHANGED vars
  BY DEF Next, MainStep, TimerThread, ScriptStep, ThreadStep, PromiseStep
<1> QED
  BY <1>1, <1>2, ScriptFresh, ThreadFresh, PromiseFresh

-----------------------------------------------------------------------------
(* What the steps count *)

\* A function more is still to run, and a party more is expected.
PartyMore ==
  \E t \in Tasks \ Outstanding : Outstanding' = Outstanding \cup {t} /\ phaser' = Register(phaser)

\* One function less, with its party.
PartyLess ==
  \E t \in Outstanding :
    Outstanding' = Outstanding \ {t} /\ phaser' = ArriveAndDeregister(phaser)

\* A function is counted off that is not waiting, or one that was counted off
\* runs after all: no party goes with a function, but maybe one without.
PartyAstray ==
  /\ stray' /\ phaser' \in {phaser, ArriveAndDeregister(phaser)}
  /\ \/ Outstanding' = Outstanding
     \/ \E t \in Tasks \ Outstanding : Outstanding' = Outstanding \cup {t}

PartiesSame == UNCHANGED <<Outstanding, phaser>>

PartyStep == PartyMore \/ PartyLess \/ PartyAstray \/ PartiesSame

\* No task of a flush has its cancel function called by a script.
LEMMA ScriptsCancel ==
  ASSUME Fresh
  PROVE  /\ \A t : BeingCanceled(t) => t \in Timers \ mainFns /\ timer[t] # "unset"
         /\ \A f \in Flushes : \A t \in TasksOf(f) : ~BeingCanceled(t)
BY TasksAreApart DEF Fresh, BeingCanceled

LEMMA AliveSchedules ==
  ASSUME TypeInv, thread = "alive", NEW t \in Tasks, Schedules(t), ~canceled[t],
         ~BeingCanceled(t), UNCHANGED <<canceled, clear>>
  PROVE  PartyMore
<1>1. /\ timer[t] = "unset" /\ timer' = [timer EXCEPT ![t] = "set"]
      /\ phaser' = Register(phaser)
  BY DEF Schedules, NextState, Refused
<1>2. t \notin Outstanding
  BY <1>1, StatesDiffer DEF Outstanding, Pending
<1>3. \A u : BeingCanceled(u)' <=> BeingCanceled(u)
  BY DEF BeingCanceled
<1>4. Outstanding' = Outstanding \cup {t}
  BY <1>1, <1>3, StatesDiffer DEF Outstanding, Pending, TypeInv
<1> QED
  BY <1>1, <1>2, <1>4 DEF PartyMore

\* What the steps of the scripts count, while the loop works.
LEMMA ScriptCounts ==
  ASSUME TypeInv, Fresh, thread = "alive", ScriptStep
  PROVE  PartyStep
<1>1. ASSUME NEW t \in Timers, SetTimeout(t) \/ MainSchedules(t)
      PROVE  PartyMore
  <2>1. t \in Tasks /\ Schedules(t) /\ UNCHANGED <<canceled, clear>> /\ ~canceled[t]
    BY <1>1 DEF SetTimeout, MainSchedules, Schedules, Tasks, Fresh
  <2>2. ~BeingCanceled(t)
    BY <2>1, ScriptsCancel DEF Schedules
  <2> QED
    BY <2>1, <2>2, AliveSchedules
<1>2. ASSUME NEW c \in Clears, NEW t \in Timers, CancelArrives(c, t)
      PROVE  PartyStep
  <2>1. /\ clear[c].at = "idle" /\ UNCHANGED <<timer, canceled>> /\ t \in Tasks
        /\ clear' = [clear EXCEPT ![c] = IF BadArrival(phaser) THEN [@ EXCEPT !.at = "over"]
                                         ELSE [at |-> "arrived", task |-> t]]
        /\ phaser' = ArriveAndDeregister(phaser) /\ stray' = (stray \/ ~Waiting(t))
    BY <1>2 DEF CancelArrives, CountsOff, OnTaskFinished, Tasks
  <2>2. CASE BadArrival(phaser)
    <3>1. phaser' = phaser /\ \A d \in Clears : clear'[d].at = "arrived" <=> clear[d].at = "arrived"
      BY <2>1, <2>2 DEF ArriveAndDeregister, TypeInv
    <3>2. \A d \in Clears : clear'[d].at = "arrived" => clear'[d] = clear[d]
      BY <2>1, <2>2 DEF TypeInv
    <3>3. \A u : BeingCanceled(u)' <=> BeingCanceled(u)
      BY <3>1, <3>2 DEF BeingCanceled
    <3>4. Outstanding' = Outstanding
      BY <2>1, <3>3 DEF Outstanding, Pending
    <3> QED
      BY <3>1, <3>4 DEF PartyStep, PartiesSame
  <2>3. CASE ~BadArrival(phaser)
    <3>1. /\ clear' = [clear EXCEPT ![c] = [at |-> "arrived", task |-> t]]
          /\ clear'[c] = [at |-> "arrived", task |-> t]
          /\ \A d \in Clears : d # c => clear'[d] = clear[d]
      BY <2>1, <2>3 DEF TypeInv
    <3>2. \A u : BeingCanceled(u)' <=> (BeingCanceled(u) \/ u = t)
      BY <2>1, <3>1 DEF BeingCanceled
    <3>3. CASE Waiting(t)
      <4>1. t \in Outstanding
        BY <2>1, <3>3 DEF Waiting, Outstanding, Pending
      <4>2. Outstanding' = Outstanding \ {t}
        BY <2>1, <3>2, <3>3, StatesDiffer DEF Waiting, Outstanding, Pending
      <4> QED
        BY <2>1, <4>1, <4>2 DEF PartyStep, PartyLess
    <3>4. CASE ~Waiting(t)
      <4>1. Outstanding' = Outstanding
        BY <2>1, <3>2, <3>4, StatesDiffer DEF Waiting, Outstanding, Pending
      <4> QED
        BY <2>1, <3>4, <4>1 DEF PartyStep, PartyAstray
    <3> QED
      BY <3>3, <3>4
  <2> QED
    BY <2>2, <2>3
<1>3. ASSUME NEW c \in Clears, CancelSets(c)
      PROVE  PartiesSame
  <2> DEFINE t == clear[c].task
  <2>1. /\ UNCHANGED <<timer, phaser>> /\ clear[c].at = "arrived"
        /\ clear' = [clear EXCEPT ![c] = [at |-> "over", task |-> NoTimer]]
        /\ canceled' = [canceled EXCEPT ![t] = TRUE]
    BY <1>3 DEF CancelSets
  <2>2. t \in Tasks /\ BeingCanceled(t)
    BY <2>1 DEF Fresh, Tasks, BeingCanceled
  <2>3. /\ clear'[c].at = "over" /\ \A d \in Clears : d # c => clear'[d] = clear[d]
        /\ canceled'[t] /\ \A u \in Tasks : u # t => canceled'[u] = canceled[u]
    BY <2>1, <2>2 DEF TypeInv
  <2> HIDE DEF t
  <2>4. \A u : /\ BeingCanceled(u)' => BeingCanceled(u)
               /\ u # t /\ BeingCanceled(u) => BeingCanceled(u)'
    BY <2>1, <2>3 DEF BeingCanceled, t
  <2>5. Outstanding' = Outstanding
    BY <2>1, <2>2, <2>3, <2>4, StatesDiffer DEF Outstanding, Pending
  <2> QED
    BY <2>1, <2>5 DEF PartiesSame
<1> QED
  BY <1>1, <1>2, <1>3 DEF ScriptStep, PartyStep

LEMMA ThreadCounts ==
  ASSUME TypeInv, ThreadStep
  PROVE  PartyStep
<1>1. ASSUME NEW t \in Tasks, Fire(t)
      PROVE  PartyAstray \/ PartiesSame
  <2>1. /\ timer[t] = "set" /\ UNCHANGED <<canceled, phaser, clear>>
        /\ timer' = [timer EXCEPT ![t] = IF canceled[t] THEN "done" ELSE FirstStage(t)]
        /\ stray' = (stray \/ (BeingCanceled(t) /\ ~canceled[t]))
    BY <1>1 DEF Fire
  <2>2. \A u : BeingCanceled(u)' <=> BeingCanceled(u)
    BY <2>1 DEF BeingCanceled
  <2>3. CASE BeingCanceled(t) /\ ~canceled[t]
    <3>1. Outstanding' = Outstanding \cup {t} /\ t \notin Outstanding
      BY <2>1, <2>2, <2>3, FirstStages, StatesDiffer DEF Outstanding, Pending, TypeInv
    <3> QED
      BY <2>1, <2>3, <3>1 DEF PartyAstray
  <2>4. CASE ~(BeingCanceled(t) /\ ~canceled[t])
    <3>1. Outstanding' = Outstanding
      BY <2>1, <2>2, <2>4, FirstStages, StatesDiffer DEF Outstanding, Pending, TypeInv
    <3> QED
      BY <2>1, <3>1 DEF PartiesSame
  <2> QED
    BY <2>3, <2>4
<1>2. ASSUME NEW t \in Tasks, Finished(t)
      PROVE  PartyLess
  <2>1. /\ timer[t] \in Stages /\ UNCHANGED <<canceled, clear>>
        /\ timer' = [timer EXCEPT ![t] = "done"]
        /\ phaser' = ArriveAndDeregister(phaser)
    BY <1>2 DEF Finished, Stages, OnTaskFinished
  <2>2. \A u : BeingCanceled(u)' <=> BeingCanceled(u)
    BY <2>1 DEF BeingCanceled
  <2>3. t \in Outstanding
    BY <2>1, StatesDiffer DEF Outstanding, Pending
  <2>4. Outstanding' = Outstanding \ {t}
    BY <2>1, <2>2, StatesDiffer DEF Outstanding, Pending, TypeInv
  <2> QED
    BY <2>1, <2>3, <2>4 DEF PartyLess
<1> QED
  BY <1>1, <1>2 DEF ThreadStep, PartyStep

LEMMA PromiseCounts ==
  ASSUME TypeInv, OnceInv, Fresh, thread = "alive", PromiseStep
  PROVE  PartyStep
<1>1. PICK f \in Flushes : RequestTimeout(f) \/ RequestStep(f) \/ FlushStep(f)
  BY DEF PromiseStep
<1>2. /\ TasksOf(f) \subseteq Tasks /\ TimeoutOf(f) \in TasksOf(f) /\ TimeoutOf(f) \in Tasks
      /\ IntervalOf(f) \subseteq TasksOf(f) /\ FirstOf(f) \in IntervalOf(f)
      /\ clear' = clear
      /\ \A t : BeingCanceled(t)' <=> BeingCanceled(t)
      /\ \A t \in TasksOf(f) : ~BeingCanceled(t)
  <2>1. clear' = clear
    BY <1>1 DEF RequestTimeout, RequestStep, AssignTimeout, RequestInterval, AssignCancel,
       AssignInterval, FlushStep, LoopSchedules, HandleTimer, HandlerThrows, TimeoutIsUnassigned,
       IntervalIsUnassigned, ClearTimeout, ClearIntervalAndFlush
  <2> QED
    BY <2>1, TasksAreApart, FirstIsFirst, ScriptsCancel DEF BeingCanceled
<1>3. CASE RequestTimeout(f)
  <2>1. Schedules(TimeoutOf(f)) /\ canceled' = canceled /\ ~canceled[TimeoutOf(f)]
    BY <1>3 DEF RequestTimeout, RequestGoes, Fresh
  <2> QED
    BY <1>2, <2>1, AliveSchedules DEF PartyStep
<1>4. CASE RequestInterval(f)
  <2>1. Schedules(FirstOf(f)) /\ canceled' = canceled /\ ~canceled[FirstOf(f)]
    BY <1>2, <1>4 DEF RequestInterval, RequestGoes, Fresh
  <2> QED
    BY <1>2, <2>1, AliveSchedules DEF PartyStep
<1>5. CASE AssignTimeout(f) \/ AssignCancel(f) \/ AssignInterval(f)
  <2>1. UNCHANGED <<timer, canceled, phaser>>
    BY <1>5 DEF AssignTimeout, AssignCancel, AssignInterval
  <2> QED
    BY <1>2, <2>1 DEF PartyStep, PartiesSame, Outstanding, Pending
<1>6. ASSUME NEW u \in IntervalOf(f), LoopSchedules(f, u)
      PROVE  PartyMore
  <2> DEFINE v == OtherOf(f, u)
  <2>1. /\ v \in IntervalOf(f) /\ v # u /\ u \in Tasks /\ v \in Tasks
        /\ timer[u] = "looping" /\ phaser' = Register(phaser)
        /\ timer' = [timer EXCEPT ![v] = "set", ![u] = "handling"]
        /\ canceled' = [canceled EXCEPT ![v] = FALSE]
    BY <1>2, <1>6, OtherIsOther DEF LoopSchedules, Refused
  <2> HIDE DEF v
  <2>2. timer[v] \notin Stages /\ timer[v] # "set"
    BY <2>1 DEF OnceInv, OneRuns, FlushInv, IntervalInv, Stages
  <2>3. v \notin Outstanding /\ u \in Outstanding
    BY <2>1, <2>2 DEF Outstanding, Pending, Stages
  <2>4. /\ \A w \in Tasks : timer'[w] = IF w = u THEN "handling" ELSE IF w = v THEN "set" ELSE timer[w]
        /\ \A w \in Tasks : canceled'[w] = IF w = v THEN FALSE ELSE canceled[w]
    BY <2>1 DEF TypeInv
  <2>5. \A w \in Tasks : w \in Outstanding' <=> w \in Outstanding \/ w = v
    BY <1>2, <2>1, <2>3, <2>4 DEF Outstanding, Pending, Stages
  <2>6. Outstanding' = Outstanding \cup {v}
    BY <2>1, <2>5 DEF Outstanding, Pending
  <2> QED
    BY <2>1, <2>3, <2>6 DEF PartyMore
<1>7. ASSUME NEW t \in TasksOf(f), HandleTimer(f, t)
      PROVE  PartyStep
  <2> USE DEF HandleTimer, TimeoutIsUnassigned, IntervalIsUnassigned, HandlerThrows,
              ClearTimeout, ClearIntervalAndFlush
  <2>1. /\ timer[t] \in Stages /\ t \in Tasks
        /\ \E next \in Stages : timer' = [timer EXCEPT ![t] = next]
    BY <1>2, <1>7 DEF Stages
  <2>2. \A u \in Tasks : /\ timer'[u] \in Stages <=> timer[u] \in Stages
                         /\ timer'[u] = "set" <=> timer[u] = "set"
    BY <2>1, StatesDiffer DEF TypeInv
  <2>3. CASE canceled' = canceled /\ phaser' = phaser
    <3>1. Outstanding' = Outstanding
      BY <1>2, <2>2, <2>3 DEF Outstanding, Pending
    <3> QED
      BY <2>3, <3>1 DEF PartyStep, PartiesSame
  <2>4. ASSUME NEW x \in TasksOf(f), Cancels(x)
        PROVE  PartyStep
    <3>1. /\ phaser' = ArriveAndDeregister(phaser) /\ stray' = (stray \/ ~Waiting(x))
          /\ canceled' = [canceled EXCEPT ![x] = TRUE] /\ x \in Tasks /\ ~BeingCanceled(x)
      BY <1>2, <2>4 DEF Cancels, CountsOff, OnTaskFinished
    <3>2. \A u \in Tasks : canceled'[u] = (u = x \/ canceled[u])
      BY <3>1 DEF TypeInv
    <3>3. CASE Waiting(x)
      <4>1. x \in Outstanding
        BY <3>1, <3>3 DEF Waiting, Outstanding, Pending
      <4>2. Outstanding' = Outstanding \ {x}
        BY <1>2, <2>2, <3>2, <3>3, StatesDiffer DEF Waiting, Outstanding, Pending
      <4> QED
        BY <3>1, <4>1, <4>2 DEF PartyStep, PartyLess
    <3>4. CASE ~Waiting(x)
      <4>1. Outstanding' = Outstanding
        BY <1>2, <2>2, <3>1, <3>2, <3>4 DEF Waiting, Outstanding, Pending
      <4> QED
        BY <3>1, <3>4, <4>1 DEF PartyStep, PartyAstray
    <3> QED
      BY <3>3, <3>4
  <2>5. request[f].at = "complete" => request[f].cancel \in TasksOf(f)
    BY <1>2 DEF TypeInv, OnceInv, FlushInv, IntervalInv
  <2>6. \/ canceled' = canceled /\ phaser' = phaser
        \/ Cancels(TimeoutOf(f))
        \/ request[f].at = "complete" /\ Cancels(request[f].cancel)
    BY <1>7
  <2> HIDE DEF HandleTimer
  <2> QED
    BY <1>2, <2>3, <2>4, <2>5, <2>6
<1> QED
  BY <1>1, <1>3, <1>4, <1>5, <1>6, <1>7 DEF RequestStep, FlushStep, PartyStep

-----------------------------------------------------------------------------
(* The parties of the phaser are outstanding *)

\* The main has a party of its own.
MainParty == IF MainIsRegistered THEN 1 ELSE 0

\* While the loop works: a phaser that would refuse an arrival is new, and one
\* that is over came to its end with its last party, so no main timed out on it,
\* unless a party went missing.
CountInv ==
  thread = "alive" =>
    /\ IsFiniteSet(Outstanding)
    /\ BadArrival(phaser) => phaser.parties = 0
    /\ PartiesAreOutstanding
    /\ NoPartyMissing /\ phaser.terminated => timeouts = 0

LEMMA CountInit == Init => CountInv
<1> SUFFICES ASSUME Init PROVE CountInv
  OBVIOUS
<1>1. Outstanding = {}
  BY StatesDiffer DEF Init, Outstanding, Pending
<1>2. phaser = NewPhaser /\ timeouts = 0 /\ ~MainIsRegistered
  BY DEF Init, NoMain, MainIsRegistered
<1>3. PartiesAreOutstanding
  BY <1>1, <1>2, NewAndEnded, FS_EmptySet DEF PartiesAreOutstanding
<1> QED
  BY <1>1, <1>2, <1>3, NewAndEnded, FS_EmptySet DEF CountInv

\* A step that counts a function up or off keeps the sum, whatever phase the
\* phaser comes to; one that goes astray makes no party more than it.
LEMMA CountKept ==
  ASSUME IsPhaser(phaser), CountInv, thread = "alive", thread' = "alive", timeouts \in Nat,
         PartyStep, BadArrival(phaser) /\ Outstanding # {} => orphaned,
         MainParty' = MainParty, timeouts' = timeouts, NoPartyMissing' => NoPartyMissing
  PROVE  CountInv'
<1>1. /\ IsFiniteSet(Outstanding) /\ Cardinality(Outstanding) \in Nat
      /\ BadArrival(phaser) => phaser.parties = 0
      /\ NoPartyMissing /\ phaser.terminated => timeouts = 0
      /\ phaser.parties \in Nat
  BY FS_CardinalityType DEF CountInv, IsPhaser, Phaser
<1>2. /\ timeouts' = timeouts /\ MainParty' = MainParty /\ MainParty \in {0, 1}
  BY DEF MainParty
<1> DEFINE n == Cardinality(Outstanding)
<1>3. ~phaser.terminated => /\ phaser.parties <= n + timeouts + MainParty
                            /\ NoPartyMissing => phaser.parties = n + timeouts + MainParty
  BY DEF CountInv, PartiesAreOutstanding, MainParty
<1>4. /\ IsFiniteSet(Outstanding') /\ n' \in Nat
      /\ PartyMore => n' = n + 1
      /\ PartyLess => n' = n - 1
      /\ PartyAstray => n' >= n
      /\ PartiesSame => n' = n
  <2>1. ASSUME PartyMore PROVE IsFiniteSet(Outstanding') /\ n' = n + 1
    BY <1>1, <2>1, FS_AddElement DEF PartyMore
  <2>2. ASSUME PartyLess PROVE IsFiniteSet(Outstanding') /\ n' = n - 1
    BY <1>1, <2>2, FS_RemoveElement DEF PartyLess
  <2>3. ASSUME PartyAstray PROVE IsFiniteSet(Outstanding') /\ n' >= n
    BY <1>1, <2>3, FS_AddElement DEF PartyAstray
  <2>4. ASSUME PartiesSame PROVE IsFiniteSet(Outstanding') /\ n' = n
    BY <1>1, <2>4 DEF PartiesSame
  <2>5. IsFiniteSet(Outstanding')
    BY <2>1, <2>2, <2>3, <2>4 DEF PartyStep
  <2>6. n' \in Nat
    BY <2>5, FS_CardinalityType
  <2> QED
    BY <2>1, <2>2, <2>3, <2>4, <2>5, <2>6
<1> HIDE DEF n
<1>5. phaser' \in {phaser, Register(phaser), ArriveAndDeregister(phaser)}
  BY DEF PartyStep, PartyMore, PartyLess, PartyAstray, PartiesSame
<1>6. BadArrival(phaser') => phaser'.parties = 0
  <2>1. BadArrival(phaser') => BadArrival(phaser)
    BY <1>5, RegisterExpects, ArriveExpects
  <2>2. BadArrival(phaser) => phaser' \in {phaser, Register(phaser)}
    BY <1>5 DEF ArriveAndDeregister
  <2>3. ~BadArrival(Register(phaser))
    BY RegisterExpects
  <2> QED
    BY <1>1, <2>1, <2>2, <2>3
<1>7. CASE phaser.terminated
  <2>1. phaser' = phaser
    BY <1>5, <1>7 DEF Register, ArriveAndDeregister
  <2> QED
    BY <1>1, <1>2, <1>4, <1>6, <1>7, <2>1 DEF CountInv, PartiesAreOutstanding
<1>8. CASE ~phaser.terminated
  <2>1. CASE PartyMore
    <3>1. phaser'.parties = phaser.parties + 1 /\ ~phaser'.terminated /\ n' = n + 1
      BY <1>4, <1>8, <2>1, RegisterCounts DEF PartyMore
    <3>2. /\ phaser'.parties <= n' + timeouts + MainParty
          /\ NoPartyMissing => phaser'.parties = n' + timeouts + MainParty
      BY <1>1, <1>2, <1>3, <1>8, <3>1 DEF n
    <3> QED
      BY <1>2, <1>4, <1>6, <3>1, <3>2 DEF CountInv, PartiesAreOutstanding, MainParty, n
  <2>2. CASE PartyLess /\ ~BadArrival(phaser)
    <3>1. /\ phaser'.parties = phaser.parties - 1 /\ n' = n - 1
          /\ phaser'.terminated => phaser'.parties = 0
      BY <1>4, <1>8, <2>2, ArriveCounts DEF PartyLess, Passes
    <3>2. /\ phaser'.parties <= n' + timeouts + MainParty
          /\ NoPartyMissing => phaser'.parties = n' + timeouts + MainParty
      BY <1>1, <1>2, <1>3, <1>8, <3>1 DEF n
    <3>3. NoPartyMissing /\ phaser'.terminated => timeouts = 0
      BY <1>2, <1>4, <3>1, <3>2
    <3> QED
      BY <1>2, <1>4, <1>6, <3>2, <3>3 DEF CountInv, PartiesAreOutstanding, MainParty, n
  <2>3. CASE (PartyLess /\ BadArrival(phaser)) \/ PartyAstray
    <3>1. ~NoPartyMissing'
      <4>1. CASE PartyLess /\ BadArrival(phaser)
        <5>1. orphaned
          BY <4>1 DEF PartyLess
        <5> QED
          BY <5>1 DEF NoPartyMissing
      <4> QED
        BY <2>3, <4>1 DEF PartyAstray, NoPartyMissing
    <3>2. phaser'.parties <= n' + timeouts + MainParty
      <4>1. CASE BadArrival(phaser)
        <5>1. phaser'.parties = 0
          BY <1>1, <2>3, <4>1 DEF PartyLess, PartyAstray, ArriveAndDeregister
        <5>2. n' + timeouts + MainParty \in Nat
          BY <1>2, <1>4 DEF n
        <5> QED
          BY <5>1, <5>2
      <4>2. CASE ~BadArrival(phaser)
        <5>1. phaser'.parties \in {phaser.parties, phaser.parties - 1} /\ n' >= n
          <6>1. PartyAstray /\ n' >= n
            BY <1>4, <2>3, <4>2
          <6>2. ArriveAndDeregister(phaser).parties = phaser.parties - 1
            BY <1>8, <4>2, ArriveCounts
          <6> QED
            BY <6>1, <6>2 DEF PartyAstray
        <5>2. n \in Nat /\ n' \in Nat
          BY <1>1, <1>4 DEF n
        <5> QED
          BY <1>1, <1>2, <1>3, <1>8, <5>1, <5>2
      <4> QED
        BY <4>1, <4>2
    <3> QED
      BY <1>2, <1>4, <1>6, <3>1, <3>2 DEF CountInv, PartiesAreOutstanding, MainParty, n
  <2>4. CASE PartiesSame
    <3>1. phaser' = phaser /\ n' = n
      BY <1>4, <2>4 DEF PartiesSame
    <3>2. /\ phaser'.parties <= n' + timeouts + MainParty
          /\ NoPartyMissing => phaser'.parties = n' + timeouts + MainParty
      BY <1>3, <1>8, <3>1
    <3> QED
      BY <1>2, <1>4, <1>6, <1>8, <3>1, <3>2 DEF CountInv, PartiesAreOutstanding, MainParty, n
  <2> QED
    BY <2>1, <2>2, <2>3, <2>4 DEF PartyStep
<1> QED
  BY <1>7, <1>8

\* A main registers once and leaves once, or leaves its party behind.
LEMMA MainCounts ==
  ASSUME TypeInv, Fresh, PhaserInv, MainType, CountInv, MainStep \/ MainTimesOut
  PROVE  CountInv'
<1> SUFFICES ASSUME thread' = "alive" PROVE CountInv'
  BY DEF CountInv
<1> DEFINE n == Cardinality(Outstanding)
<1>1. /\ thread = "alive" /\ IsPhaser(phaser) /\ timeouts \in Nat
      /\ canceled' = canceled /\ clear' = clear /\ stray' = stray
      /\ ~MainReplaces => orphaned' = orphaned
  BY DEF MainType, MainStep, MainReplaces, MainRegisters, MainSchedules, MainArrives,
         MainAdvances, MainReturns, MainTimesOut, history
<1>2. /\ IsFiniteSet(Outstanding) /\ n \in Nat
      /\ BadArrival(phaser) => phaser.parties = 0
      /\ NoPartyMissing /\ phaser.terminated => timeouts = 0
      /\ phaser.parties \in Nat /\ phaser.unarrived \in Nat
      /\ BadArrival(phaser) /\ Outstanding # {} => orphaned
  BY <1>1, FS_CardinalityType DEF CountInv, IsPhaser, Phaser, PhaserInv, Outstanding
<1>3. ~phaser.terminated => /\ phaser.parties <= n + timeouts + MainParty
                            /\ NoPartyMissing => phaser.parties = n + timeouts + MainParty
  BY <1>1 DEF CountInv, PartiesAreOutstanding, MainParty
<1>4. main' \in MainRecord /\ main \in MainRecord
  BY MainStepType DEF MainType
\* A main that does not set its function.
<1>5. ASSUME timer' = timer, timeouts' \in Nat,
             BadArrival(phaser') => phaser'.parties = 0,
             ~phaser'.terminated =>
               /\ phaser'.parties <= n + timeouts' + MainParty'
               /\ NoPartyMissing' => phaser'.parties = n + timeouts' + MainParty',
             NoPartyMissing' /\ phaser'.terminated => timeouts' = 0
      PROVE  CountInv'
  <2>1. Outstanding' = Outstanding
    BY <1>1, <1>5 DEF Outstanding, Pending, BeingCanceled
  <2> QED
    BY <1>2, <1>5, <2>1 DEF CountInv, PartiesAreOutstanding, MainParty
<1>6. ~MainReplaces => NoPartyMissing' = NoPartyMissing
  BY <1>1 DEF NoPartyMissing
<1> HIDE DEF n
<1>7. CASE MainReplaces
  <2>1. /\ UNCHANGED <<timer, timeouts>>
        /\ main.at = "idle" /\ main'.at = "replaced"
        /\ phaser' = IF phaser.terminated THEN NewPhaser ELSE phaser
        /\ orphaned' = (orphaned \/ (phaser.terminated /\ Pending # {}))
    BY <1>4, <1>7 DEF MainReplaces, MainGoes, MainRecord
  <2>2. MainParty = 0 /\ MainParty' = 0
    BY <2>1 DEF MainParty, MainIsRegistered
  <2>3. NoPartyMissing' => NoPartyMissing /\ (phaser.terminated => n = 0)
    <3>1. Pending = {} => n = 0
      BY FS_EmptySet DEF Outstanding, n
    <3> QED
      BY <1>1, <2>1, <3>1 DEF NoPartyMissing
  <2>4. CASE phaser.terminated
    <3>1. phaser'.parties = 0 /\ ~phaser'.terminated
      BY <2>1, <2>4, NewAndEnded
    <3>2. phaser'.parties <= n + timeouts' + MainParty'
      BY <1>1, <1>2, <2>1, <2>2, <3>1 DEF n
    <3>3. NoPartyMissing' => phaser'.parties = n + timeouts' + MainParty'
      BY <1>2, <2>1, <2>2, <2>3, <2>4, <3>1
    <3> QED
      BY <1>1, <1>5, <2>1, <3>1, <3>2, <3>3
  <2>5. CASE ~phaser.terminated
    <3>1. phaser' = phaser
      BY <2>1, <2>5
    <3> QED
      BY <1>1, <1>2, <1>3, <1>5, <2>1, <2>2, <2>3, <2>5, <3>1
  <2> QED
    BY <2>4, <2>5
<1>8. CASE MainRegisters
  <2>1. /\ UNCHANGED <<timer, timeouts>> /\ phaser' = Register(phaser)
        /\ main.at = "replaced" /\ main'.at = "registered"
    BY <1>4, <1>8 DEF MainRegisters, MainRecord, history
  <2>2. MainParty = 0 /\ MainParty' = 1 /\ ~MainReplaces
    BY <2>1 DEF MainParty, MainIsRegistered, MainReplaces, MainGoes
  <2>3. CASE phaser.terminated
    <3>1. phaser' = phaser
      BY <2>1, <2>3 DEF Register
    <3> QED
      BY <1>1, <1>2, <1>5, <1>6, <2>1, <2>2, <2>3, <3>1
  <2>4. CASE ~phaser.terminated
    <3>1. phaser'.parties = phaser.parties + 1 /\ ~phaser'.terminated /\ ~BadArrival(phaser')
      BY <1>1, <2>1, <2>4, RegisterCounts, RegisterExpects
    <3>2. /\ phaser'.parties <= n + timeouts' + MainParty'
          /\ NoPartyMissing => phaser'.parties = n + timeouts' + MainParty'
      BY <1>1, <1>2, <1>3, <2>1, <2>2, <2>4, <3>1 DEF n
    <3> QED
      BY <1>1, <1>5, <1>6, <2>1, <2>2, <3>1, <3>2
  <2> QED
    BY <2>3, <2>4
<1>9. ASSUME NEW t \in Timers, MainSchedules(t)
      PROVE  CountInv'
  <2>1. /\ UNCHANGED <<timeouts, stray, orphaned>>
        /\ main.at = "registered" /\ main'.at = "scheduled"
    BY <1>1, <1>4, <1>9 DEF MainSchedules, Refused, MainRecord, history
  <2>2. MainParty' = MainParty /\ (NoPartyMissing' => NoPartyMissing)
    BY <2>1 DEF MainParty, MainIsRegistered, NoPartyMissing
  <2>3. PartyStep
    BY <1>1, <1>9, ScriptCounts DEF ScriptStep
  <2> QED
    BY <1>1, <1>2, <2>1, <2>2, <2>3, CountKept
<1>10. CASE MainArrives
  <2>1. /\ UNCHANGED <<timer, timeouts>> /\ phaser' = Arrive(phaser)
        /\ main.at = "scheduled"
        /\ main'.at = IF BadArrival(phaser) THEN "idle" ELSE "waiting"
    <3>1. CASE BadArrival(phaser)
      BY <1>10, <3>1 DEF MainArrives, MainIsOver, NoMain, history
    <3>2. CASE ~BadArrival(phaser)
      BY <1>4, <1>10, <3>2 DEF MainArrives, MainRecord, history
    <3> QED
      BY <3>1, <3>2
  <2>2. MainParty = 1 /\ (BadArrival(phaser) => MainParty' = 0)
        /\ (~BadArrival(phaser) => MainParty' = 1) /\ ~MainReplaces
    BY <2>1 DEF MainParty, MainIsRegistered, MainReplaces, MainGoes
  <2>3. CASE phaser.terminated
    <3>1. phaser' = phaser
      BY <2>1, <2>3 DEF Arrive
    <3> QED
      BY <1>1, <1>2, <1>5, <1>6, <2>1, <2>2, <2>3, <3>1
  <2>4. CASE ~phaser.terminated /\ BadArrival(phaser)
    <3>1. phaser' = phaser /\ phaser.parties = 0
      BY <1>2, <2>1, <2>4 DEF Arrive
    <3>2. ~NoPartyMissing
      BY <1>1, <1>2, <1>3, <2>2, <2>4, <3>1
    <3>3. phaser'.parties <= n + timeouts' + MainParty'
      BY <1>1, <1>2, <2>1, <2>2, <2>4, <3>1 DEF n
    <3> QED
      BY <1>1, <1>5, <1>6, <2>1, <2>2, <2>4, <3>1, <3>2, <3>3
  <2>5. CASE ~phaser.terminated /\ ~BadArrival(phaser)
    <3>1. /\ phaser'.parties = phaser.parties /\ (phaser'.terminated => phaser.parties = 0)
          /\ ~BadArrival(phaser')
      BY <1>1, <2>1, <2>5, ArriveCounts, ArriveExpects DEF Passes
    <3>2. NoPartyMissing => phaser.parties # 0
      BY <1>1, <1>2, <1>3, <2>2, <2>5
    <3> QED
      BY <1>1, <1>3, <1>5, <1>6, <2>1, <2>2, <2>5, <3>1, <3>2
  <2> QED
    BY <2>3, <2>4, <2>5
<1>11. CASE MainAdvances
  <2>1. /\ UNCHANGED <<timer, timeouts, phaser, stray, orphaned>>
        /\ main.at = "waiting" /\ main'.at = "advanced"
    BY <1>4, <1>11 DEF MainAdvances, MainGoes, MainRecord, history
  <2>2. MainParty' = MainParty /\ ~MainReplaces
    BY <2>1 DEF MainParty, MainIsRegistered, MainReplaces, MainGoes
  <2> QED
    BY <1>1, <1>2, <1>3, <1>5, <1>6, <2>1, <2>2
<1>12. CASE MainTimesOut
  <2>1. /\ UNCHANGED <<timer, phaser>> /\ timeouts' = timeouts + 1
        /\ main.at = "waiting" /\ main'.at = "idle" /\ ~phaser.terminated
    BY <1>4, <1>12 DEF MainTimesOut, PhaseIsOver, MainIsOver, NoMain
  <2>2. MainParty = 1 /\ MainParty' = 0 /\ ~MainReplaces
    BY <2>1 DEF MainParty, MainIsRegistered, MainReplaces, MainGoes
  <2>3. n + timeouts' + MainParty' = n + timeouts + MainParty
    BY <1>1, <1>2, <2>1, <2>2 DEF n
  <2> QED
    BY <1>1, <1>2, <1>3, <1>5, <1>6, <2>1, <2>2, <2>3
<1>13. CASE MainReturns
  <2>1. /\ UNCHANGED <<timer, timeouts>> /\ phaser' = ArriveAndDeregister(phaser)
        /\ main.at = "advanced" /\ main'.at = "idle"
    BY <1>4, <1>13 DEF MainReturns, OnTaskFinished, MainIsOver, NoMain, history
  <2>2. MainParty = 1 /\ MainParty' = 0 /\ ~MainReplaces
    BY <2>1 DEF MainParty, MainIsRegistered, MainReplaces, MainGoes
  <2>3. CASE phaser.terminated
    <3>1. phaser' = phaser
      BY <2>1, <2>3 DEF ArriveAndDeregister
    <3> QED
      BY <1>1, <1>2, <1>5, <1>6, <2>1, <2>2, <2>3, <3>1
  <2>4. CASE ~phaser.terminated /\ BadArrival(phaser)
    <3>1. phaser' = phaser /\ phaser.parties = 0
      BY <1>2, <2>1, <2>4 DEF ArriveAndDeregister
    <3>2. ~NoPartyMissing
      BY <1>1, <1>2, <1>3, <2>2, <2>4, <3>1
    <3>3. phaser'.parties <= n + timeouts' + MainParty'
      BY <1>1, <1>2, <2>1, <2>2, <3>1 DEF n
    <3> QED
      BY <1>1, <1>5, <1>6, <2>1, <2>2, <2>4, <3>1, <3>2, <3>3
  <2>5. CASE ~phaser.terminated /\ ~BadArrival(phaser)
    <3>1. /\ phaser'.parties = phaser.parties - 1 /\ (phaser'.terminated => phaser'.parties = 0)
          /\ ~BadArrival(phaser')
      BY <1>1, <2>1, <2>5, ArriveCounts, ArriveExpects DEF Passes
    <3>2. /\ phaser'.parties <= n + timeouts' + MainParty'
          /\ NoPartyMissing => phaser'.parties = n + timeouts' + MainParty'
      BY <1>1, <1>2, <1>3, <2>1, <2>2, <2>5, <3>1 DEF n
    <3>3. NoPartyMissing /\ phaser'.terminated => timeouts' = 0
      BY <1>1, <1>2, <2>1, <2>2, <3>1, <3>2 DEF n
    <3> QED
      BY <1>1, <1>5, <1>6, <2>1, <2>2, <3>1, <3>2, <3>3
  <2> QED
    BY <2>3, <2>4, <2>5
<1> QED
  BY <1>7, <1>8, <1>9, <1>10, <1>11, <1>12, <1>13 DEF MainStep

\* A timer thread that is gone is not replaced, and a party that is missing
\* stays missing.
LEMMA LoopQuiet ==
  ASSUME MainType, LoopStep
  PROVE  /\ UNCHANGED <<main, mainFns, timeouts>>
         /\ thread' = "alive" => thread = "alive"
         /\ NoPartyMissing' => NoPartyMissing
<1> USE DEF SetTimeout, Schedules, CancelArrives, CancelSets, CountsOff, Cancels, Fire, Finished,
            RequestTimeout, RequestStep, AssignTimeout, RequestInterval, AssignCancel,
            AssignInterval, FlushStep, LoopSchedules, HandleTimer, HandlerThrows,
            TimeoutIsUnassigned, IntervalIsUnassigned, ClearTimeout, ClearIntervalAndFlush,
            LoopStep, history
<1>1. thread' = "alive" => thread = "alive"
  OBVIOUS
<1>2. stray => stray'
  OBVIOUS
<1> QED
  BY <1>1, <1>2, LoopStepType DEF NoPartyMissing

\* What every step of the loop counts.
LEMMA LoopCounts ==
  ASSUME TypeInv, OnceInv, Fresh, thread = "alive", LoopStep
  PROVE  PartyStep
<1>1. ScriptStep \/ ThreadStep \/ PromiseStep
  BY DEF LoopStep, ScriptStep, ThreadStep, PromiseStep
<1> QED
  BY <1>1, ScriptCounts, ThreadCounts, PromiseCounts

LEMMA CountNext ==
  ASSUME TypeInv, OnceInv, PhaserInv, Fresh, MainType, CountInv, [Next]_vars
  PROVE  CountInv'
<1>1. CASE MainStep \/ MainTimesOut
  BY <1>1, MainCounts
<1>2. CASE LoopStep
  <2> SUFFICES ASSUME thread' = "alive" PROVE CountInv'
    BY DEF CountInv
  <2>1. thread = "alive" /\ UNCHANGED <<main, timeouts>> /\ (NoPartyMissing' => NoPartyMissing)
    BY <1>2, LoopQuiet
  <2>2. PartyStep /\ MainParty' = MainParty
    BY <1>2, <2>1, LoopCounts DEF MainParty, MainIsRegistered
  <2>3. BadArrival(phaser) /\ Outstanding # {} => orphaned
    BY DEF PhaserInv, Outstanding
  <2> QED
    BY <2>1, <2>2, <2>3, CountKept DEF MainType
<1>3. CASE Shutdown
  BY <1>3 DEF Shutdown, CountInv
<1>4. CASE UNCHANGED vars
  BY <1>4 DEF vars, history, CountInv, PartiesAreOutstanding, Outstanding, Pending,
              BeingCanceled, NoPartyMissing, MainIsRegistered
<1> QED
  BY <1>1, <1>2, <1>3, <1>4 DEF Next, TimerThread, LoopStep

\* Everything that is known of the loop before main is asked what it waits for.
LoopInv == TypeInv /\ OnceInv /\ PhaserInv /\ Fresh /\ MainType /\ CountInv

LEMMA LoopInit == Init => LoopInv
BY OnceInit, MainTypeInit, PhaserInit, FreshInit, CountInit DEF LoopInv

LEMMA LoopNext ==
  ASSUME LoopInv, [Next]_vars
  PROVE  LoopInv'
<1>1. TypeInv' /\ OnceInv'
  BY OnceNext DEF LoopInv
<1>2. PhaserInv'
  BY PhaserNext DEF LoopInv
<1>3. Fresh'
  BY FreshNext DEF LoopInv
<1>4. MainType'
  BY TypeNext DEF LoopInv
<1>5. CountInv'
  BY CountNext DEF LoopInv
<1> QED
  BY <1>1, <1>2, <1>3, <1>4, <1>5 DEF LoopInv

\* For any number of timeouts, cancels, mains and flushes: the parties of the
\* phaser are never more than the functions still to run, the main, and one for
\* each main that timed out, and exactly these unless a function was counted off
\* late or its phaser given up.  Functions are counted on in one place and off in
\* two (their end, their cancel function, which may be called at any time and
\* again), on a phaser that is replaced in between.
THEOREM PartiesCounted == Spec => []PartiesAreOutstanding
<1>1. Init => LoopInv
  BY LoopInit
<1>2. LoopInv /\ [Next]_vars => LoopInv'
  BY LoopNext
<1>3. LoopInv => PartiesAreOutstanding
  BY DEF LoopInv, CountInv, PartiesAreOutstanding
<1> QED
  BY <1>1, <1>2, <1>3, PTL DEF Spec

-----------------------------------------------------------------------------
(* main returns when its function has run *)

\* The loop works, and no party has gone missing.
Quiet == NoPartyMissing /\ thread = "alive"

\* The party of the main is one the phase waits for: it has not arrived, or in
\* an earlier phase.
MainIsExpected ==
  \/ main.at \in {"registered", "scheduled", "advanced"}
  \/ main.at = "waiting" /\ phaser.phase # main.phase

ExpectedParty == IF MainIsExpected THEN 1 ELSE 0

\* The function of main is set and nobody cancels it; the phase a counted main
\* has arrived in is not over before that function has run.
FnInv ==
  /\ main.at \in {"scheduled", "waiting", "advanced"} =>
       /\ main.fn \in mainFns
       /\ timer[main.fn] \in {"set", "running", "done"}
       /\ ~canceled[main.fn]
  /\ main.counted /\ main.at = "waiting" =>
       /\ main.phase <= phaser.phase
       /\ phaser.phase # main.phase => timer[main.fn] = "done"
  /\ main.counted /\ main.at = "advanced" => timer[main.fn] = "done"

\* The functions still to run, and the main, are among those the phase waits for.
\* The rest are the parties of mains that timed out.  A phaser that was over when
\* main registered is over as long as main is there, and no other.
ExpectedInv ==
  /\ MainIsRegistered => main.counted = ~phaser.terminated
  /\ ~phaser.terminated => Cardinality(Outstanding) + ExpectedParty <= phaser.unarrived

WaitInv == Quiet => FnInv /\ ExpectedInv

LEMMA WaitInit == Init => WaitInv
<1> SUFFICES ASSUME Init PROVE WaitInv
  OBVIOUS
<1>1. Outstanding = {}
  BY StatesDiffer DEF Init, Outstanding, Pending
<1>2. main.at = "idle" /\ phaser.unarrived = 0
  BY DEF Init, NewPhaser, NoMain
<1>3. ExpectedParty = 0 /\ ~MainIsRegistered
  BY <1>2 DEF ExpectedParty, MainIsExpected, MainIsRegistered
<1> QED
  BY <1>1, <1>2, <1>3, FS_EmptySet DEF WaitInv, FnInv, ExpectedInv

\* What the scripts, the flushes and the timer thread do with the function of
\* main: it runs, and is over.
LEMMA FnKept ==
  ASSUME TypeInv, OnceInv, Fresh, MainType, LoopStep,
         NEW fn \in mainFns, timer[fn] \in {"set", "running", "done"}, ~canceled[fn]
  PROVE  /\ timer'[fn] \in {"set", "running", "done"} /\ ~canceled'[fn]
         /\ timer[fn] = "done" => timer'[fn] = "done"
<1>1. fn \in Timers /\ fn \in Tasks /\ \A f \in Flushes : fn \notin TasksOf(f)
  BY TasksAreApart DEF MainType, Tasks
<1>2. ASSUME NEW t \in Timers, SetTimeout(t)
      PROVE  timer'[fn] = timer[fn] /\ canceled'[fn] = canceled[fn]
  BY <1>1, <1>2 DEF SetTimeout, Schedules, TypeInv
<1>3. ASSUME NEW c \in Clears, (\E t \in Timers : CancelArrives(c, t)) \/ CancelSets(c)
      PROVE  timer'[fn] = timer[fn] /\ canceled'[fn] = canceled[fn]
  <2>1. CASE \E t \in Timers : CancelArrives(c, t)
    BY <2>1 DEF CancelArrives
  <2>2. CASE CancelSets(c)
    <3>1. /\ timer' = timer /\ clear[c].at = "arrived"
          /\ canceled' = [canceled EXCEPT ![clear[c].task] = TRUE]
      BY <2>2 DEF CancelSets
    <3>2. clear[c].task # fn
      BY <3>1 DEF Fresh
    <3> QED
      BY <1>1, <3>1, <3>2 DEF TypeInv
  <2> QED
    BY <1>3, <2>1, <2>2
<1>4. ASSUME NEW t \in Tasks, Fire(t) \/ Finished(t)
      PROVE  /\ canceled' = canceled
             /\ t # fn => timer'[fn] = timer[fn]
             /\ t = fn => timer[fn] # "done" /\ timer'[fn] \in {"running", "done"}
  <2>1. CASE Fire(t)
    BY <1>1, <2>1, FirstStages DEF Fire, TypeInv
  <2>2. CASE Finished(t)
    BY <1>1, <2>2 DEF Finished, TypeInv
  <2> QED
    BY <1>4, <2>1, <2>2
<1>5. ASSUME NEW f \in Flushes, RequestTimeout(f) \/ RequestStep(f)
      PROVE  timer'[fn] = timer[fn] /\ canceled' = canceled
  <2>1. PICK x \in {TimeoutOf(f), FirstOf(f)} :
          timer' = timer \/ timer' = [timer EXCEPT ![x] = NextState]
    BY <1>5 DEF RequestTimeout, RequestStep, AssignTimeout, RequestInterval, AssignCancel,
       AssignInterval, Schedules
  <2>2. x # fn
    BY <1>1, TasksAreApart, FirstIsFirst
  <2> QED
    BY <1>1, <1>5, <2>1, <2>2 DEF TypeInv, RequestTimeout, RequestStep, AssignTimeout,
       RequestInterval, AssignCancel, AssignInterval
<1>6. ASSUME NEW f \in Flushes, NEW u \in IntervalOf(f), LoopSchedules(f, u)
      PROVE  timer'[fn] = timer[fn] /\ canceled'[fn] = canceled[fn]
  <2> DEFINE v == OtherOf(f, u)
  <2>1. /\ v # fn /\ u # fn
        /\ \/ timer' = [timer EXCEPT ![u] = "ending"]
           \/ timer' = [timer EXCEPT ![v] = "set", ![u] = "handling"]
        /\ canceled' = canceled \/ canceled' = [canceled EXCEPT ![v] = FALSE]
    BY <1>1, <1>6, OtherIsOther, TasksAreApart DEF LoopSchedules
  <2> HIDE DEF v
  <2> QED
    BY <1>1, <2>1 DEF TypeInv
<1>7. ASSUME NEW f \in Flushes, NEW t \in TasksOf(f), HandleTimer(f, t)
      PROVE  timer'[fn] = timer[fn] /\ canceled'[fn] = canceled[fn]
  <2> USE DEF HandleTimer, TimeoutIsUnassigned, IntervalIsUnassigned, HandlerThrows,
              ClearTimeout, ClearIntervalAndFlush, Cancels
  <2>1. /\ t # fn /\ TimeoutOf(f) # fn
        /\ request[f].at = "complete" => request[f].cancel # fn
    BY <1>1, TasksAreApart DEF TypeInv, OnceInv, FlushInv, IntervalInv
  <2>2. /\ \E next \in Stages : timer' = [timer EXCEPT ![t] = next]
        /\ \/ canceled' = canceled
           \/ canceled' = [canceled EXCEPT ![TimeoutOf(f)] = TRUE]
           \/ /\ request[f].at = "complete"
              /\ canceled' = [canceled EXCEPT ![request[f].cancel] = TRUE]
    BY <1>7 DEF Stages
  <2> QED
    BY <1>1, <2>1, <2>2 DEF TypeInv
<1> QED
  BY <1>2, <1>3, <1>4, <1>5, <1>6, <1>7 DEF LoopStep, FlushStep

\* What the loop counts is among what the phase waits for.
LEMMA LoopWaits ==
  ASSUME LoopInv, WaitInv, Quiet', LoopStep
  PROVE  FnInv' /\ ExpectedInv'
<1>1. /\ Quiet /\ FnInv /\ ExpectedInv /\ main' = main /\ mainFns' = mainFns
      /\ timeouts' = timeouts
  BY LoopQuiet DEF LoopInv, WaitInv, Quiet
<1>2. /\ TypeInv /\ MainType /\ IsPhaser(phaser) /\ timeouts \in Nat
      /\ phaser.unarrived \in Nat /\ phaser.phase \in Nat /\ main.phase \in Nat
      /\ phaser.parties \in Nat /\ main.counted \in BOOLEAN
  BY DEF LoopInv, MainType, IsPhaser, Phaser, MainRecord
<1> DEFINE n == Cardinality(Outstanding)
<1>3. /\ IsFiniteSet(Outstanding) /\ n \in Nat
      /\ ~phaser.terminated => phaser.parties = n + timeouts + MainParty
  BY <1>1, FS_CardinalityType DEF LoopInv, CountInv, Quiet, PartiesAreOutstanding, MainParty
<1>4. /\ MainParty \in {0, 1} /\ ExpectedParty \in {0, 1} /\ ExpectedParty' \in {0, 1}
      /\ ExpectedParty' <= MainParty
      /\ phaser'.phase = phaser.phase => ExpectedParty' = ExpectedParty
      /\ MainIsRegistered => MainParty = 1
      /\ MainIsRegistered' = MainIsRegistered
  BY <1>1 DEF MainParty, MainIsRegistered, ExpectedParty, MainIsExpected
<1>5. PartyMore \/ PartyLess \/ PartiesSame
  BY <1>1, LoopCounts DEF LoopInv, Quiet, PartyStep, PartyAstray, NoPartyMissing
<1>6. main.at \in {"scheduled", "waiting", "advanced"} =>
        /\ main.fn \in mainFns
        /\ timer'[main.fn] \in {"set", "running", "done"}
        /\ ~canceled'[main.fn]
        /\ timer[main.fn] = "done" => timer'[main.fn] = "done"
  BY <1>1, <1>2, FnKept DEF FnInv, LoopInv
\* A function that is not outstanding any more has run.
<1>7. main.at = "waiting" /\ Outstanding' = {} => timer'[main.fn] = "done"
  <2> SUFFICES ASSUME main.at = "waiting", Outstanding' = {}
               PROVE  timer'[main.fn] = "done"
    OBVIOUS
  <2>1. main.fn \in Tasks /\ main.fn \in mainFns'
    BY <1>1, <1>2, <1>6 DEF MainType, Tasks
  <2>2. ~BeingCanceled(main.fn)'
    <3>1. Fresh'
      BY FreshNext DEF LoopInv, LoopStep, Next, TimerThread
    <3>2. ASSUME BeingCanceled(main.fn)' PROVE FALSE
      BY <1>1, <2>1, <3>1, <3>2 DEF Fresh, BeingCanceled
    <3> QED
      BY <3>2
  <2> QED
    BY <1>1, <1>6, <2>1, <2>2 DEF Outstanding, Pending, Stages
<1> HIDE DEF n
<1>8. CASE phaser.terminated
  <2>1. phaser' = phaser
    BY <1>5, <1>8 DEF PartyMore, PartyLess, PartiesSame, Register, ArriveAndDeregister
  <2> QED
    BY <1>1, <1>4, <1>6, <1>8, <2>1 DEF FnInv, ExpectedInv
<1>9. CASE ~phaser.terminated /\ PartiesSame
  <2>1. phaser' = phaser /\ Outstanding' = Outstanding
    BY <1>9 DEF PartiesSame
  <2>2. ExpectedParty' = ExpectedParty
    BY <1>4, <2>1
  <2> QED
    BY <1>1, <1>4, <1>6, <2>1, <2>2 DEF FnInv, ExpectedInv
<1>10. CASE ~phaser.terminated /\ PartyMore
  <2>1. /\ phaser'.unarrived = phaser.unarrived + 1 /\ phaser'.phase = phaser.phase
        /\ ~phaser'.terminated
    BY <1>2, <1>10, RegisterCounts DEF PartyMore
  <2>2. Cardinality(Outstanding') = n + 1
    BY <1>3, <1>10, FS_AddElement DEF PartyMore, n
  <2>3. n + ExpectedParty <= phaser.unarrived
    BY <1>1, <1>10 DEF ExpectedInv, n
  <2>4. Cardinality(Outstanding') + ExpectedParty' <= phaser'.unarrived
    BY <1>2, <1>3, <1>4, <2>1, <2>2, <2>3 DEF n
  <2> QED
    BY <1>1, <1>4, <1>6, <1>10, <2>1, <2>4 DEF FnInv, ExpectedInv
<1>11. CASE ~phaser.terminated /\ PartyLess
  <2>1. ~BadArrival(phaser)
    BY <1>1, <1>11 DEF PartyLess, LoopInv, PhaserInv, Quiet, NoPartyMissing, Outstanding
  <2>2. Passes(phaser, phaser') /\ phaser'.parties = phaser.parties - 1
    BY <1>2, <1>11, <2>1, ArriveCounts DEF PartyLess
  <2>3. /\ IsFiniteSet(Outstanding') /\ Cardinality(Outstanding') = n - 1
        /\ Cardinality(Outstanding') \in Nat
    BY <1>3, <1>11, FS_RemoveElement, FS_CardinalityType DEF PartyLess, n
  <2>4. n + ExpectedParty <= phaser.unarrived
    BY <1>1, <1>11 DEF ExpectedInv, n
  <2>5. CASE phaser.unarrived > 1
    <3>1. /\ phaser'.unarrived = phaser.unarrived - 1 /\ phaser'.phase = phaser.phase
          /\ ~phaser'.terminated
      BY <2>2, <2>5 DEF Passes
    <3>2. Cardinality(Outstanding') + ExpectedParty' <= phaser'.unarrived
      BY <1>2, <1>3, <1>4, <2>3, <2>4, <3>1 DEF n
    <3> QED
      BY <1>1, <1>4, <1>6, <1>11, <3>1, <3>2 DEF FnInv, ExpectedInv
  <2>6. CASE ~(phaser.unarrived > 1)
    <3>1. /\ phaser.unarrived = 1 /\ phaser'.unarrived = phaser'.parties
          /\ ~phaser'.terminated => phaser'.phase = phaser.phase + 1
          /\ phaser'.terminated <=> phaser'.parties = 0
      BY <2>2, <2>6 DEF Passes
    <3>2. phaser'.parties = Cardinality(Outstanding') + timeouts + MainParty
      BY <1>2, <1>3, <1>4, <1>11, <2>2, <2>3 DEF n
    <3>3. Cardinality(Outstanding') + ExpectedParty' <= phaser'.unarrived
      BY <1>2, <1>4, <2>3, <3>1, <3>2
    <3>4. MainIsRegistered => ~phaser'.terminated /\ main.counted
      <4>1. MainIsRegistered => phaser'.parties # 0
        BY <1>2, <1>4, <2>3, <3>2
      <4> QED
        BY <1>1, <1>11, <3>1, <4>1 DEF ExpectedInv
    <3>5. main.at = "waiting" => timer'[main.fn] = "done"
      <4>1. Cardinality(Outstanding') = 0
        BY <1>3, <1>4, <2>3, <2>4, <3>1 DEF n
      <4>2. Outstanding' = {}
        BY <2>3, <4>1, FS_EmptySet
      <4> QED
        BY <1>7, <4>2
    <3>6. main.counted /\ main.at = "waiting" => main.phase <= phaser'.phase
      <4>1. main.at = "waiting" => ~phaser'.terminated
        BY <3>4 DEF MainIsRegistered
      <4> QED
        BY <1>1, <1>2, <3>1, <4>1 DEF FnInv
    <3>7. FnInv'
      BY <1>1, <1>6, <3>5, <3>6 DEF FnInv
    <3>8. ExpectedInv'
      BY <1>1, <1>2, <1>4, <3>3, <3>4 DEF ExpectedInv
    <3> QED
      BY <3>7, <3>8
  <2> QED
    BY <2>5, <2>6
<1> QED
  BY <1>5, <1>8, <1>9, <1>10, <1>11

\* The main waits for the phase its function is counted in: it arrives while it
\* is one of those expected, so that the phase is over by its own arrival only
\* if the function has run.
LEMMA MainWaits ==
  ASSUME LoopInv, WaitInv, Quiet', MainStep \/ MainTimesOut
  PROVE  FnInv' /\ ExpectedInv'
<1>1. /\ UNCHANGED <<canceled, clear, thread, stray>>
      /\ MainReplaces \/ orphaned' = orphaned
  BY DEF MainStep, MainReplaces, MainRegisters, MainSchedules, MainArrives, MainAdvances,
         MainReturns, MainTimesOut, history
<1>2. Quiet /\ FnInv /\ ExpectedInv /\ ~orphaned'
  <2>1. MainReplaces => (orphaned => orphaned')
    BY DEF MainReplaces
  <2> QED
    BY <1>1, <2>1 DEF Quiet, NoPartyMissing, WaitInv
<1>3. /\ TypeInv /\ MainType /\ IsPhaser(phaser) /\ timeouts \in Nat
      /\ phaser.unarrived \in Nat /\ phaser.phase \in Nat /\ main.phase \in Nat
      /\ phaser.parties \in Nat /\ main.counted \in BOOLEAN /\ phaser.terminated \in BOOLEAN
      /\ main \in MainRecord
  BY DEF LoopInv, MainType, MainRecord, IsPhaser, Phaser
<1> DEFINE n == Cardinality(Outstanding)
<1>4. /\ IsFiniteSet(Outstanding) /\ n \in Nat
      /\ ~phaser.terminated => /\ phaser.parties = n + timeouts + MainParty
                               /\ n + ExpectedParty <= phaser.unarrived
  BY <1>2, FS_CardinalityType DEF LoopInv, CountInv, Quiet, PartiesAreOutstanding, MainParty,
                                  ExpectedInv
<1>5. ExpectedParty \in {0, 1} /\ ExpectedParty' \in {0, 1}
  BY DEF ExpectedParty
<1>6. timer' = timer => Outstanding' = Outstanding
  BY <1>1 DEF Outstanding, Pending, BeingCanceled
\* An arrival of the main, which is among those the phase waits for.
<1>7. ASSUME main.at \in {"scheduled", "advanced"}, ~phaser.terminated
      PROVE  ExpectedParty = 1 /\ ~BadArrival(phaser) /\ n + 1 <= phaser.unarrived
  <2>1. ExpectedParty = 1
    BY <1>7 DEF ExpectedParty, MainIsExpected
  <2>2. n + 1 <= phaser.unarrived
    BY <1>4, <1>7, <2>1
  <2>3. phaser.unarrived # 0
    BY <1>3, <1>4, <2>2
  <2> QED
    BY <1>7, <2>1, <2>2, <2>3 DEF BadArrival
<1> HIDE DEF n
\* A phaser that is over counts nothing, and stays.
<1>8. ASSUME phaser.terminated, UNCHANGED <<timer, phaser>>, MainIsRegistered' => main'.counted = FALSE,
             FnInv'
      PROVE  FnInv' /\ ExpectedInv'
  BY <1>3, <1>8 DEF ExpectedInv
<1>9. CASE MainReplaces
  <2>1. /\ main.at = "idle" /\ main'.at = "replaced" /\ timer' = timer
        /\ phaser' = IF phaser.terminated THEN NewPhaser ELSE phaser
        /\ phaser.terminated => Pending = {}
    BY <1>2, <1>3, <1>9 DEF MainReplaces, MainGoes, MainRecord
  <2>2. /\ ExpectedParty' = 0 /\ ExpectedParty = 0 /\ ~MainIsRegistered'
        /\ Outstanding' = Outstanding
    BY <1>6, <2>1 DEF ExpectedParty, MainIsExpected, MainIsRegistered
  <2>3. phaser.terminated => n = 0
    BY <2>1, FS_EmptySet DEF Outstanding, n
  <2>4. NewPhaser.unarrived = 0 /\ ~NewPhaser.terminated
    BY DEF NewPhaser
  <2>5. n + ExpectedParty' <= phaser'.unarrived
    <3>1. CASE phaser.terminated
      BY <2>1, <2>2, <2>3, <2>4, <3>1
    <3>2. CASE ~phaser.terminated
      BY <1>4, <2>1, <2>2, <3>2
    <3> QED
      BY <3>1, <3>2
  <2> QED
    BY <2>1, <2>2, <2>5 DEF FnInv, ExpectedInv, n
<1>10. CASE MainRegisters
  <2>1. /\ main.at = "replaced" /\ main'.at = "registered" /\ timer' = timer
        /\ main'.counted = ~phaser.terminated /\ phaser' = Register(phaser)
    BY <1>3, <1>10 DEF MainRegisters, MainRecord
  <2>2. Outstanding' = Outstanding /\ ExpectedParty' = 1 /\ ExpectedParty = 0 /\ FnInv'
    BY <1>6, <2>1 DEF ExpectedParty, MainIsExpected, FnInv
  <2>3. CASE phaser.terminated
    BY <1>8, <2>1, <2>2, <2>3 DEF Register
  <2>4. CASE ~phaser.terminated
    <3>1. phaser'.unarrived = phaser.unarrived + 1 /\ ~phaser'.terminated
      BY <1>3, <2>1, <2>4, RegisterCounts
    <3>2. n + ExpectedParty' <= phaser'.unarrived
      BY <1>3, <1>4, <2>2, <2>4, <3>1
    <3> QED
      BY <2>1, <2>2, <2>4, <3>1, <3>2 DEF ExpectedInv, n
  <2> QED
    BY <2>3, <2>4
<1>11. ASSUME NEW t \in Timers, MainSchedules(t)
       PROVE  FnInv' /\ ExpectedInv'
  <2>1. /\ timer[t] = "unset" /\ timer' = [timer EXCEPT ![t] = "set"]
        /\ phaser' = Register(phaser) /\ t \in Tasks /\ Schedules(t)
        /\ main.at = "registered" /\ main'.at = "scheduled" /\ main'.fn = t
        /\ main'.counted = main.counted /\ mainFns' = mainFns \cup {t}
    BY <1>2, <1>3, <1>11 DEF Quiet, MainSchedules, IsNextCall, Schedules, NextState, Refused,
                             Tasks, MainRecord
  <2>2. ~canceled[t] /\ ~BeingCanceled(t)
    BY <2>1, ScriptsCancel DEF LoopInv, Fresh
  <2>3. PartyMore
    BY <1>1, <1>2, <1>3, <2>1, <2>2, AliveSchedules DEF Quiet
  <2>4. Cardinality(Outstanding') = n + 1
    BY <1>4, <2>3, FS_AddElement DEF n, PartyMore
  <2>5. /\ ExpectedParty = 1 /\ ExpectedParty' = 1
        /\ main.counted = ~phaser.terminated /\ MainIsRegistered'
    BY <1>2, <2>1 DEF ExpectedInv, ExpectedParty, MainIsExpected, MainIsRegistered
  <2>6. timer'[t] = "set" /\ ~canceled'[t] /\ t \in mainFns'
    BY <1>1, <1>3, <2>1, <2>2 DEF TypeInv
  <2>7. FnInv'
    BY <2>1, <2>6 DEF FnInv
  <2>8. CASE phaser.terminated
    <3>1. phaser' = phaser
      BY <2>1, <2>8 DEF Register
    <3> QED
      BY <2>1, <2>5, <2>7, <2>8, <3>1 DEF ExpectedInv
  <2>9. CASE ~phaser.terminated
    <3>1. phaser'.unarrived = phaser.unarrived + 1 /\ ~phaser'.terminated
      BY <1>3, <2>1, <2>9, RegisterCounts
    <3>2. Cardinality(Outstanding') + ExpectedParty' <= phaser'.unarrived
      BY <1>3, <1>4, <2>4, <2>5, <2>9, <3>1
    <3> QED
      BY <2>1, <2>5, <2>7, <2>9, <3>1, <3>2 DEF ExpectedInv
  <2> QED
    BY <2>8, <2>9
<1>12. CASE MainArrives
  <2>1. /\ main.at = "scheduled" /\ timer' = timer /\ mainFns' = mainFns
        /\ phaser' = Arrive(phaser) /\ Outstanding' = Outstanding
        /\ main.counted = ~phaser.terminated
    BY <1>2, <1>6, <1>12 DEF MainArrives, ExpectedInv, MainIsRegistered
  <2>2. ~BadArrival(phaser)
    BY <1>7, <2>1 DEF BadArrival
  <2>3. /\ main'.at = "waiting" /\ main'.fn = main.fn /\ main'.phase = phaser.phase
        /\ main'.counted = main.counted
    BY <1>3, <1>12, <2>2 DEF MainArrives, MainRecord
  <2>4. /\ main.fn \in mainFns /\ timer[main.fn] \in {"set", "running", "done"}
        /\ ~canceled[main.fn] /\ main.fn \in Tasks
    BY <1>2, <1>3, <2>1 DEF FnInv, MainType, Tasks
  <2>5. CASE phaser.terminated
    <3>1. phaser' = phaser
      BY <2>1, <2>5 DEF Arrive
    <3> QED
      BY <1>1, <2>1, <2>3, <2>4, <2>5, <3>1 DEF FnInv, ExpectedInv
  <2>6. CASE ~phaser.terminated /\ phaser.unarrived > 1
    <3>1. Passes(phaser, phaser') /\ n + 1 <= phaser.unarrived
      BY <1>3, <1>7, <2>1, <2>2, <2>6, ArriveCounts
    <3>2. phaser'.unarrived = phaser.unarrived - 1 /\ phaser'.phase = phaser.phase /\ ~phaser'.terminated
      BY <2>6, <3>1 DEF Passes
    <3>3. ExpectedParty' = 0
      BY <2>3, <3>2 DEF ExpectedParty, MainIsExpected
    <3>4. n + ExpectedParty' <= phaser'.unarrived
      BY <1>3, <1>4, <3>1, <3>2, <3>3
    <3> QED
      BY <1>1, <1>3, <2>1, <2>3, <2>4, <2>6, <3>2, <3>4 DEF FnInv, ExpectedInv, n
  <2>7. CASE ~phaser.terminated /\ ~(phaser.unarrived > 1)
    <3>1. Passes(phaser, phaser') /\ n + 1 <= phaser.unarrived /\ phaser'.parties = phaser.parties
      BY <1>3, <1>7, <2>1, <2>2, <2>7, ArriveCounts
    <3>2. /\ phaser.unarrived = 1 /\ phaser'.unarrived = phaser'.parties
          /\ ~phaser'.terminated => phaser'.phase = phaser.phase + 1
          /\ phaser'.terminated <=> phaser'.parties = 0
      BY <2>7, <3>1 DEF Passes
    <3>3. n = 0
      BY <1>4, <3>1, <3>2
    <3>4. Outstanding = {}
      BY <1>4, <3>3, FS_EmptySet DEF n
    <3>5. timer[main.fn] = "done"
      <4>1. ~BeingCanceled(main.fn)
        BY <2>4, ScriptsCancel DEF LoopInv
      <4> QED
        BY <2>4, <3>4, <4>1 DEF Outstanding, Pending, Stages
    <3>6. MainParty = 1
      BY <2>1 DEF MainParty, MainIsRegistered
    <3>7. phaser'.parties = n + timeouts + 1
      BY <1>4, <2>7, <3>1, <3>6
    <3>8. ~phaser'.terminated /\ n + ExpectedParty' <= phaser'.unarrived
      <4>1. n \in Nat /\ timeouts \in Nat
        BY <1>3, <1>4
      <4>2. n + timeouts + 1 # 0 /\ n + 0 <= n + timeouts + 1 /\ n + 1 <= n + timeouts + 1
        BY <4>1
      <4>3. phaser'.parties # 0 /\ n + ExpectedParty' <= phaser'.parties
        BY <1>5, <3>7, <4>2
      <4> QED
        BY <3>2, <4>3
    <3>9. main'.phase <= phaser'.phase
      BY <1>3, <2>3, <3>2, <3>8
    <3>10. FnInv'
      BY <1>1, <2>1, <2>3, <2>4, <3>5, <3>9 DEF FnInv
    <3>11. ExpectedInv'
      BY <2>1, <2>3, <2>7, <3>8 DEF ExpectedInv, n
    <3> QED
      BY <3>10, <3>11
  <2> QED
    BY <2>5, <2>6, <2>7
<1>13. CASE MainAdvances
  <2>1. /\ main.at = "waiting" /\ main'.at = "advanced" /\ main'.fn = main.fn
        /\ main'.phase = main.phase /\ main'.counted = main.counted
        /\ UNCHANGED <<timer, phaser, mainFns>>
        /\ phaser.terminated \/ phaser.phase # main.phase
        /\ main.counted = ~phaser.terminated
    BY <1>2, <1>3, <1>13 DEF MainAdvances, MainGoes, PhaseIsOver, MainRecord, ExpectedInv,
                             MainIsRegistered
  <2>2. FnInv'
    BY <1>1, <1>2, <2>1 DEF FnInv
  <2>3. ~phaser.terminated => ExpectedParty = 1 /\ ExpectedParty' = 1
    BY <2>1 DEF ExpectedParty, MainIsExpected
  <2>4. ExpectedInv'
    BY <1>4, <1>6, <2>1, <2>3 DEF ExpectedInv, n
  <2> QED
    BY <2>2, <2>4
<1>14. CASE MainTimesOut
  <2>1. main'.at = "idle" /\ timer' = timer /\ phaser' = phaser
    BY <1>14 DEF MainTimesOut, MainIsOver, NoMain
  <2>2. ExpectedParty' = 0 /\ Outstanding' = Outstanding /\ ~MainIsRegistered'
    BY <1>6, <2>1 DEF ExpectedParty, MainIsExpected, MainIsRegistered
  <2>3. ~phaser.terminated => n + ExpectedParty' <= phaser.unarrived
    BY <1>3, <1>4, <1>5, <2>2
  <2> QED
    BY <2>1, <2>2, <2>3 DEF FnInv, ExpectedInv, n
<1>15. CASE MainReturns
  <2>1. main.at = "advanced" /\ main'.at = "idle" /\ timer' = timer
        /\ phaser' = ArriveAndDeregister(phaser)
    BY <1>15 DEF MainReturns, OnTaskFinished, MainIsOver, NoMain
  <2>2. ExpectedParty' = 0 /\ ~MainIsRegistered' /\ Outstanding' = Outstanding /\ FnInv'
    BY <1>6, <2>1 DEF ExpectedParty, MainIsExpected, MainIsRegistered, FnInv
  <2>3. CASE phaser.terminated
    BY <1>8, <2>1, <2>2, <2>3 DEF ArriveAndDeregister
  <2>4. CASE ~phaser.terminated
    <3>1. ~BadArrival(phaser) /\ n + 1 <= phaser.unarrived
      BY <1>7, <2>1, <2>4
    <3>2. Passes(phaser, phaser') /\ IsPhaser(phaser')
      BY <1>3, <2>1, <2>4, <3>1, ArriveCounts, ArriveExpects
    <3>3. phaser'.unarrived \in Nat
      BY <3>2 DEF IsPhaser, Phaser
    <3>4. CASE phaser.unarrived > 1
      <4>1. n + ExpectedParty' <= phaser'.unarrived
        BY <1>3, <1>4, <2>2, <3>1, <3>2, <3>4 DEF Passes
      <4> QED
        BY <2>2, <4>1 DEF ExpectedInv, n
    <3>5. CASE ~(phaser.unarrived > 1)
      <4>1. n + ExpectedParty' <= phaser'.unarrived
        BY <1>3, <1>4, <2>2, <3>1, <3>3, <3>5
      <4> QED
        BY <2>2, <4>1 DEF ExpectedInv, n
    <3> QED
      BY <2>2, <3>4, <3>5
  <2> QED
    BY <2>3, <2>4
<1> QED
  BY <1>9, <1>10, <1>11, <1>12, <1>13, <1>14, <1>15 DEF MainStep

LEMMA WaitNext ==
  ASSUME LoopInv, WaitInv, [Next]_vars
  PROVE  WaitInv'
<1> SUFFICES ASSUME Quiet' PROVE FnInv' /\ ExpectedInv'
  BY DEF WaitInv
<1>1. CASE LoopStep
  BY <1>1, LoopWaits
<1>2. CASE MainStep \/ MainTimesOut
  BY <1>2, MainWaits
<1>3. ~Shutdown
  BY DEF Shutdown, Quiet
<1>4. CASE UNCHANGED vars
  <2>1. Quiet /\ FnInv /\ ExpectedInv
    BY <1>4 DEF vars, history, Quiet, NoPartyMissing, WaitInv
  <2> QED
    BY <1>4, <2>1 DEF vars, FnInv, ExpectedInv, ExpectedParty, MainIsExpected,
                      MainIsRegistered, Outstanding, Pending, BeingCanceled
<1> QED
  BY <1>1, <1>2, <1>3, <1>4 DEF Next, TimerThread, LoopStep

\* For any number of timeouts, cancels, mains and flushes: a main that the phaser
\* has counted is past its wait only when its function has run, whatever other
\* functions were set, have run or were canceled meanwhile, and however many mains
\* before it timed out, unless a party has gone missing: a function was counted
\* off late, or a phaser given up.  The parties are anonymous, so that it is by
\* their number alone that the phase main waits for cannot end without that
\* function.
THEOREM MainWaitsForItsFunction == Spec => []MainWaitsWhenCounted
<1>1. Init => LoopInv /\ WaitInv
  BY LoopInit, WaitInit
<1>2. LoopInv /\ WaitInv /\ [Next]_vars => (LoopInv /\ WaitInv)'
  BY LoopNext, WaitNext
<1>3. LoopInv /\ WaitInv => MainWaitsWhenCounted
  BY DEF LoopInv, PhaserInv, MainType, WaitInv, Quiet, FnInv, MainWaitsWhenCounted,
         MainWaitsForFn, NoPartyMissing
<1> QED
  BY <1>1, <1>2, <1>3, PTL DEF Spec

=============================================================================
