------------------------------ MODULE EventLoop ------------------------------
(***************************************************************************)
(* The event loop of the scripts (libs/context.ext.js): setTimeout,        *)
(* setInterval and their cancel functions over one java.util.Timer thread, *)
(* a Phaser that counts the functions still to run, so that main(fn) can   *)
(* wait for them, and the client of all that: promises.js, which flushes   *)
(* its queue of handlers from a timeout or, if that fails, an interval.    *)
(*                                                                         *)
(* A party of the phaser is anonymous: the functions, the main and the     *)
(* cancel functions all arrive on whatever phaser the variable holds when  *)
(* they finish, which need not be the one they registered on.              *)
(*                                                                         *)
(* setTimeout, cancel functions and requests for a flush are called from   *)
(* any script thread, main from one thread at a time.  promises.js is the  *)
(* only caller of setInterval.                                             *)
(* Phaser and Timer are java.util classes: their operations are external.  *)
(***************************************************************************)
EXTENDS Integers, FiniteSets

CONSTANTS
  Timers,         \* the setTimeout calls of the scripts and of main
  Flushes,        \* the flushes promises.js asks for
  Clears,         \* the calls of cancel functions by other scripts, any task's
                  \* and any number of times
  NoTimer,        \* no call of main under way, or its function not yet set;
                  \* a cancel variable that is null
  MaxMains        \* bound: calls of main that set their function

ASSUME MaxMainsAssumption == MaxMains \in Nat

VARIABLES
  timer,     \* [Tasks -> TimerState]
  canceled,  \* [Tasks -> BOOLEAN]: the canceled variable of each setTimeout
  phaser,    \* the phaser the variable holds
  thread,    \* the timer thread: "alive", "dead" or "shutdown"
  clear,     \* [Clears -> Clear]: where a call of a cancel function is
  main,      \* where the call of main is, for which function, in which phase,
             \* and whether the phaser counted it when it registered
  mainFns,   \* the setTimeout calls main made: nobody has their cancel function
  request,   \* [Flushes -> Request]: where requestCall is, the task its interval
             \* can cancel, how often the queue was flushed, and whether
             \* setInterval overwrote the cancel of the loop under way
  timeouts,  \* history: the mains that ended with a TimeoutException
  stray,     \* history: a task was counted off that was not waiting, or ran
             \* although it was counted off
  orphaned   \* history: main replaced the phaser while functions could run

history == <<timeouts, stray, orphaned>>
vars == <<timer, canceled, phaser, thread, clear, main, mainFns, request, history>>

\* The tasks of a flush: its timeout, and the one its interval runs in turn
\* with the one it has set meanwhile.
TimeoutOf(f) == <<f, "timeout">>
IntervalOf(f) == {<<f, "even">>, <<f, "odd">>}
TasksOf(f) == {TimeoutOf(f)} \cup IntervalOf(f)
OtherOf(f, u) == CHOOSE v \in IntervalOf(f) : v # u

Tasks == Timers \cup UNION {TasksOf(f) : f \in Flushes}

\* A task of a flush runs in stages: the loop of setInterval is "looping" until
\* it has set the next one, then handleTimer is at clearTimeout, at
\* clearInterval, or over.
Stages == {"running", "looping", "handling", "clearing", "ending"}

TimerState == {"unset", "set", "done", "refused"} \cup Stages

RequestAt == {"idle", "timeout", "assigned", "scheduled", "interval", "complete", "refused"}

ClearAt == {"idle", "arrived", "over"}

MainAt == {"idle", "replaced", "registered", "scheduled", "waiting", "advanced"}

Phaser == [parties : Nat, unarrived : Nat, phase : Nat, terminated : BOOLEAN]

TypeOK ==
  /\ timer \in [Tasks -> TimerState]
  /\ canceled \in [Tasks -> BOOLEAN]
  /\ phaser \in Phaser /\ phaser.unarrived <= phaser.parties
  /\ thread \in {"alive", "dead", "shutdown"}
  /\ clear \in [Clears -> [at : ClearAt, task : Timers \cup {NoTimer}]]
  /\ main \in [at : MainAt, fn : Timers \cup {NoTimer}, phase : Nat, counted : BOOLEAN]
  /\ mainFns \subseteq Timers
  /\ \A f \in Flushes :
       request[f] \in [at : RequestAt, cancel : IntervalOf(f) \cup {NoTimer},
                       flushed : Nat, overwritten : BOOLEAN]
  /\ timeouts \in Nat
  /\ stray \in BOOLEAN /\ orphaned \in BOOLEAN

ASSUME TasksAssumption == \A f \in Flushes : Timers \cap TasksOf(f) = {}
ASSUME NoTimerAssumption == NoTimer \notin Tasks

-----------------------------------------------------------------------------
(* java.util.concurrent.Phaser *)

NewPhaser == [parties |-> 0, unarrived |-> 0, phase |-> 0, terminated |-> FALSE]

Register(p) ==
  IF p.terminated THEN p
  ELSE [p EXCEPT !.parties = @ + 1, !.unarrived = @ + 1]

\* Nothing is counted any more by a phaser that is over.
Ended == [parties |-> 0, unarrived |-> 0, phase |-> 0, terminated |-> TRUE]

\* The last arrival starts the next phase, or ends a phaser with no party.
Advance(p) ==
  IF p.unarrived > 0 THEN p
  ELSE IF p.parties = 0 THEN Ended
  ELSE [p EXCEPT !.phase = @ + 1, !.unarrived = p.parties]

\* An arrival nobody is registered for throws IllegalStateException.
BadArrival(p) == ~p.terminated /\ p.unarrived = 0

Arrive(p) ==
  IF p.terminated \/ BadArrival(p) THEN p
  ELSE Advance([p EXCEPT !.unarrived = @ - 1])

ArriveAndDeregister(p) ==
  IF p.terminated \/ BadArrival(p) THEN p
  ELSE Advance([p EXCEPT !.parties = @ - 1, !.unarrived = @ - 1])

-----------------------------------------------------------------------------
(* setTimeout and cancel *)

NoMain == [at |-> "idle", fn |-> NoTimer, phase |-> 0, counted |-> FALSE]

Init ==
  /\ timer = [t \in Tasks |-> "unset"]
  /\ canceled = [t \in Tasks |-> FALSE]
  /\ phaser = NewPhaser
  /\ thread = "alive"
  /\ clear = [c \in Clears |-> [at |-> "idle", task |-> NoTimer]]
  /\ main = NoMain
  /\ mainFns = {}
  /\ request = [f \in Flushes |->
       [at |-> "idle", cancel |-> NoTimer, flushed |-> 0, overwritten |-> FALSE]]
  /\ timeouts = 0 /\ stray = FALSE /\ orphaned = FALSE

\* A timer thread that is gone refuses the task, after the registration.
Refused == thread # "alive"

NextState == IF Refused THEN "refused" ELSE "set"

\* Seeded fault: the function is scheduled and not registered.
Schedules_NotRegistered(t) ==
  /\ timer[t] = "unset"
  /\ UNCHANGED phaser
  /\ timer' = [timer EXCEPT ![t] = NextState]

\* A task that another thread finds registered and not yet scheduled is one
\* whose turn has not come: the two are one step.
Schedules(t) ==
  /\ timer[t] = "unset"
  /\ phaser' = Register(phaser)
  /\ timer' = [timer EXCEPT ![t] = NextState]

\* The calls of setTimeout, numbered in the order they are made.
IsNextCall(t) ==
  timer[t] = "unset" /\ t = CHOOSE u \in Timers : timer[u] = "unset"

SetTimeout(t) ==
  /\ IsNextCall(t)
  /\ Schedules(t)
  /\ UNCHANGED <<canceled, thread, clear, main, mainFns, request, history>>

OnTaskFinished == phaser' = ArriveAndDeregister(phaser)

FirstStage(t) ==
  IF t \in Timers THEN "running"
  ELSE IF t[2] = "timeout" THEN "handling" ELSE "looping"

\* The interval of a flush is due 50 ms after its timeout.
NotDue(t) == \E f \in Flushes : t \in IntervalOf(f) /\ timer[TimeoutOf(f)] = "set"

\* A cancel function has counted the task off and not yet set canceled.
BeingCanceled(t) == \E c \in Clears : clear[c].at = "arrived" /\ clear[c].task = t

\* The timer thread takes the next task, and drops it if it was canceled.
Fire(t) ==
  /\ thread = "alive" /\ timer[t] = "set" /\ ~NotDue(t)
  /\ \A u \in Tasks : timer[u] \notin Stages
  /\ timer' = [timer EXCEPT ![t] = IF canceled[t] THEN "done" ELSE FirstStage(t)]
  /\ stray' = (stray \/ (BeingCanceled(t) /\ ~canceled[t]))
  /\ UNCHANGED <<canceled, phaser, thread, clear, main, mainFns, request, timeouts, orphaned>>

\* The function is over; what onTaskFinished throws ends the timer thread.
Finished(t) ==
  /\ timer[t] \in {"running", "ending"}
  /\ timer' = [timer EXCEPT ![t] = "done"]
  /\ OnTaskFinished
  /\ thread' = IF thread = "alive" /\ BadArrival(phaser) THEN "dead" ELSE thread
  /\ UNCHANGED <<canceled, clear, main, mainFns, request, history>>

\* A task nobody has taken, canceled or counted off.
Waiting(t) == timer[t] = "set" /\ ~canceled[t] /\ ~BeingCanceled(t)

\* onTaskFinished of a cancel function, which asks nothing of the task.
CountsOff(t) ==
  /\ OnTaskFinished
  /\ stray' = (stray \/ ~Waiting(t))

\* Seeded fault: the cancel function does not count the task off.
CancelArrives_NotCounted(c, t) ==
  /\ clear[c].at = "idle"
  /\ t \in Timers \ mainFns /\ timer[t] \notin {"unset", "refused"}
  /\ clear' = [clear EXCEPT ![c] = [at |-> "arrived", task |-> t]]
  /\ UNCHANGED <<timer, canceled, phaser, thread, main, mainFns, request, history>>

\* Whoever holds the cancel function of a task calls it, also when the task has
\* run or was canceled.  What onTaskFinished throws leaves canceled unset.
CancelArrives(c, t) ==
  /\ clear[c].at = "idle"
  /\ t \in Timers \ mainFns /\ timer[t] \notin {"unset", "refused"}
  /\ clear' = [clear EXCEPT ![c] = IF BadArrival(phaser) THEN [@ EXCEPT !.at = "over"]
                                   ELSE [at |-> "arrived", task |-> t]]
  /\ CountsOff(t)
  /\ UNCHANGED <<timer, canceled, thread, main, mainFns, request, timeouts, orphaned>>

CancelSets(c) ==
  /\ clear[c].at = "arrived"
  /\ canceled' = [canceled EXCEPT ![clear[c].task] = TRUE]
  /\ clear' = [clear EXCEPT ![c] = [at |-> "over", task |-> NoTimer]]
  /\ UNCHANGED <<timer, phaser, thread, main, mainFns, request, history>>

\* shutdown cancels the timer and frees whoever waits.
Shutdown ==
  /\ thread # "shutdown"
  /\ thread' = "shutdown"
  /\ phaser' = Ended
  /\ UNCHANGED <<timer, canceled, clear, main, mainFns, request, history>>

-----------------------------------------------------------------------------
(* setInterval, and the flush of promises.js *)

FirstOf(f) == <<f, "even">>

RequestGoes(f, from, to) ==
  /\ request[f].at = from
  /\ request' = [request EXCEPT ![f].at = to]

\* requestCall sets the timeout; its task may run before the variable that
\* will hold the cancel function is assigned.
RequestTimeout(f) ==
  /\ RequestGoes(f, "idle", IF Refused THEN "refused" ELSE "timeout")
  /\ Schedules(TimeoutOf(f))
  /\ UNCHANGED <<canceled, thread, clear, main, mainFns, history>>

AssignTimeout(f) ==
  /\ RequestGoes(f, "timeout", "assigned")
  /\ UNCHANGED <<timer, canceled, phaser, thread, clear, main, mainFns, history>>

\* Seeded fault: no interval is set.
RequestInterval_Not(f) ==
  /\ RequestGoes(f, "assigned", "scheduled")
  /\ UNCHANGED <<timer, canceled, phaser, thread, clear, main, mainFns, history>>

\* setInterval schedules its first task, and then assigns cancel ...
RequestInterval(f) ==
  /\ RequestGoes(f, "assigned", IF Refused THEN "refused" ELSE "scheduled")
  /\ Schedules(FirstOf(f))
  /\ UNCHANGED <<canceled, thread, clear, main, mainFns, history>>

\* ... which the loop may have assigned before: then the first task has run,
\* and its cancel function cancels nothing, like that of any task that has.
AssignCancel(f) ==
  /\ request[f].at = "scheduled"
  /\ request' = [request EXCEPT ![f] =
       [at |-> "interval",
        cancel |-> IF @.cancel = NoTimer THEN FirstOf(f) ELSE OtherOf(f, @.cancel),
        flushed |-> @.flushed,
        overwritten |-> \E u \in IntervalOf(f) : timer[u] \in {"handling", "clearing"}]]
  /\ UNCHANGED <<timer, canceled, phaser, thread, clear, main, mainFns, history>>

AssignInterval(f) ==
  /\ RequestGoes(f, "interval", "complete")
  /\ UNCHANGED <<timer, canceled, phaser, thread, clear, main, mainFns, history>>

\* Seeded fault: cancel goes on to cancel the task that is running.
LoopSchedules_Unassigned(f, u) ==
  /\ timer[u] = "looping"
  /\ phaser' = Register(phaser)
  /\ timer' = [timer EXCEPT ![OtherOf(f, u)] = NextState, ![u] = "handling"]
  /\ canceled' = [canceled EXCEPT ![OtherOf(f, u)] = FALSE]
  /\ UNCHANGED <<thread, clear, main, mainFns, request, history>>

\* The loop of setInterval sets the next task, which takes the place of the one
\* before, and calls the function unless that was refused.
LoopSchedules(f, u) ==
  /\ timer[u] = "looping"
  /\ phaser' = Register(phaser)
  /\ IF Refused
     THEN timer' = [timer EXCEPT ![u] = "ending"] /\ UNCHANGED <<canceled, request>>
     ELSE /\ timer' = [timer EXCEPT ![OtherOf(f, u)] = "set", ![u] = "handling"]
          /\ canceled' = [canceled EXCEPT ![OtherOf(f, u)] = FALSE]
          /\ request' = [request EXCEPT ![f].cancel = OtherOf(f, u)]
  /\ UNCHANGED <<thread, clear, main, mainFns, history>>

\* A cancel function that is not assigned yet, or throws, ends handleTimer.
HandlerThrows(f, t, stage, unassigned) ==
  /\ timer[t] = stage
  /\ request[f].at \in unassigned \/ BadArrival(phaser)
  /\ timer' = [timer EXCEPT ![t] = "ending"]
  /\ UNCHANGED <<canceled, phaser, thread, clear, main, mainFns, request, history>>

TimeoutIsUnassigned(f, t) == HandlerThrows(f, t, "handling", {"timeout"})

IntervalIsUnassigned(f, t) ==
  HandlerThrows(f, t, "clearing", RequestAt \ {"complete"})

\* A cancel function called by the timer thread, the only one that reads
\* canceled: the two steps of the call are one.
Cancels(t) ==
  /\ CountsOff(t)
  /\ canceled' = [canceled EXCEPT ![t] = TRUE]

\* clearTimeout(timeoutHandle), also by the timeout itself.
ClearTimeout(f, t) ==
  /\ timer[t] = "handling"
  /\ request[f].at # "timeout" /\ ~BadArrival(phaser)
  /\ Cancels(TimeoutOf(f))
  /\ timer' = [timer EXCEPT ![t] = "clearing"]
  /\ UNCHANGED <<thread, clear, main, mainFns, request, timeouts, orphaned>>

\* clearInterval(intervalHandle), then the flush.
ClearIntervalAndFlush(f, t) ==
  /\ timer[t] = "clearing"
  /\ request[f].at = "complete" /\ ~BadArrival(phaser)
  /\ Cancels(request[f].cancel)
  /\ request' = [request EXCEPT ![f].flushed = @ + 1]
  /\ timer' = [timer EXCEPT ![t] = "ending"]
  /\ UNCHANGED <<thread, clear, main, mainFns, timeouts, orphaned>>

HandleTimer(f, t) ==
  \/ TimeoutIsUnassigned(f, t)
  \/ ClearTimeout(f, t)
  \/ IntervalIsUnassigned(f, t)
  \/ ClearIntervalAndFlush(f, t)

-----------------------------------------------------------------------------
(* main *)

MainGoes(from, to) == main.at = from /\ main' = [main EXCEPT !.at = to]

\* Functions that may still run, and those of them that are not counted off.
Pending == {t \in Tasks : \/ timer[t] = "set" /\ ~canceled[t]
                          \/ timer[t] \in Stages}

Outstanding == {t \in Pending : timer[t] = "set" => ~BeingCanceled(t)}

\* A phaser that is over is replaced first.
MainReplaces ==
  /\ Cardinality(mainFns) < MaxMains
  /\ MainGoes("idle", "replaced")
  /\ phaser' = IF phaser.terminated THEN NewPhaser ELSE phaser
  /\ orphaned' = (orphaned \/ (phaser.terminated /\ Pending # {}))
  /\ UNCHANGED <<timer, canceled, thread, clear, mainFns, request, timeouts, stray>>

\* Seeded fault: main does not register itself.
MainRegisters_Not ==
  /\ main.at = "replaced"
  /\ main' = [main EXCEPT !.at = "registered", !.counted = TRUE]
  /\ UNCHANGED <<timer, canceled, phaser, thread, clear, mainFns, request, history>>

\* A phaser that has come to its end meanwhile does not count main.
MainRegisters ==
  /\ main.at = "replaced"
  /\ main' = [main EXCEPT !.at = "registered", !.counted = ~phaser.terminated]
  /\ phaser' = Register(phaser)
  /\ UNCHANGED <<timer, canceled, thread, clear, mainFns, request, history>>

MainIsOver == main' = NoMain

\* main passes fn to setTimeout, which throws if the timer thread is gone.
MainSchedules(t) ==
  /\ main.at = "registered"
  /\ IsNextCall(t)
  /\ Schedules(t)
  /\ IF Refused THEN MainIsOver ELSE main' = [main EXCEPT !.at = "scheduled", !.fn = t]
  /\ mainFns' = mainFns \cup {t}
  /\ UNCHANGED <<canceled, thread, clear, request, history>>

\* The phase arrive returns is the one main waits for.
MainArrives ==
  /\ main.at = "scheduled"
  /\ IF BadArrival(phaser) THEN MainIsOver
     ELSE main' = [main EXCEPT !.at = "waiting", !.phase = phaser.phase]
  /\ phaser' = Arrive(phaser)
  /\ UNCHANGED <<timer, canceled, thread, clear, mainFns, request, history>>

PhaseIsOver == phaser.terminated \/ phaser.phase # main.phase

MainAdvances ==
  /\ PhaseIsOver
  /\ MainGoes("waiting", "advanced")
  /\ UNCHANGED <<timer, canceled, phaser, thread, clear, mainFns, request, history>>

\* The TimeoutException leaves main before it deregisters.
MainTimesOut ==
  /\ main.at = "waiting" /\ ~PhaseIsOver
  /\ MainIsOver
  /\ timeouts' = timeouts + 1
  /\ UNCHANGED <<timer, canceled, phaser, thread, clear, mainFns, request, stray, orphaned>>

\* Seeded fault: main returns without deregistering.
MainReturns_Registered ==
  /\ main.at = "advanced"
  /\ MainIsOver
  /\ UNCHANGED <<timer, canceled, phaser, thread, clear, mainFns, request, history>>

MainReturns ==
  /\ main.at = "advanced"
  /\ MainIsOver
  /\ OnTaskFinished
  /\ UNCHANGED <<timer, canceled, thread, clear, mainFns, request, history>>

-----------------------------------------------------------------------------
(* The specification *)

MainStep ==
  \/ MainReplaces
  \/ MainRegisters
  \/ \E t \in Timers : MainSchedules(t)
  \/ MainArrives
  \/ MainAdvances
  \/ MainReturns

RequestStep(f) ==
  AssignTimeout(f) \/ RequestInterval(f) \/ AssignCancel(f) \/ AssignInterval(f)

FlushStep(f) ==
  \/ \E u \in IntervalOf(f) : LoopSchedules(f, u)
  \/ \E t \in TasksOf(f) : HandleTimer(f, t)

TimerThread ==
  \/ \E t \in Tasks : Fire(t) \/ Finished(t)
  \/ \E f \in Flushes : FlushStep(f)

Next ==
  \/ \E t \in Timers : SetTimeout(t)
  \/ \E c \in Clears : (\E t \in Timers : CancelArrives(c, t)) \/ CancelSets(c)
  \/ TimerThread
  \/ \E f \in Flushes : RequestTimeout(f) \/ RequestStep(f)
  \/ MainStep
  \/ MainTimesOut
  \/ Shutdown

Spec == Init /\ [][Next]_vars

\* The timer thread fires what is due and its functions return; a thread that
\* asked for a flush, and a main that was called, go on.  Nobody has to call,
\* to cancel, or to time out.
Fairness ==
  /\ WF_vars(TimerThread)
  /\ \A f \in Flushes : WF_vars(RequestStep(f))
  /\ WF_vars(main.at # "idle" /\ MainStep)

FairSpec == Spec /\ Fairness

-----------------------------------------------------------------------------
(* Properties *)

MainIsRegistered == main.at \in {"registered", "scheduled", "waiting", "advanced"}

NoPartyMissing == ~stray /\ ~orphaned

\* The parties of the phaser are the functions still to run, the main, and one
\* party for every main that timed out (register in setTimeout and main,
\* onTaskFinished in the finally and in the cancel function).  Never is a party
\* left behind; one is missing only after a cancel function was called late,
\* as the flush does for its timeout, or while its task began, or after main
\* gave up a phaser with functions still to run.
PartiesAreOutstanding ==
  (thread = "alive" /\ ~phaser.terminated)
    => LET expected == Cardinality(Outstanding) + timeouts
                         + (IF MainIsRegistered THEN 1 ELSE 0)
       IN phaser.parties <= expected /\ (NoPartyMissing => phaser.parties = expected)

\* A main that the phaser counted returns only when its function has run: "we
\* register the main(...) function with the phaser so that we can be notified
\* of all cases".
MainWaitsForFn ==
  (main.at = "advanced" /\ main.counted /\ thread # "shutdown") => timer[main.fn] = "done"

\* The same, as long as no party has gone missing.
MainWaitsWhenCounted == NoPartyMissing => MainWaitsForFn

\* No exception of the phaser ends the thread that runs every timer, late and
\* repeated cancels or not, unless main gave up the phaser that functions still
\* to run were registered on.
TimerThreadSurvives == thread = "dead" => orphaned

\* The queue of handlers is flushed once for a request, and the interval runs
\* no more after it: clearInterval in handleTimer reaches the task that the
\* loop set last.  Where setInterval has overwritten the cancel of a loop under
\* way that task is missed, once, and ends the interval with a second flush.
FlushedOnce ==
  \A f \in Flushes :
    LET limit == IF request[f].overwritten THEN 2 ELSE 1
    IN /\ request[f].flushed <= limit
       /\ request[f].flushed = limit
            => \A u \in IntervalOf(f) : timer[u] = "set" => canceled[u]

\* A request for a flush is met, also when the timeout runs before the cancel
\* functions it calls are assigned: the interval tries again.
FlushHappens ==
  \A f \in Flushes :
    request[f].at = "timeout" ~> (request[f].flushed > 0 \/ thread # "alive")

\* A main whose functions have all run returns, unless a main before it timed
\* out: that one has left its party behind.
MainReturnsUnlessTimedOut ==
  (main.at = "waiting" /\ Outstanding = {} /\ timeouts = 0)
     ~> (main.at # "waiting" \/ Outstanding # {})

=============================================================================
