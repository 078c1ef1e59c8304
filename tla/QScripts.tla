------------------------------- MODULE QScripts -------------------------------
(***************************************************************************)
(* Scripts that use libs/q.js: they make promises, combine them, and       *)
(* settle them whenever they like, while the timer thread runs the queue of*)
(* nextTick and the timers of timeout and delay.                           *)
(*                                                                         *)
(* A script holds the deferreds 1 .. Sources, which it may resolve, reject *)
(* and notify, and makes the calls of one of Scripts.  What a callback of a*)
(* script does besides its answer is the same as a script's doing it       *)
(* between two tasks.  One thread at a time is in the library.             *)
(***************************************************************************)
EXTENDS QCombinators, FiniteSets

CONSTANTS
  Sources,       \* the number of deferreds that scripts settle
  Scripts,       \* the sequences of calls a script may make
  Notifying,     \* bound: the ones they notify, once each
  MaxDeferreds   \* bound: no script makes more

\* What scripts deal in, and the functions they give.
Item ==
  ({"value"} \X Nat) \cup {Undefined} \cup ({"deferred"} \X (1..Sources))
  \cup ({"thenable"} \X {"throws", "keeps"})
Input == Item \cup ({"array"} \X Seq(Item))
Reason == {"reason"} \X Nat
End == ({"returns"} \X Input) \cup ({"throws"} \X Reason)
Function ==
  End \cup ({"callsBack"} \X (Reason \cup {None}) \X Input) \cup {<<"keepsBack">>}
Generator == {"generator"} \X Seq(Input) \X End
Resolver == ({"throws"} \X Reason) \cup {<<"keeps">>}

\* A call, with all the arguments that calls may have; <<"held", i>> is what the
\* call i of the script answered.
ScriptCall ==
  [call : {"then", "done", "fail", "progress", "thenResolve", "thenReject", "ask", "fcall",
           "all", "any", "allResolved", "allSettled", "race", "raceOf", "promise", "spread",
           "join", "promised", "tap", "finally", "timeout", "delay", "nfapply", "nodeify",
           "async", "spawn"},
   of : Input \cup ({"held"} \X (Nat \ {0})) \cup {None},
   fulfilled : Function \cup {None},
   rejected : Function \cup {None},
   progressed : Function \cup {None},
   value : Input \cup Reason \cup Function \cup Generator \cup Resolver \cup {None}]

\* The arguments that a call needs.
TakesItsArguments(c) ==
  CASE c.call \in {"any", "race"} -> c.of[1] = "array"
    [] c.call \in {"join", "promised"} -> c.of[1] = "array" /\ Len(c.of[2]) = 2
    [] c.call = "thenResolve" -> c.value \in Input
    [] c.call = "thenReject" -> c.value \in Reason
    [] c.call = "ask" -> c.value \in Function
    [] c.call = "promise" -> c.value \in Resolver
    [] c.call \in {"async", "spawn"} -> c.value \in Generator
    [] OTHER -> TRUE

ASSUME SourcesAssumption == Sources \in Nat
ASSUME NotifyingAssumption == Notifying \subseteq 1..Sources
ASSUME MaxDeferredsAssumption == MaxDeferreds \in Nat
ASSUME ScriptsAssumption ==
  /\ Scripts \subseteq Seq(ScriptCall)
  /\ \A s \in Scripts : \A i \in DOMAIN s :
       /\ TakesItsArguments(s[i])
       /\ s[i].call \in {"spread", "promised", "tap", "finally", "nfapply"} =>
            s[i].fulfilled # None
       /\ s[i].call \notin {"promise", "nfapply", "async", "spawn"} => s[i].of # None
       /\ s[i].of[1] = "held" => s[i].of[2] < i

VARIABLES
  m,      \* the memory of the library
  script, \* the calls the script makes: the next one is after those of m.held
  beat    \* history: whether Flush has taken an odd number of steps

vars == <<m, script, beat>>

Within == Len(m.deferred) <= MaxDeferreds

TypeOK ==
  /\ Within
  /\ m.flush \in {"idle", "requested", "running"}
  /\ m.flush = "idle" => m.queue = <<>>
  /\ \A d \in DOMAIN m.deferred :
       LET r == m.deferred[d]
       IN /\ r.target = None \/ IsPromise(r.target)
          /\ IsResolved(m, d) => r.messages = <<>> /\ r.listeners = <<>>
          /\ r.pendingCount \in 0..Len(Items(r.array)) \/ Items(r.array) = <<>>
  /\ m.unhandled \subseteq 1..m.rejections
  /\ m.outside \subseteq DOMAIN m.deferred

Init ==
  /\ script \in Scripts
  /\ beat = 0
  /\ m = [deferred |-> [d \in 1..Sources |-> NewDeferred],
          queue |-> <<>>,       \* the tasks of nextTick
          flush |-> "idle",
          timers |-> {},        \* set, and not fired
          rejections |-> 0,     \* made
          unhandled |-> {},     \* unhandledRejections, by their numbers
          thrown |-> <<>>,      \* what runSingle throws in a timeout
          called |-> <<>>,      \* calls of the functions given to nodeify
          outside |-> 1..Sources, \* the deferreds that scripts may settle
          held |-> <<>>,        \* what the calls of the script answered
          notified |-> {},      \* the sources that were
          fired |-> {},         \* history: timers that fired
          late |-> {},          \* history: listeners called after their handlers
          it |-> Undefined]

-----------------------------------------------------------------------------
(* Actions *)

\* The end of a step: nobody looks at its value any more.
Ended(h) == [h EXCEPT !.it = Undefined]

\* What the script holds.
Held(x) == IF x[1] = "held" THEN m.held[x[2]] ELSE x

Makes(c) ==
  LET x == Held(c.of)
  IN CASE c.call = "then" -> When(m, x, c.fulfilled, c.rejected, c.progressed)
       [] c.call = "done" -> Done(m, x, c.fulfilled, c.rejected, c.progressed)
       [] c.call = "fail" -> Fail(m, x, c.rejected)
       [] c.call = "progress" -> ProgressOf(m, x, c.progressed)
       [] c.call = "thenResolve" -> ThenResolve(m, x, c.value)
       [] c.call = "thenReject" -> ThenReject(m, x, c.value)
       [] c.call = "ask" -> Ask(m, x, "data", c.value)
       [] c.call = "fcall" -> Fcall(m, x, Undefined)
       [] c.call = "all" -> All(m, x)
       [] c.call = "any" -> AnyOf(m, Items(x))
       [] c.call = "allResolved" -> AllResolved(m, x)
       [] c.call = "allSettled" -> AllSettled(m, x)
       [] c.call = "race" -> Race(m, x)
       [] c.call = "raceOf" -> When(m, x, <<"race">>, None, None)
       [] c.call = "promise" -> NewPromise(m, c.value)
       [] c.call = "spread" -> Spread(m, x, c.fulfilled, c.rejected)
       [] c.call = "join" -> Join(m, Items(x)[1], Items(x)[2])
       [] c.call = "promised" -> Promised(m, Items(x)[1], Tail(Items(x)), c.fulfilled)
       [] c.call = "tap" -> Tap(m, x, c.fulfilled)
       [] c.call = "finally" -> Finally(m, x, c.fulfilled)
       [] c.call = "timeout" -> Timeout(m, x)
       [] c.call = "delay" -> Delay(m, x)
       [] c.call = "nfapply" -> Nfapply(m, c.fulfilled)
       [] c.call = "nodeify" -> Nodeify(m, x)
       [] c.call = "async" -> Async(m, c.value)
       [] c.call = "spawn" -> Spawn(m, c.value)

Holds(h) == [h EXCEPT !.held = Append(@, h.it)]

ScriptCalls ==
  /\ Len(m.held) < Len(script)
  /\ m' = Ended(Holds(Makes(script[Len(m.held) + 1])))
  /\ UNCHANGED <<script, beat>>

\* A source is not resolved with an earlier one: nothing breaks a ring.
Resolutions(d) ==
  {<<"value", d>>} \cup {Deferred(e) : e \in {e \in 1..Sources : d < e}}

\* What else scripts call returns at once; race and any make such calls too.
Unresolved == {d \in m.outside : ~IsResolved(m, d)}

ScriptResolves(d) ==
  /\ \E x \in Resolutions(d) : m' = Ended(Resolve(m, d, x))
  /\ UNCHANGED <<script, beat>>

ScriptRejects(d) ==
  /\ m' = Ended(Reject(m, d, <<"reason", d>>))
  /\ UNCHANGED <<script, beat>>

ScriptNotifies(d) ==
  /\ d \notin m.notified /\ ~IsResolved(m, d)
  /\ m' = Ended(Notify([m EXCEPT !.notified = @ \cup {d}], d, <<"progress", d>>))
  /\ UNCHANGED <<script, beat>>

Beat == beat' = 1 - beat /\ UNCHANGED script

FlushStarts ==
  /\ m.flush = "requested"
  /\ m' = [m EXCEPT !.flush = "running"]
  /\ Beat

\* Seeded fault: a task that throws stays in the queue.
RunTask_Fault ==
  /\ m.flush = "running" /\ m.queue # <<>>
  /\ m' = IF Head(m.queue).do = "throw" THEN m
          ELSE Ended(Run([m EXCEPT !.queue = Tail(@)], Head(m.queue)))
  /\ Beat

RunTask ==
  /\ m.flush = "running" /\ m.queue # <<>>
  /\ m' = Ended(Run([m EXCEPT !.queue = Tail(@)], Head(m.queue)))
  /\ Beat

FlushEnds ==
  /\ m.flush = "running" /\ m.queue = <<>>
  /\ m' = [m EXCEPT !.flush = "idle"]
  /\ Beat

\* The one timer thread is not in the flush.
TimerFires(timer) ==
  LET h == [m EXCEPT !.timers = @ \ {timer}, !.fired = @ \cup {timer[2]}]
  IN /\ m.flush # "running"
     /\ m' = Ended(IF timer[1] = "timeout" THEN Reject(h, timer[2], TimedOut)
                   ELSE Resolve(h, timer[2], timer[3]))
     /\ UNCHANGED <<script, beat>>

Flush == FlushStarts \/ RunTask \/ FlushEnds

Fires == \E timer \in m.timers : TimerFires(timer)

Turn ==
  \/ ScriptCalls
  \/ \E d \in Unresolved : ScriptResolves(d) \/ ScriptRejects(d)
  \/ \E d \in Notifying : ScriptNotifies(d)

Next == Turn \/ Flush \/ Fires

Spec == Init /\ [][Next]_vars

\* The steps of Flush are those that change beat.
FlushGoesOn == m.flush # "idle" /\ beat' = 1 - beat

\* The timer thread goes on with a flush (FlushHappens of EventLoop): this is
\* WF_vars(Flush), in a form that is cheap to check.
FairSpec == Spec /\ WF_beat(FlushGoesOn)

-----------------------------------------------------------------------------
(* Properties *)

Abstract ==
  INSTANCE PromiseSpec WITH
    Promises <- 1..MaxDeferreds, Handlers <- 1..MaxDeferreds,
    outcome <- [d \in 1..MaxDeferreds |->
                  IF d \in DOMAIN m.deferred THEN Inspect(m, Deferred(d)) ELSE Pending],
    waiting <- [d \in 1..MaxDeferreds |->
                  IF d \in DOMAIN m.deferred THEN m.deferred[d].waiting ELSE <<>>],
    answer <- [d \in 1..MaxDeferreds |->
                 IF d \in DOMAIN m.deferred THEN m.deferred[d].answer ELSE Pending]

\* Every deferred settles once, and the handlers given to then are called at
\* most once, with one outcome, in a later turn and in order ("Guarantees").
KeepsItsPromises == Abstract!Spec

Outcome(x) == IF IsPromise(x) THEN Inspect(m, x) ELSE Fulfilled(x)

\* What a foreign thenable may have brought a promise to.
ThenableComesTo(thenable) ==
  CASE thenable[2] = "throws" -> {<<"rejected", Error("then")>>}
    [] thenable[2] = "keeps" -> {Inspect(m, Deferred(d)) : d \in m.outside \ 1..Sources} \ {Pending}

\* What a function of a script brings a promise to, when it is called with x.
Brings(f, x) ==
  CASE f = None -> {Fulfilled(x)}
    [] f[1] = "returns" -> IF f[2][1] = "thenable" THEN ThenableComesTo(f[2])
                           ELSE {Outcome(f[2])} \ {Pending}
    [] f[1] = "throws" -> {<<"rejected", f[2]>>}
    [] f[1] = "same" -> {IF x[2][1] = x[2][2] THEN Fulfilled(x[2][1])
                         ELSE <<"rejected", NotTheSame>>}

\* What handlers make of an outcome, or of each outcome of a set.
Passes(o, fulfilled, rejected) ==
  CASE o = Pending -> {}
    [] o[1] = "fulfilled" -> Brings(fulfilled, o[2])
    [] o[1] = "rejected" -> IF rejected = None THEN {o} ELSE Brings(rejected, o[2])

PassesAny(os, fulfilled, rejected) == UNION {Passes(o, fulfilled, rejected) : o \in os}

\* What all may come to: the values, or the reason of some rejected item.
AllComesTo(items) ==
  LET outs == [i \in DOMAIN items |-> Outcome(items[i])]
  IN IF \A i \in DOMAIN items : outs[i][1] = "fulfilled"
     THEN {Fulfilled(Array([i \in DOMAIN items |-> outs[i][2]]))}
     ELSE {outs[i] : i \in {j \in DOMAIN items : outs[j][1] = "rejected"}}

\* tap and finally: the outcome o, unless what f brings is a rejection.
AfterCallOf(f, o) ==
  {IF after[1] = "rejected" THEN after ELSE o : after \in Brings(f, Undefined)}

\* The first value yielded that is not fulfilled ends a generator, or its end does.
GeneratorComesTo(generator) ==
  LET outs == [j \in DOMAIN generator[2] |-> Outcome(generator[2][j])]
      stops == {j \in DOMAIN outs : outs[j][1] # "fulfilled"}
  IN IF stops = {} THEN Brings(generator[3], Undefined)
     ELSE {outs[CHOOSE j \in stops : \A k \in stops : j <= k]} \ {Pending}

\* What f, a function of Node, tells its call back.
CallBackOf(f) ==
  CASE f[1] = "throws" -> {<<"rejected", f[2]>>}
    [] f[1] = "callsBack" -> {IF f[2] # None THEN <<"rejected", f[2]>> ELSE Fulfilled(f[3])}

\* What the promise of a call may have come to, with what its inputs are now.
ComesTo(i) ==
  LET c == script[i]
      x == Held(c.of)
      o == Outcome(x)
      items == Items(x)
      outs == {Outcome(items[j]) : j \in DOMAIN items}
      d == m.held[i][2]
  IN CASE c.call = "then" -> Passes(o, c.fulfilled, c.rejected)
       [] c.call = "fail" -> Passes(o, None, c.rejected)
       [] c.call \in {"progress", "delay"} -> {o} \ {Pending}
       [] c.call = "thenResolve" -> Passes(o, <<"returns", c.value>>, None)
       [] c.call = "thenReject" -> Passes(o, <<"throws", c.value>>, None)
       [] c.call = "ask" -> Passes(o, c.value, None)
       [] c.call = "fcall" -> Passes(o, <<"throws", Error("TypeError")>>, None)
       [] c.call = "all" -> AllComesTo(items)
       [] c.call = "any" ->
            IF items = <<>> THEN {Fulfilled(Undefined)}
            ELSE IF \A out \in outs : out[1] = "rejected" THEN {<<"rejected", NoneFulfilled>>}
            ELSE {out \in outs : out[1] = "fulfilled"}
       [] c.call = "allSettled" ->
            IF Pending \in outs THEN {}
            ELSE {Fulfilled(Array([j \in DOMAIN items |-> <<"snapshot", Outcome(items[j])>>]))}
       [] c.call = "allResolved" ->
            IF Pending \in outs THEN {}
            ELSE {Fulfilled(Array([j \in DOMAIN items |->
                    IF IsPromise(items[j]) THEN items[j] ELSE Fulfilled(items[j])]))}
       [] c.call \in {"race", "raceOf"} -> outs \ {Pending}
       [] c.call = "spread" -> PassesAny(AllComesTo(items), c.fulfilled, c.rejected)
       [] c.call = "join" -> PassesAny(AllComesTo(items), <<"same">>, None)
       [] c.call = "promised" -> PassesAny(AllComesTo(items), c.fulfilled, None)
       [] c.call = "tap" ->
            IF o[1] = "fulfilled" THEN AfterCallOf(c.fulfilled, o) ELSE {o} \ {Pending}
       [] c.call = "finally" -> IF o = Pending THEN {} ELSE AfterCallOf(c.fulfilled, o)
       [] c.call = "timeout" ->
            ({o} \ {Pending}) \cup IF d \in m.fired THEN {<<"rejected", TimedOut>>} ELSE {}
       [] c.call = "nfapply" -> CallBackOf(c.fulfilled)
       [] c.call \in {"async", "spawn"} -> GeneratorComesTo(c.value)
       [] c.call = "done" -> Passes(o, c.fulfilled, c.rejected)
       [] c.call = "nodeify" -> {o} \ {Pending}
       [] c.call = "promise" -> {Outcome(m.held[i])} \ {Pending}

\* The calls that answer a promise, but for one that a script settles.
Compared(i) == script[i].call \notin {"promise", "done", "spawn", "nodeify"}

\* What a combinator answers is what its inputs have come to, whatever the
\* order in which they settle and whatever they are resolved with.
AnswersAsPromised ==
  \A i \in DOMAIN m.held : Compared(i) =>
    Outcome(m.held[i]) \in {Pending} \cup ComesTo(i)

\* Nothing due is left: no task, and no timer.
AtRest == m.flush = "idle" /\ m.timers = {}

\* The promise of a combinator whose inputs allow it an answer has one.
SettlesWithItsInputs ==
  AtRest => \A i \in DOMAIN m.held :
    (Compared(i) /\ ComesTo(i) # {}) => Outcome(m.held[i]) # Pending

\* What done and spawn are left with is thrown, and what nodeify waits for is
\* told to its function once.
NothingIsSwallowed ==
  AtRest => \A i \in DOMAIN m.held : \A out \in ComesTo(i) :
    /\ (script[i].call \in {"done", "spawn"} /\ out[1] = "rejected") =>
         \E j \in DOMAIN m.thrown : m.thrown[j] = out[2]
    /\ script[i].call = "nodeify" =>
         m.called = << <<IF out[1] = "fulfilled" THEN "value" ELSE "error", out[2]>> >>

\* The list of unhandled rejections holds those that no handler has seen.
UnhandledIsUnobserved ==
  \A k \in 1..m.rejections :
    k \in m.unhandled
      <=> ~ \E d \in DOMAIN m.deferred :
             /\ m.deferred[d].done
             /\ LET y == Nearest(m, m.deferred[d].self) IN y[1] = "rejected" /\ y[2] = k

\* No listener hears of the progress of what has called its handler.
NoProgressAfterAnswer == m.late = {}

\* The flush ends: no task calls others for ever.
QueueDrains == []<>(m.flush = "idle")

=============================================================================
