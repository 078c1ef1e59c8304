------------------------------ MODULE TaskQueue ------------------------------
(***************************************************************************)
(* The queue of tasks of libs/promises.js (rawAsap, which core.js requires *)
(* as asap/raw): the handlers of settled promises wait in an array that a  *)
(* flush empties.  Scripts run on several threads (receivers, pool, timer),*)
(* nothing is locked, and all flushes run on the one timer thread, so that *)
(* every access to queue is a step of its own; only flush uses index.      *)
(*                                                                         *)
(* A task is the function that handle makes.  It may ask for another one,  *)
(* and throw: what the scripts throw is caught, but not what pushing a     *)
(* handler to a promise that another thread settles meanwhile throws.      *)
(* How a flush that was asked for gets to happen is in EventLoop.          *)
(* Left out: what two threads do inside one access to the array, the cached*)
(* writes of threads without a memory barrier, and what a task that is     *)
(* called again asks for.                                                  *)
(***************************************************************************)
EXTENDS Integers, FiniteSets, Sequences, SequencesExt

CONSTANTS
  Threads,   \* the threads that run scripts, besides the timer thread
  Timer,     \* the timer thread
  Work,      \* [Threads -> Seq(tasks)]: the tasks they ask for
  Follows,   \* the pairs of tasks of which the first asks for the second
  Throwing,  \* the tasks that may throw
  Capacity   \* "capacity": how far index goes before the array is compacted

ASSUME TimerAssumption == Timer \notin Threads
ASSUME CapacityAssumption == Capacity \in Nat

None == "none"  \* no task: a slot nothing was written to

Tasks == (UNION {ToSet(Work[t]) : t \in Threads}) \cup {pair[2] : pair \in Follows}

Actors == Threads \cup {Timer}

\* handle makes a function for every call of asap: no task is asked for twice.
ASSUME WorkAssumption ==
  /\ None \notin Tasks
  /\ \A t \in Threads : Work[t] \in Seq(Tasks)
  /\ \A t, u \in Threads : \A i \in DOMAIN Work[t], j \in DOMAIN Work[u] :
       Work[t][i] = Work[u][j] => t = u /\ i = j

ASSUME FollowsAssumption ==
  \A pair \in Follows : \A t \in Threads : \A i \in DOMAIN Work[t] : Work[t][i] # pair[2]

VARIABLES
  todo,      \* [Threads -> Seq(Tasks)]: what they have not asked for yet
  pc,        \* [Actors -> Place]: where a thread is in rawAsap
  task,      \* [Actors -> Tasks]: its argument
  length,    \* [Actors -> Nat]: the length of the queue it has read
  queue,     \* Seq(Tasks): the slots of the array
  index,     \* the slots flush is past
  requests,  \* the flushes asked for
  flush,     \* where the timer thread is in flush
  scan,      \* the slots it has moved to the head of the array
  slot,      \* the one it is moving
  newLength, \* the length it is going to set
  asked,     \* history: the tasks in the order in which rawAsap was called
  called,    \* history: the tasks in the order in which they were
  overlapped,\* history: a thread asked while another one did, or while flush
             \* was moving slots or about to empty the array
  torn,      \* history: the array grew while flush was moving slots
  threw      \* history: a task threw

vars == <<todo, pc, task, length, queue, index, requests, flush, scan, slot, newLength, asked,
          called, overlapped, torn, threw>>

asapVars == <<todo, pc, task, length, requests, asked>>
flushVars == <<index, flush, scan, slot, newLength, called, torn, threw>>

Place == {"idle", "request", "length", "write"}

Compacting == {"scan", "move", "shorten", "cut"}

FlushPlace == {"idle", "loop", "call", "asks", "returns", "left"} \cup Compacting

TypeOK ==
  /\ pc \in [Actors -> Place]
  /\ todo \in [Threads -> Seq(Tasks)]
  /\ task \in [Actors -> Tasks \cup {None}]
  /\ length \in [Actors -> Nat]
  /\ queue \in Seq(Tasks \cup {None})
  /\ index \in Nat /\ requests \in Nat
  /\ flush \in FlushPlace
  /\ scan \in Nat /\ newLength \in Nat
  /\ slot \in Tasks \cup {None}
  /\ asked \in Seq(Tasks) /\ called \in Seq(Tasks)
  /\ overlapped \in BOOLEAN /\ torn \in BOOLEAN /\ threw \in BOOLEAN

Init ==
  /\ todo = [t \in Threads |-> Work[t]]
  /\ pc = [t \in Actors |-> "idle"]
  /\ task = [t \in Actors |-> None]
  /\ length = [t \in Actors |-> 0]
  /\ queue = <<>> /\ index = 0 /\ requests = 0
  /\ flush = "idle" /\ scan = 0 /\ slot = None /\ newLength = 0
  /\ asked = <<>> /\ called = <<>>
  /\ overlapped = FALSE /\ torn = FALSE /\ threw = FALSE

-----------------------------------------------------------------------------
(* rawAsap, by any thread *)

\* The threads that are between two accesses that belong together.
Inside ==
  {t \in Actors : pc[t] # "idle"}
    \cup {t \in {Timer} : flush \in Compacting \cup {"left"}}

Enters(t) == overlapped' = (overlapped \/ Inside \ {t} # {})

Goes(t, place) == pc' = [pc EXCEPT ![t] = place]

\* asap(x) is rawAsap(x): if (!queue.length)
Asap(t, x) ==
  /\ pc[t] = "idle"
  /\ Goes(t, IF queue = <<>> THEN "request" ELSE "length")
  /\ task' = [task EXCEPT ![t] = x]
  /\ asked' = Append(asked, x)
  /\ Enters(t)
  /\ UNCHANGED <<length, queue, requests>>

ScriptAsks(t) ==
  /\ todo[t] # <<>>
  /\ Asap(t, Head(todo[t]))
  /\ todo' = [todo EXCEPT ![t] = Tail(@)]
  /\ UNCHANGED flushVars

\* One flush, or two if the interval overwrites its cancel (EventLoop).
RequestsFlush(t) ==
  /\ pc[t] = "request"
  /\ Goes(t, "length")
  /\ \E n \in {1, 2} : requests' = requests + n
  /\ UNCHANGED <<todo, task, length, queue, asked, overlapped, flushVars>>

\* queue[queue.length] = task: the length is read,
ReadsLength(t) ==
  /\ pc[t] = "length"
  /\ Goes(t, "write")
  /\ length' = [length EXCEPT ![t] = Len(queue)]
  /\ UNCHANGED <<todo, task, queue, requests, asked, overlapped, flushVars>>

\* queue[n] = x; slots between it and a shorter array are holes.
Written(n, x) ==
  [i \in 1..(IF n > Len(queue) THEN n ELSE Len(queue)) |->
     IF i = n THEN x ELSE IF i <= Len(queue) THEN queue[i] ELSE None]

\* and the slot is written.
WritesSlot(t) ==
  /\ pc[t] = "write"
  /\ Goes(t, "idle")
  /\ queue' = Written(length[t] + 1, task[t])
  /\ UNCHANGED <<todo, task, length, requests, asked, overlapped, flushVars>>

AsapGoesOn(t) == RequestsFlush(t) \/ ReadsLength(t) \/ WritesSlot(t)

-----------------------------------------------------------------------------
(* flush, on the timer thread *)

FlushGoes(from, to) == flush = from /\ flush' = to

HandleTimer ==
  /\ requests > 0
  /\ FlushGoes("idle", "loop")
  /\ requests' = requests - 1
  /\ UNCHANGED <<todo, pc, task, length, asked, queue, index, scan, slot, newLength, called,
                 overlapped, torn, threw>>

\* while (index < queue.length)
LoopTest ==
  /\ \/ /\ index < Len(queue)
        /\ FlushGoes("loop", "call") /\ UNCHANGED overlapped
     \/ /\ index >= Len(queue)
        /\ FlushGoes("loop", "left") /\ Enters(Timer)
  /\ UNCHANGED <<asapVars, queue, index, scan, slot, newLength, called, torn, threw>>

\* What the task that is called asks for.
AskedBy(x) == {pair[2] : pair \in {p \in Follows : p[1] = x}} \ ToSet(asked)

\* queue[currentIndex].call(): the task runs.  In a hole flush throws, and
\* leaves the rest.
CallsSlot ==
  LET x == queue[index + 1]
  IN /\ flush = "call"
     /\ index' = index + 1
     /\ \/ /\ x = None
           /\ flush' = "idle" /\ UNCHANGED called
        \/ /\ x # None
           /\ flush' = IF AskedBy(x) # {} THEN "asks" ELSE "returns"
           /\ called' = Append(called, x)
     /\ UNCHANGED <<asapVars, queue, scan, slot, newLength, overlapped, torn, threw>>

TaskAsks ==
  /\ FlushGoes("asks", "returns")
  /\ \E x \in AskedBy(Last(called)) : Asap(Timer, x)
  /\ UNCHANGED <<todo, index, scan, slot, newLength, called, torn, threw>>

\* A task that is called again finds its promise settled.
MayThrow(x) == x \in Throwing \/ x \in ToSet(Front(called))

\* The exception leaves flush, and the queue as it is.
CallThrows ==
  /\ FlushGoes("returns", "idle")
  /\ pc[Timer] = "idle" /\ MayThrow(Last(called))
  /\ threw' = TRUE
  /\ UNCHANGED <<asapVars, queue, index, scan, slot, newLength, called, overlapped, torn>>

\* if (index > capacity), newLength = queue.length - index
CallReturns ==
  /\ pc[Timer] = "idle"
  /\ \/ /\ index <= Capacity
        /\ FlushGoes("returns", "loop") /\ UNCHANGED <<newLength, overlapped>>
     \/ /\ index > Capacity
        /\ FlushGoes("returns", "scan")
        /\ newLength' = Len(queue) - index
        /\ Enters(Timer)
  /\ UNCHANGED <<asapVars, queue, index, scan, slot, called, torn, threw>>

\* queue[scan] = queue[scan + index]: one slot is read,
ReadsSlot ==
  /\ scan < newLength
  /\ FlushGoes("scan", "move")
  /\ slot' = queue[scan + index + 1]
  /\ UNCHANGED <<asapVars, queue, index, scan, newLength, called, overlapped, torn, threw>>

\* and the other one written.
MovesSlot ==
  /\ FlushGoes("move", "scan")
  /\ queue' = Written(scan + 1, slot)
  /\ scan' = scan + 1 /\ slot' = None
  /\ UNCHANGED <<asapVars, index, newLength, called, overlapped, torn, threw>>

ScanEnds ==
  /\ scan >= newLength
  /\ FlushGoes("scan", "shorten")
  /\ UNCHANGED <<asapVars, queue, index, scan, slot, newLength, called, overlapped, torn, threw>>

\* queue.length -= index reads the length again,
Shortens ==
  /\ FlushGoes("shorten", "cut")
  /\ newLength' = Len(queue) - index
  /\ torn' = (torn \/ newLength' # newLength)
  /\ UNCHANGED <<asapVars, queue, index, scan, slot, called, overlapped, threw>>

\* Seeded fault: the array is not cut off.
Cuts_Not ==
  /\ FlushGoes("cut", "loop")
  /\ index' = 0 /\ scan' = 0 /\ newLength' = 0
  /\ UNCHANGED <<asapVars, queue, slot, called, overlapped, torn, threw>>

\* Seeded fault: index stays behind one slot.
Cuts_Behind ==
  /\ FlushGoes("cut", "loop")
  /\ queue' = SubSeq(queue, 1, newLength)
  /\ index' = 1 /\ scan' = 0 /\ newLength' = 0
  /\ UNCHANGED <<asapVars, slot, called, overlapped, torn, threw>>

\* and sets it; index = 0
Cuts ==
  /\ FlushGoes("cut", "loop")
  /\ queue' = SubSeq(queue, 1, newLength)
  /\ index' = 0 /\ scan' = 0 /\ newLength' = 0
  /\ UNCHANGED <<asapVars, slot, called, overlapped, torn, threw>>

\* Seeded fault: index is not reset.
Empties_Not ==
  /\ FlushGoes("left", "idle")
  /\ queue' = <<>>
  /\ UNCHANGED <<asapVars, index, scan, slot, newLength, called, overlapped, torn, threw>>

\* queue.length = 0; index = 0
Empties ==
  /\ FlushGoes("left", "idle")
  /\ queue' = <<>> /\ index' = 0
  /\ UNCHANGED <<asapVars, scan, slot, newLength, called, overlapped, torn, threw>>

FlushGoesOn ==
  \/ HandleTimer \/ LoopTest \/ CallsSlot \/ TaskAsks \/ CallThrows \/ CallReturns
  \/ ReadsSlot \/ MovesSlot \/ ScanEnds \/ Shortens \/ Cuts \/ Empties \/ AsapGoesOn(Timer)

-----------------------------------------------------------------------------

Next ==
  \/ \E t \in Threads : ScriptAsks(t) \/ AsapGoesOn(t)
  \/ FlushGoesOn

Spec == Init /\ [][Next]_vars

\* A thread inside rawAsap goes on, and so does the timer thread.
Fairness ==
  /\ \A t \in Threads : WF_vars(AsapGoesOn(t))
  /\ WF_vars(FlushGoesOn)

FairSpec == Spec /\ Fairness

-----------------------------------------------------------------------------
(* Properties *)

\* However the threads mix, no handler is called twice, unless the array grows
\* while flush moves its slots: then newLength counts slots that were not moved,
\* and functions that were called stay in the queue (promises.js:328-331).
CalledAtMostOnce ==
  ~torn => \A i, j \in DOMAIN called : called[i] = called[j] => i = j

\* Unless a thread asks while another one does, or while flush is moving slots or
\* about to empty the array, the tasks are called in the order in which they were
\* asked for, compacted array or not, and what a task throws skips none.
ServedInOrder ==
  ~overlapped => IsPrefix(called, asked)

\* Then every task is called too, unless one throws: it leaves flush with the
\* queue not empty, and nobody asks for a flush again.
EveryTaskIsCalled ==
  []<>(overlapped \/ threw \/ Len(called) = Len(asked))

=============================================================================
