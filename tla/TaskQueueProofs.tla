---------------------------- MODULE TaskQueueProofs ----------------------------
(***************************************************************************)
(* The queue of tasks of promises.js, for any number of threads, tasks and *)
(* slots: no task is called twice unless the array grows while the flush   *)
(* compacts it, and as long as the threads do not mix where it matters, the*)
(* tasks are called in the order in which they were asked for.             *)
(***************************************************************************)
EXTENDS TaskQueue, TLAPS

-----------------------------------------------------------------------------
(* Sequences *)

\* x is one of the elements of s.
In(s, x) == \E i \in DOMAIN s : s[i] = x

LEMMA InIsToSet == \A s, x : x \in ToSet(s) <=> In(s, x)
BY DEF ToSet, In

\* Append puts its element behind the others.
LEMMA AppendAdds ==
  ASSUME NEW S, NEW s \in Seq(S), NEW x \in S
  PROVE  /\ Append(s, x) \in Seq(S)
         /\ Append(s, x) # <<>>
         /\ Last(Append(s, x)) = x
         /\ DOMAIN Append(s, x) = DOMAIN s \cup {Len(s) + 1}
         /\ Len(s) + 1 \notin DOMAIN s
         /\ Append(s, x)[Len(s) + 1] = x
         /\ \A i \in DOMAIN s : Append(s, x)[i] = s[i]
         /\ \A y : In(Append(s, x), y) <=> In(s, y) \/ y = x
<1>1. /\ Append(s, x) \in Seq(S)
      /\ Len(Append(s, x)) = Len(s) + 1
      /\ DOMAIN s = 1..Len(s)
      /\ DOMAIN Append(s, x) = 1..(Len(s) + 1)
      /\ Len(s) \in Nat
  OBVIOUS
<1>2. /\ Append(s, x)[Len(s) + 1] = x
      /\ \A i \in DOMAIN s : Append(s, x)[i] = s[i]
  OBVIOUS
<1>3. /\ Append(s, x) # <<>>
      /\ Last(Append(s, x)) = x
  BY <1>1, <1>2 DEF Last
<1>4. /\ DOMAIN Append(s, x) = DOMAIN s \cup {Len(s) + 1}
      /\ Len(s) + 1 \notin DOMAIN s
  BY <1>1
<1>5. \A y : In(Append(s, x), y) <=> In(s, y) \/ y = x
  BY <1>2, <1>4 DEF In
<1> QED
  BY <1>1, <1>2, <1>3, <1>4, <1>5

\* Head and Tail split a sequence that is not empty.
LEMMA TailShifts ==
  ASSUME NEW S, NEW s \in Seq(S), s # <<>>
  PROVE  /\ Tail(s) \in Seq(S)
         /\ 1 \in DOMAIN s
         /\ Head(s) = s[1] /\ Head(s) \in S
         /\ \A i \in DOMAIN Tail(s) : i \in Nat /\ i # 0 /\ i + 1 \in DOMAIN s
                                      /\ Tail(s)[i] = s[i + 1]
OBVIOUS

\* The first n elements of a sequence.
LEMMA HeadPart ==
  ASSUME NEW S, NEW s \in Seq(S), NEW n \in Nat, n <= Len(s)
  PROVE  /\ SubSeq(s, 1, n) \in Seq(S) /\ Len(SubSeq(s, 1, n)) = n
         /\ \A i \in 1..n : SubSeq(s, 1, n)[i] = s[i]
OBVIOUS

\* A function on the first n numbers is a sequence of length n.
LEMMA IsSequence ==
  ASSUME NEW S, NEW n \in Nat, NEW s \in [1..n -> S]
  PROVE  s \in Seq(S) /\ Len(s) = n /\ DOMAIN s = 1..n
OBVIOUS

-----------------------------------------------------------------------------
(* Type correctness *)

Slots == Tasks \cup {None}

\* The flush has not lost count of the slots, although others write to them: only
\* the flush makes the array shorter.
CountInv ==
  /\ scan + index <= Len(queue)
  /\ flush = "call" => index < Len(queue)
  /\ flush \notin Compacting => scan = 0
  /\ flush \in Compacting => scan <= newLength /\ newLength + index <= Len(queue)
  /\ flush = "move" => scan < newLength
  /\ flush = "shorten" => scan = newLength
  /\ flush = "cut" /\ ~torn => scan = newLength

Busy(t) == pc[t] # "idle"

\* A thread inside rawAsap has a task; the timer thread is inside only for a task
\* that it calls.
TaskInv ==
  /\ \A t \in Actors : Busy(t) => task[t] \in Tasks
  /\ Busy(Timer) => flush = "returns"
  /\ flush \in {"asks", "returns"} => called # <<>>

TypeInv == TypeOK /\ CountInv /\ TaskInv

LEMMA InitType == Init => TypeInv
<1> SUFFICES ASSUME Init PROVE TypeInv
  OBVIOUS
<1>1. todo \in [Threads -> Seq(Tasks)]
  BY WorkAssumption DEF Init
<1>2. /\ pc \in [Actors -> Place] /\ task \in [Actors -> Slots] /\ length \in [Actors -> Nat]
      /\ \A t \in Actors : pc[t] = "idle"
  BY DEF Init, Place, Slots
<1>3. /\ index = 0 /\ scan = 0 /\ newLength = 0 /\ requests = 0 /\ flush = "idle"
      /\ slot = None /\ queue = <<>> /\ asked = <<>> /\ called = <<>>
      /\ overlapped = FALSE /\ torn = FALSE /\ threw = FALSE
  BY DEF Init
<1>4. TypeOK
  <2>1. queue \in Seq(Slots) /\ asked \in Seq(Tasks) /\ called \in Seq(Tasks)
    BY <1>3
  <2> QED
    BY <1>1, <1>2, <1>3, <2>1 DEF TypeOK, FlushPlace, Slots
<1>5. CountInv
  BY <1>3 DEF CountInv, Compacting
<1>6. TaskInv
  BY <1>2, <1>3 DEF TaskInv, Busy, Actors
<1> QED
  BY <1>4, <1>5, <1>6 DEF TypeInv

\* What the invariant says of the types, for those who do not expand it.
LEMMA Types ==
  ASSUME TypeInv
  PROVE  /\ queue \in Seq(Slots) /\ Len(queue) \in Nat /\ DOMAIN queue = 1..Len(queue)
         /\ index \in Nat /\ scan \in Nat /\ newLength \in Nat /\ requests \in Nat
         /\ slot \in Slots /\ None \in Slots
         /\ asked \in Seq(Tasks) /\ Len(asked) \in Nat /\ DOMAIN asked = 1..Len(asked)
         /\ called \in Seq(Tasks) /\ Len(called) \in Nat /\ DOMAIN called = 1..Len(called)
         /\ Timer \in Actors /\ \A t \in Threads : t \in Actors
BY DEF TypeInv, TypeOK, Slots, Actors

\* What an assignment to a slot makes of the queue.
LEMMA WrittenIs ==
  ASSUME TypeInv, NEW n \in Nat, n # 0, NEW x \in Slots
  PROVE  /\ Written(n, x) \in Seq(Slots)
         /\ Len(Written(n, x)) = IF n > Len(queue) THEN n ELSE Len(queue)
         /\ \A i \in 1..Len(Written(n, x)) :
              Written(n, x)[i] = IF i = n THEN x ELSE IF i <= Len(queue) THEN queue[i] ELSE None
<1> DEFINE l == IF n > Len(queue) THEN n ELSE Len(queue)
<1>1. l \in Nat
  BY Types
<1>2. Written(n, x) = [i \in 1..l |-> IF i = n THEN x ELSE IF i <= Len(queue) THEN queue[i] ELSE None]
  BY DEF Written
<1> HIDE DEF l
<1>3. Written(n, x) \in [1..l -> Slots]
  <2>1. \A i \in 1..l : i <= Len(queue) => queue[i] \in Slots
    BY <1>1, Types
  <2> QED
    BY <1>2, <2>1, Types
<1>4. Written(n, x) \in Seq(Slots) /\ Len(Written(n, x)) = l
  BY <1>1, <1>3, IsSequence
<1> QED
  BY <1>1, <1>2, <1>4 DEF l

\* A thread that asks has the task in hand.
LEMMA AsapType ==
  ASSUME TypeInv, NEW t \in Actors, NEW x \in Tasks, Asap(t, x)
  PROVE  /\ pc' \in [Actors -> Place] /\ task' \in [Actors -> Slots]
         /\ asked' \in Seq(Tasks) /\ overlapped' \in BOOLEAN
         /\ UNCHANGED <<length, queue, requests>>
         /\ \A u \in Actors : Busy(u)' => task'[u] \in Tasks
         /\ \A u \in Actors : u # t => pc'[u] = pc[u]
<1>1. pc' \in [Actors -> Place] /\ task' \in [Actors -> Slots] /\ overlapped' \in BOOLEAN
  BY DEF Asap, Goes, Enters, Place, Slots, TypeInv, TypeOK
<1>2. asked' \in Seq(Tasks)
  BY Types, AppendAdds DEF Asap
<1>3. \A u \in Actors : /\ task'[u] = IF u = t THEN x ELSE task[u]
                        /\ u # t => pc'[u] = pc[u]
  BY DEF Asap, Goes, TypeInv, TypeOK
<1> QED
  BY <1>1, <1>2, <1>3 DEF Asap, TypeInv, TaskInv, Busy

LEMMA ScriptAsksType ==
  ASSUME TypeInv, NEW t \in Threads, ScriptAsks(t)
  PROVE  TypeInv'
<1>1. /\ todo[t] \in Seq(Tasks) /\ todo[t] # <<>> /\ t \in Actors /\ t # Timer
      /\ Asap(t, Head(todo[t])) /\ todo' = [todo EXCEPT ![t] = Tail(@)]
      /\ UNCHANGED <<index, flush, scan, slot, newLength, called, torn, threw>>
  BY TimerAssumption DEF ScriptAsks, flushVars, TypeInv, TypeOK, Actors
<1>2. Head(todo[t]) \in Tasks /\ Tail(todo[t]) \in Seq(Tasks)
  BY <1>1, TailShifts
<1>3. todo' \in [Threads -> Seq(Tasks)]
  BY <1>1, <1>2 DEF TypeInv, TypeOK
<1>4. /\ pc' \in [Actors -> Place] /\ task' \in [Actors -> Slots]
      /\ asked' \in Seq(Tasks) /\ overlapped' \in BOOLEAN
      /\ UNCHANGED <<length, queue, requests>>
      /\ \A u \in Actors : Busy(u)' => task'[u] \in Tasks
      /\ \A u \in Actors : u # t => pc'[u] = pc[u]
  BY <1>1, <1>2, AsapType
<1>5. TypeOK'
  BY <1>1, <1>3, <1>4 DEF TypeInv, TypeOK, Slots
<1>6. CountInv' /\ TaskInv'
  BY <1>1, <1>4, Types DEF TypeInv, CountInv, TaskInv, Busy
<1> QED
  BY <1>5, <1>6 DEF TypeInv

\* The rest of rawAsap: the array may grow.
LEMMA AsapGoesOnType ==
  ASSUME TypeInv, NEW t \in Actors, AsapGoesOn(t)
  PROVE  TypeInv'
<1>1. /\ UNCHANGED <<todo, task, asked, overlapped, index, flush, scan, slot, newLength, called,
                     torn, threw>>
      /\ pc' \in [Actors -> Place]
      /\ \A u \in Actors : Busy(u)' => Busy(u)
  BY DEF AsapGoesOn, RequestsFlush, ReadsLength, WritesSlot, flushVars, Goes, Place, Busy, TypeInv,
         TypeOK
<1>2. requests' \in Nat
  BY DEF AsapGoesOn, RequestsFlush, ReadsLength, WritesSlot, TypeInv, TypeOK
<1>3. length' \in [Actors -> Nat]
  BY Types DEF AsapGoesOn, RequestsFlush, ReadsLength, WritesSlot, TypeInv, TypeOK
<1>4. queue' \in Seq(Slots) /\ Len(queue) <= Len(queue') /\ Len(queue') \in Nat
  <2>1. CASE RequestsFlush(t) \/ ReadsLength(t)
    BY <2>1, Types DEF RequestsFlush, ReadsLength
  <2>2. CASE WritesSlot(t)
    <3>1. length[t] + 1 \in Nat /\ length[t] + 1 # 0 /\ task[t] \in Slots
      BY DEF TypeInv, TypeOK, Slots
    <3>2. queue' = Written(length[t] + 1, task[t])
      BY <2>2 DEF WritesSlot
    <3>3. /\ queue' \in Seq(Slots)
          /\ Len(queue') = IF length[t] + 1 > Len(queue) THEN length[t] + 1 ELSE Len(queue)
      BY <3>1, <3>2, WrittenIs
    <3> QED
      BY <3>1, <3>3, Types
  <2> QED
    BY <2>1, <2>2 DEF AsapGoesOn
<1>5. TypeOK'
  BY <1>1, <1>2, <1>3, <1>4 DEF TypeInv, TypeOK, Slots
<1>6. CountInv'
  BY <1>1, <1>4, Types DEF TypeInv, CountInv
<1>7. TaskInv'
  BY <1>1, Types DEF TypeInv, TaskInv
<1> QED
  BY <1>5, <1>6, <1>7 DEF TypeInv

\* A slot is called, or flush is left at a hole.
LEMMA CallsSlotType ==
  ASSUME TypeInv, CallsSlot
  PROVE  TypeInv'
<1> DEFINE x == queue[index + 1]
<1>1. /\ UNCHANGED <<todo, pc, task, length, requests, asked, queue, scan, slot, newLength,
                     overlapped, torn, threw>>
      /\ flush = "call" /\ index' = index + 1
      /\ \/ x = None /\ flush' = "idle" /\ called' = called
         \/ x # None /\ flush' \in {"asks", "returns"} /\ called' = Append(called, x)
  BY DEF CallsSlot, asapVars
<1>2. index < Len(queue) /\ scan = 0 /\ ~Busy(Timer)
  BY <1>1 DEF TypeInv, CountInv, TaskInv, Compacting
<1>3. x \in Slots
  <2>1. index + 1 \in 1..Len(queue)
    BY <1>2, Types
  <2> QED
    BY <2>1, Types
<1> HIDE DEF x
<1>4. called' \in Seq(Tasks) /\ (flush' # "idle" => called' # <<>>)
  <2>1. CASE x = None
    BY <1>1, <2>1, Types
  <2>2. CASE x # None
    <3>1. x \in Tasks
      BY <1>3, <2>2 DEF Slots
    <3>2. Append(called, x) \in Seq(Tasks) /\ Append(called, x) # <<>>
      BY <3>1, Types, AppendAdds
    <3> QED
      BY <1>1, <2>2, <3>2
  <2> QED
    BY <2>1, <2>2
<1>5. TypeOK'
  BY <1>1, <1>4, Types DEF TypeInv, TypeOK, FlushPlace
<1>6. CountInv'
  <2>1. flush' \notin Compacting \cup {"call"}
    BY <1>1 DEF Compacting
  <2> QED
    BY <1>1, <1>2, <2>1, Types DEF CountInv, Compacting
<1>7. TaskInv'
  BY <1>1, <1>2, <1>4, Types DEF TypeInv, TaskInv, Busy
<1> QED
  BY <1>5, <1>6, <1>7 DEF TypeInv

LEMMA TaskAsksType ==
  ASSUME TypeInv, TaskAsks
  PROVE  TypeInv'
<1>1. /\ flush = "asks" /\ flush' = "returns"
      /\ UNCHANGED <<todo, index, scan, slot, newLength, called, torn, threw>>
  BY DEF TaskAsks, FlushGoes
<1>2. PICK x \in AskedBy(Last(called)) : Asap(Timer, x)
  BY DEF TaskAsks
<1>3. x \in Tasks
  BY DEF AskedBy, Tasks
<1>4. /\ pc' \in [Actors -> Place] /\ task' \in [Actors -> Slots]
      /\ asked' \in Seq(Tasks) /\ overlapped' \in BOOLEAN
      /\ UNCHANGED <<length, queue, requests>>
      /\ \A u \in Actors : Busy(u)' => task'[u] \in Tasks
  BY <1>2, <1>3, Types, AsapType
<1>5. TypeOK'
  BY <1>1, <1>4 DEF TypeInv, TypeOK, Slots, FlushPlace
<1>6. CountInv'
  BY <1>1, <1>4 DEF TypeInv, CountInv, Compacting
<1>7. TaskInv'
  BY <1>1, <1>4 DEF TypeInv, TaskInv
<1> QED
  BY <1>5, <1>6, <1>7 DEF TypeInv

\* The steps of the flush that change nothing but its own variables.
LEMMA FlushType ==
  ASSUME TypeInv,
         HandleTimer \/ LoopTest \/ CallThrows \/ CallReturns \/ ReadsSlot \/ ScanEnds \/ Shortens
  PROVE  TypeInv'
<1>1. /\ UNCHANGED <<todo, pc, task, length, asked, queue, index, scan, called>>
      /\ ~Busy(Timer)
  BY DEF HandleTimer, LoopTest, CallThrows, CallReturns, ReadsSlot, ScanEnds,
         Shortens, FlushGoes, Enters, asapVars, TypeInv, TaskInv, Busy
<1>2. /\ flush' \in FlushPlace
      /\ overlapped' \in BOOLEAN /\ torn' \in BOOLEAN /\ threw' \in BOOLEAN
  BY DEF HandleTimer, LoopTest, CallThrows, CallReturns, ReadsSlot, ScanEnds,
         Shortens, FlushGoes, Enters, asapVars, TypeInv, TypeOK, FlushPlace,
         Compacting
<1>3. requests' \in Nat
  BY Types DEF HandleTimer, LoopTest, CallThrows, CallReturns, ReadsSlot, ScanEnds,
         Shortens, FlushGoes, Enters, asapVars
<1>4. newLength' \in Nat
  <2>1. index <= Len(queue)
    BY Types DEF TypeInv, CountInv
  <2> QED
    BY <2>1, Types DEF HandleTimer, LoopTest, CallThrows, CallReturns, ReadsSlot, ScanEnds,
                Shortens, FlushGoes, Enters, asapVars
<1>5. slot' \in Slots
  <2>1. CASE ReadsSlot
    <3>1. scan + index + 1 \in 1..Len(queue)
      BY <2>1, Types DEF ReadsSlot, FlushGoes, TypeInv, CountInv, Compacting
    <3>2. slot' = queue[scan + index + 1]
      BY <2>1 DEF ReadsSlot
    <3> QED
      BY <3>1, <3>2, Types
  <2>2. CASE ~ReadsSlot
    BY <2>2, Types DEF HandleTimer, LoopTest, CallThrows, CallReturns, ReadsSlot, ScanEnds,
              Shortens, FlushGoes, Enters, asapVars
  <2> QED
    BY <2>1, <2>2
<1>6. TypeOK'
  BY <1>1, <1>2, <1>3, <1>4, <1>5 DEF TypeInv, TypeOK, Slots
<1>7. CountInv'
  <2>1. CASE HandleTimer \/ LoopTest \/ CallThrows
    BY <1>1, <2>1, Types DEF HandleTimer, LoopTest, CallThrows, FlushGoes, TypeInv, CountInv,
                             Compacting
  <2>2. CASE CallReturns
    <3>1. scan = 0 /\ index <= Len(queue)
      BY <2>2, Types DEF CallReturns, FlushGoes, TypeInv, CountInv, Compacting
    <3>2. 0 <= Len(queue) - index /\ (Len(queue) - index) + index <= Len(queue)
      BY <3>1, Types
    <3> QED
      BY <1>1, <2>2, <3>1, <3>2, Types DEF CallReturns, FlushGoes, CountInv, Compacting
  <2>3. CASE ReadsSlot \/ ScanEnds
    BY <1>1, <2>3, Types DEF ReadsSlot, ScanEnds, FlushGoes, TypeInv, CountInv, Compacting
  <2>4. CASE Shortens
    <3>1. /\ flush = "shorten" /\ flush' = "cut" /\ newLength' = Len(queue) - index
          /\ ~torn' => newLength' = newLength
      BY <2>4 DEF Shortens, FlushGoes
    <3>2. scan = newLength /\ newLength + index <= Len(queue)
      BY <3>1 DEF TypeInv, CountInv, Compacting
    <3>3. newLength <= newLength' /\ newLength' + index <= Len(queue)
      BY <3>1, <3>2, Types
    <3> QED
      BY <1>1, <3>1, <3>2, <3>3, Types DEF CountInv, Compacting
  <2> QED
    BY <2>1, <2>2, <2>3, <2>4
<1>8. TaskInv'
  BY <1>1, Types DEF HandleTimer, LoopTest, CallThrows, CallReturns, ReadsSlot, ScanEnds,
         Shortens, FlushGoes, Enters, asapVars, TypeInv, TaskInv, Busy
<1> QED
  BY <1>6, <1>7, <1>8 DEF TypeInv

\* Those that change the queue.
LEMMA FlushQueueType ==
  ASSUME TypeInv, MovesSlot \/ Cuts \/ Empties
  PROVE  TypeInv'
<1>1. /\ UNCHANGED <<todo, pc, task, length, requests, asked, called, overlapped, torn, threw>>
      /\ flush' \in {"scan", "loop", "idle"} /\ flush \in {"move", "cut", "left"}
  BY DEF MovesSlot, Cuts, Empties, FlushGoes, asapVars
<1>2. /\ queue' \in Seq(Slots) /\ slot' \in Slots
      /\ index' \in Nat /\ scan' \in Nat /\ newLength' \in Nat
      /\ CountInv'
  <2>1. CASE MovesSlot
    <3>1. /\ queue' = Written(scan + 1, slot) /\ scan' = scan + 1 /\ slot' = None
          /\ UNCHANGED <<index, newLength>> /\ flush = "move" /\ flush' = "scan"
      BY <2>1 DEF MovesSlot, FlushGoes
    <3>2. scan < newLength /\ newLength + index <= Len(queue)
      BY <3>1 DEF TypeInv, CountInv, Compacting
    <3>3. scan + 1 \in Nat /\ scan + 1 # 0 /\ ~(scan + 1 > Len(queue))
      BY <3>2, Types
    <3>4. queue' \in Seq(Slots) /\ Len(queue') = Len(queue)
      <4>1. Written(scan + 1, slot) \in Seq(Slots) /\ Len(Written(scan + 1, slot)) = Len(queue)
        BY <3>3, Types, WrittenIs
      <4> QED
        BY <3>1, <4>1
    <3>5. CountInv'
      BY <3>1, <3>2, <3>4, Types DEF CountInv, Compacting
    <3>6. slot' \in Slots /\ index' \in Nat /\ scan' \in Nat /\ newLength' \in Nat
      BY <3>1, <3>3, Types
    <3> QED
      BY <3>4, <3>5, <3>6
  <2>2. CASE Cuts
    <3>1. /\ queue' = SubSeq(queue, 1, newLength) /\ slot' = slot
          /\ index' = 0 /\ scan' = 0 /\ newLength' = 0 /\ flush = "cut" /\ flush' = "loop"
      BY <2>2 DEF Cuts, FlushGoes
    <3>2. newLength <= Len(queue)
      BY <3>1, Types DEF TypeInv, CountInv, Compacting
    <3>3. queue' \in Seq(Slots) /\ Len(queue') = newLength
      BY <3>1, <3>2, Types, HeadPart
    <3> QED
      BY <3>1, <3>3, Types DEF CountInv, Compacting
  <2>3. CASE Empties
    <3>1. /\ queue' = <<>> /\ index' = 0 /\ flush = "left" /\ flush' = "idle"
          /\ UNCHANGED <<scan, slot, newLength>>
      BY <2>3 DEF Empties, FlushGoes
    <3>2. scan = 0
      BY <3>1 DEF TypeInv, CountInv, Compacting
    <3> QED
      BY <3>1, <3>2, Types DEF CountInv, Compacting
  <2> QED
    BY <2>1, <2>2, <2>3
<1>3. TypeOK'
  BY <1>1, <1>2 DEF TypeInv, TypeOK, Slots, FlushPlace, Compacting
<1>4. TaskInv'
  BY <1>1 DEF TypeInv, TaskInv, Busy
<1> QED
  BY <1>2, <1>3, <1>4 DEF TypeInv

LEMMA NextType ==
  ASSUME TypeInv, [Next]_vars
  PROVE  TypeInv'
<1>1. CASE \E t \in Threads : ScriptAsks(t) \/ AsapGoesOn(t)
  BY <1>1, ScriptAsksType, AsapGoesOnType, Types
<1>2. CASE FlushGoesOn
  BY <1>2, CallsSlotType, TaskAsksType, FlushType, FlushQueueType, AsapGoesOnType, Types
     DEF FlushGoesOn
<1>3. CASE UNCHANGED vars
  BY <1>3 DEF vars, TypeInv, TypeOK, CountInv, TaskInv, Busy
<1> QED
  BY <1>1, <1>2, <1>3 DEF Next

\* For any number of threads, any tasks and any capacity: every variable keeps its
\* type, and the flush stays within the array although every thread may write to
\* it at a length it read long ago.
THEOREM TypeCorrect == Spec => []TypeOK
<1>1. Init => TypeInv
  BY InitType
<1>2. TypeInv /\ [Next]_vars => TypeInv'
  BY NextType
<1>3. TypeInv => TypeOK
  BY DEF TypeInv
<1> QED
  BY <1>1, <1>2, <1>3, PTL DEF Spec

-----------------------------------------------------------------------------
(* What waits *)

\* The i-th slot that waits for its call: it has been moved to the head of the
\* array, or it is being moved, or it is still where it was.
At(i) ==
  IF i <= scan THEN queue[i]
  ELSE IF flush = "move" /\ i = scan + 1 THEN slot ELSE queue[index + i]

Waiting == [i \in 1..(Len(queue) - index) |-> At(i)]

WaitingFacts ==
  /\ Waiting \in Seq(Slots) /\ Len(Waiting) = Len(queue) - index
  /\ Len(Waiting) \in Nat /\ DOMAIN Waiting = 1..Len(Waiting)
  /\ DOMAIN Waiting = 1..(Len(queue) - index)
  /\ \A i \in 1..(Len(queue) - index) : Waiting[i] = At(i)
  /\ scan <= Len(Waiting)

LEMMA WaitingHas == TypeInv => WaitingFacts
<1> SUFFICES ASSUME TypeInv PROVE WaitingFacts
  OBVIOUS
<1> DEFINE n == Len(queue) - index
<1>1. n \in Nat /\ scan <= n
  BY Types DEF TypeInv, CountInv
<1>2. \A i \in 1..n : At(i) \in Slots
  <2> SUFFICES ASSUME NEW i \in 1..n PROVE At(i) \in Slots
    OBVIOUS
  <2>1. i \in 1..Len(queue) /\ index + i \in 1..Len(queue)
    BY Types
  <2> QED
    BY <2>1, Types DEF At
<1>3. Waiting = [i \in 1..n |-> At(i)]
  BY DEF Waiting
<1> HIDE DEF n
<1>4. Waiting \in [1..n -> Slots]
  BY <1>2, <1>3
<1> QED
  BY <1>1, <1>3, <1>4, IsSequence DEF n, WaitingFacts

LEMMA WaitingHasNext == TypeInv' => WaitingFacts'
BY WaitingHas, PTL

LEMMA WaitingIs ==
  ASSUME TypeInv
  PROVE  /\ Waiting \in Seq(Slots) /\ Len(Waiting) = Len(queue) - index
         /\ Len(Waiting) \in Nat /\ DOMAIN Waiting = 1..Len(Waiting)
         /\ DOMAIN Waiting = 1..(Len(queue) - index)
         /\ \A i \in 1..(Len(queue) - index) : Waiting[i] = At(i)
         /\ scan <= Len(Waiting)
BY WaitingHas DEF WaitingFacts

LEMMA WaitingIsNext ==
  ASSUME TypeInv'
  PROVE  /\ Waiting' \in Seq(Slots) /\ Len(Waiting') = Len(queue') - index'
         /\ Len(Waiting') \in Nat /\ DOMAIN Waiting' = 1..Len(Waiting')
         /\ DOMAIN Waiting' = 1..(Len(queue') - index')
         /\ \A i \in 1..(Len(queue') - index') : Waiting'[i] = At(i)'
         /\ scan' <= Len(Waiting')
BY WaitingHasNext DEF WaitingFacts

\* A step that leaves what waits: it moves slots, or changes nothing but where the
\* flush is.
LEMMA WaitingSame ==
  ASSUME Len(queue') - index' = Len(queue) - index,
         \A i \in 1..(Len(queue) - index) : At(i)' = At(i)
  PROVE  Waiting' = Waiting
BY DEF Waiting

LEMMA WaitingStays ==
  ASSUME UNCHANGED <<queue, index, scan>>,
         \/ flush # "move" /\ flush' # "move"
         \/ flush' = flush /\ slot' = slot
  PROVE  Waiting' = Waiting
<1>1. \A i \in 1..(Len(queue) - index) : At(i)' = At(i)
  BY DEF At
<1> QED
  BY <1>1, WaitingSame

LEMMA FlushWaiting ==
  ASSUME TypeInv,
         HandleTimer \/ LoopTest \/ CallThrows \/ CallReturns \/ ReadsSlot \/ MovesSlot \/ ScanEnds
           \/ Shortens
  PROVE  Waiting' = Waiting
<1>1. CASE HandleTimer \/ LoopTest \/ CallThrows \/ CallReturns \/ ScanEnds \/ Shortens
  <2>1. /\ UNCHANGED <<queue, index, scan>>
        /\ flush # "move" /\ flush' # "move"
    BY <1>1 DEF HandleTimer, LoopTest, CallThrows, CallReturns, ScanEnds, Shortens, FlushGoes
  <2> QED
    BY <2>1, WaitingStays
<1>2. CASE ReadsSlot
  <2>1. /\ UNCHANGED <<queue, index, scan>> /\ slot' = queue[scan + index + 1]
        /\ flush = "scan" /\ flush' = "move"
    BY <1>2 DEF ReadsSlot, FlushGoes
  <2>2. scan + index + 1 = index + (scan + 1)
    BY Types
  <2>3. \A i \in 1..(Len(queue) - index) : At(i)' = At(i)
    BY <2>1, <2>2, Types DEF At
  <2> QED
    BY <2>1, <2>3, WaitingSame
<1>3. CASE MovesSlot
  <2>1. /\ queue' = Written(scan + 1, slot) /\ scan' = scan + 1 /\ index' = index
        /\ flush = "move" /\ flush' = "scan"
    BY <1>3 DEF MovesSlot, FlushGoes
  <2>2. scan < newLength /\ newLength + index <= Len(queue)
    BY <2>1 DEF TypeInv, CountInv, Compacting
  <2>3. scan + 1 \in Nat /\ scan + 1 # 0 /\ ~(scan + 1 > Len(queue))
    BY <2>2, Types
  <2>4. /\ Len(queue') = Len(queue)
        /\ \A i \in 1..Len(queue) : queue'[i] = IF i = scan + 1 THEN slot ELSE queue[i]
    <3>1. /\ Len(Written(scan + 1, slot)) = Len(queue)
          /\ \A i \in 1..Len(Written(scan + 1, slot)) :
               Written(scan + 1, slot)[i] = IF i = scan + 1 THEN slot
                                            ELSE IF i <= Len(queue) THEN queue[i] ELSE None
      BY <2>3, Types, WrittenIs
    <3> QED
      BY <2>1, <3>1, Types
  <2>5. ASSUME NEW i \in 1..(Len(queue) - index) PROVE At(i)' = At(i)
    <3>1. i \in 1..Len(queue) /\ index + i \in 1..Len(queue) /\ i \in Nat
      BY Types
    <3>2. At(i)' = IF i <= scan + 1 THEN queue'[i] ELSE queue'[index + i]
      BY <2>1 DEF At
    <3>3. CASE i <= scan
      <4>1. i # scan + 1 /\ i <= scan + 1
        BY <3>1, <3>3, Types
      <4> QED
        BY <2>4, <3>1, <3>2, <3>3, <4>1 DEF At
    <3>4. CASE i = scan + 1
      <4>1. ~(i <= scan) /\ i <= scan + 1
        BY <3>1, <3>4, Types
      <4> QED
        BY <2>1, <2>4, <3>1, <3>2, <3>4, <4>1 DEF At
    <3>5. CASE i > scan + 1
      <4>1. ~(i <= scan) /\ i # scan + 1 /\ ~(i <= scan + 1) /\ index + i # scan + 1
        BY <3>1, <3>5, Types
      <4> QED
        BY <2>1, <2>4, <3>1, <3>2, <4>1 DEF At
    <3> QED
      BY <3>1, <3>3, <3>4, <3>5, Types
  <2> QED
    BY <2>1, <2>4, <2>5, WaitingSame
<1> QED
  BY <1>1, <1>2, <1>3

\* The slot that is called is the first that waits.
LEMMA CallsWaiting ==
  ASSUME TypeInv, CallsSlot
  PROVE  /\ 1 \in DOMAIN Waiting /\ queue[index + 1] = Waiting[1]
         /\ Len(Waiting') = Len(Waiting) - 1
         /\ \A i \in DOMAIN Waiting' : i + 1 \in DOMAIN Waiting /\ Waiting'[i] = Waiting[i + 1]
<1>1. /\ UNCHANGED <<queue, scan>> /\ index' = index + 1
      /\ flush = "call" /\ flush' # "move"
  BY DEF CallsSlot
<1>2. index < Len(queue) /\ scan = 0
  BY <1>1 DEF TypeInv, CountInv, Compacting
<1>3. TypeInv'
  BY CallsSlotType
<1>4. \A i \in 1..(Len(queue) - index) : Waiting[i] = queue[index + i]
  <2>1. \A i \in 1..(Len(queue) - index) : ~(i <= 0)
    OBVIOUS
  <2> QED
    BY <1>1, <1>2, <2>1, WaitingIs DEF At
<1>5. \A i \in 1..(Len(queue) - (index + 1)) : Waiting'[i] = queue[(index + 1) + i]
  <2>1. \A i \in 1..(Len(queue) - (index + 1)) : ~(i <= 0)
    OBVIOUS
  <2>2. \A i \in 1..(Len(queue') - index') : Waiting'[i] = At(i)'
    BY <1>3, WaitingIsNext
  <2> QED
    BY <1>1, <1>2, <2>1, <2>2 DEF At
<1>6. /\ Len(Waiting) = Len(queue) - index /\ DOMAIN Waiting = 1..(Len(queue) - index)
      /\ Len(Waiting') = Len(queue) - (index + 1) /\ DOMAIN Waiting' = 1..(Len(queue) - (index + 1))
  <2>1. Len(Waiting') = Len(queue') - index' /\ DOMAIN Waiting' = 1..Len(Waiting')
    BY <1>3, WaitingIsNext
  <2> QED
    BY <1>1, <2>1, WaitingIs
<1>7. 1 \in 1..(Len(queue) - index)
  BY <1>2, Types
<1>8. ASSUME NEW i \in 1..(Len(queue) - (index + 1))
      PROVE  i + 1 \in 1..(Len(queue) - index) /\ (index + 1) + i = index + (i + 1)
  <2>1. \A l, n \in Nat : \A j \in 1..(l - (n + 1)) :
          j + 1 \in 1..(l - n) /\ (n + 1) + j = n + (j + 1)
    OBVIOUS
  <2> QED
    BY <2>1, Types
<1>9. Len(Waiting') = Len(Waiting) - 1
  BY <1>6, Types
<1>10. queue[index + 1] = Waiting[1] /\ 1 \in DOMAIN Waiting
  BY <1>4, <1>6, <1>7
<1>11. \A i \in DOMAIN Waiting' : i + 1 \in DOMAIN Waiting /\ Waiting'[i] = Waiting[i + 1]
  BY <1>4, <1>5, <1>6, <1>8
<1> QED
  BY <1>9, <1>10, <1>11

\* When the array is cut off behind the slots that were moved, these wait.
LEMMA CutsWaiting ==
  ASSUME TypeInv, Cuts, scan = newLength
  PROVE  /\ Len(Waiting') = newLength /\ newLength <= Len(Waiting)
         /\ \A i \in DOMAIN Waiting' : i \in DOMAIN Waiting /\ Waiting'[i] = Waiting[i]
<1>1. /\ queue' = SubSeq(queue, 1, newLength) /\ index' = 0 /\ scan' = 0
      /\ flush = "cut" /\ flush' = "loop"
  BY DEF Cuts, FlushGoes
<1>2. TypeInv'
  BY FlushQueueType
<1>3. newLength + index <= Len(queue)
  BY <1>1 DEF TypeInv, CountInv, Compacting
<1>4. newLength <= Len(queue) /\ newLength <= Len(queue) - index
  BY <1>3, Types
<1>5. Len(queue') = newLength /\ \A i \in 1..newLength : queue'[i] = queue[i]
  BY <1>1, <1>4, Types, HeadPart
<1>6. Len(Waiting') = newLength /\ DOMAIN Waiting' = 1..newLength
  <2>1. Len(Waiting') = Len(queue') - index' /\ DOMAIN Waiting' = 1..Len(Waiting')
    BY <1>2, WaitingIsNext
  <2> QED
    BY <1>1, <1>5, <2>1, Types
<1>7. ASSUME NEW i \in 1..newLength
      PROVE  i \in DOMAIN Waiting /\ Waiting'[i] = Waiting[i]
  <2>1. /\ i \in 1..(Len(queue) - index) /\ i <= scan /\ ~(i <= 0) /\ 0 + i = i
    BY <1>4, Types
  <2>2. Waiting[i] = queue[i] /\ i \in DOMAIN Waiting
    BY <2>1, WaitingIs DEF At
  <2>3. i \in 1..(Len(queue') - index')
    BY <1>1, <1>5, Types
  <2>4. Waiting'[i] = At(i)'
    BY <1>2, <2>3, WaitingIsNext
  <2>5. At(i)' = queue'[i]
    BY <1>1, <2>1 DEF At
  <2> QED
    BY <1>5, <2>2, <2>4, <2>5
<1> QED
  BY <1>4, <1>6, <1>7, WaitingIs

LEMMA EmptiesWaiting ==
  ASSUME TypeInv, Empties
  PROVE  Len(Waiting') = 0 /\ DOMAIN Waiting' = {}
<1>1. queue' = <<>> /\ index' = 0
  BY DEF Empties
<1>2. TypeInv'
  BY FlushQueueType
<1>3. Len(Waiting') = Len(queue') - index' /\ DOMAIN Waiting' = 1..Len(Waiting')
  BY <1>2, WaitingIsNext
<1> QED
  BY <1>1, <1>3

\* A thread that writes at a length it read long ago adds its task, or puts it in
\* the place of another one, or where nothing waits.
LEMMA WritesWaiting ==
  ASSUME TypeInv, NEW t \in Actors, WritesSlot(t)
  PROVE  \E k \in Int : \A i \in DOMAIN Waiting' :
           \/ i = k /\ Waiting'[i] = task[t]
           \/ Waiting'[i] = None
           \/ i \in DOMAIN Waiting /\ Waiting'[i] = Waiting[i]
<1> DEFINE n == length[t] + 1
           k == IF n <= scan THEN n ELSE n - index
<1>1. /\ queue' = Written(n, task[t]) /\ UNCHANGED <<index, scan, flush, slot>>
      /\ n \in Nat /\ n # 0 /\ task[t] \in Slots
  BY DEF WritesSlot, flushVars, TypeInv, TypeOK, Slots
<1> HIDE DEF n
<1>2. TypeInv'
  BY AsapGoesOnType DEF AsapGoesOn
<1>3. /\ Len(queue') = IF n > Len(queue) THEN n ELSE Len(queue)
      /\ \A i \in 1..Len(queue') : queue'[i] = IF i = n THEN task[t]
                                               ELSE IF i <= Len(queue) THEN queue[i] ELSE None
  BY <1>1, WrittenIs
<1>4. /\ DOMAIN Waiting' = 1..(Len(queue') - index)
      /\ \A i \in 1..(Len(queue') - index) : Waiting'[i] = At(i)'
  <2>1. /\ DOMAIN Waiting' = 1..Len(Waiting') /\ Len(Waiting') = Len(queue') - index'
        /\ \A i \in 1..(Len(queue') - index') : Waiting'[i] = At(i)'
    BY <1>2, WaitingIsNext
  <2> QED
    BY <1>1, <2>1
<1>5. /\ DOMAIN Waiting = 1..(Len(queue) - index)
      /\ \A i \in 1..(Len(queue) - index) : Waiting[i] = At(i)
      /\ scan <= Len(queue) - index
  BY WaitingIs
<1>6. Len(queue') \in Nat /\ Len(queue) <= Len(queue')
  BY <1>1, <1>3, Types
<1>7. k \in Int
  BY <1>1, Types
<1>8. ASSUME NEW i \in DOMAIN Waiting'
      PROVE  \/ i = k /\ Waiting'[i] = task[t]
             \/ Waiting'[i] = None
             \/ i \in DOMAIN Waiting /\ Waiting'[i] = Waiting[i]
  <2>1. i \in 1..(Len(queue') - index) /\ i \in 1..Len(queue') /\ index + i \in 1..Len(queue')
        /\ i \in Nat /\ i # 0
    BY <1>4, <1>6, Types
  <2>2. Waiting'[i] = IF i <= scan THEN queue'[i]
                      ELSE IF flush = "move" /\ i = scan + 1 THEN slot ELSE queue'[index + i]
    BY <1>1, <1>4, <2>1 DEF At
  <2>3. CASE i <= scan
    <3>1. i \in 1..(Len(queue) - index) /\ i <= Len(queue)
      BY <1>5, <2>1, <2>3, Types
    <3>2. Waiting[i] = queue[i] /\ i \in DOMAIN Waiting
      BY <1>5, <2>3, <3>1 DEF At
    <3>3. Waiting'[i] = IF i = n THEN task[t] ELSE queue[i]
      BY <1>3, <2>1, <2>2, <2>3, <3>1
    <3> QED
      BY <2>3, <3>2, <3>3
  <2>4. CASE ~(i <= scan) /\ flush = "move" /\ i = scan + 1
    <3>1. scan < newLength /\ newLength + index <= Len(queue)
      BY <2>4 DEF TypeInv, CountInv, Compacting
    <3>2. i \in 1..(Len(queue) - index)
      BY <2>1, <2>4, <3>1, Types
    <3> QED
      BY <1>5, <2>2, <2>4, <3>2 DEF At
  <2>5. CASE ~(i <= scan) /\ ~(flush = "move" /\ i = scan + 1)
    <3>1. Waiting'[i] = IF index + i = n THEN task[t]
                        ELSE IF index + i <= Len(queue) THEN queue[index + i] ELSE None
      BY <1>3, <2>1, <2>2, <2>5
    <3>2. CASE index + i = n
      <4>1. ~(n <= scan) /\ i = n - index
        BY <1>1, <2>1, <2>5, <3>2, Types
      <4> QED
        BY <3>1, <3>2, <4>1
    <3>3. CASE index + i # n /\ index + i <= Len(queue)
      <4>1. i \in 1..(Len(queue) - index)
        BY <2>1, <3>3, Types
      <4>2. Waiting[i] = queue[index + i]
        BY <1>5, <2>5, <4>1 DEF At
      <4> QED
        BY <1>5, <3>1, <3>3, <4>1, <4>2
    <3> QED
      BY <3>1, <3>2, <3>3
  <2> QED
    BY <2>3, <2>4, <2>5
<1> QED
  BY <1>7, <1>8

\* One that finds the array as it was adds it behind what waits.
LEMMA AppendsWaiting ==
  ASSUME TypeInv, NEW t \in Actors, WritesSlot(t), length[t] = Len(queue),
         flush \notin Compacting
  PROVE  /\ Len(Waiting') = Len(Waiting) + 1 /\ Waiting'[Len(Waiting) + 1] = task[t]
         /\ \A i \in DOMAIN Waiting : Waiting'[i] = Waiting[i]
<1> DEFINE n == Len(queue) + 1
<1>1. /\ queue' = Written(n, task[t]) /\ UNCHANGED <<index, scan, flush, slot>>
      /\ n \in Nat /\ n # 0 /\ task[t] \in Slots /\ n > Len(queue) /\ scan = 0 /\ flush # "move"
  BY Types DEF WritesSlot, flushVars, TypeInv, TypeOK, Slots, CountInv, Compacting
<1>2. TypeInv'
  BY AsapGoesOnType DEF AsapGoesOn
<1>3. /\ Len(queue') = n
      /\ \A i \in 1..n : queue'[i] = IF i = n THEN task[t]
                                     ELSE IF i <= Len(queue) THEN queue[i] ELSE None
  <2> HIDE DEF n
  <2> QED
    BY <1>1, WrittenIs
<1>4. \A i \in 1..(n - index) : Waiting'[i] = queue'[index + i]
  <2>1. /\ Len(Waiting') = Len(queue') - index'
        /\ \A i \in 1..(Len(queue') - index') : Waiting'[i] = At(i)'
    BY <1>2, WaitingIsNext
  <2>2. \A i \in 1..(n - index) : ~(i <= 0)
    OBVIOUS
  <2> QED
    BY <1>1, <1>3, <2>1, <2>2 DEF At
<1>5. Len(Waiting') = n - index
  BY <1>1, <1>2, <1>3, WaitingIsNext
<1>6. \A i \in 1..(Len(queue) - index) : Waiting[i] = queue[index + i]
  <2>1. \A i \in 1..(Len(queue) - index) : ~(i <= 0)
    OBVIOUS
  <2> QED
    BY <1>1, <2>1, WaitingIs DEF At
<1>7. /\ Len(Waiting) = Len(queue) - index /\ DOMAIN Waiting = 1..(Len(queue) - index)
      /\ index <= Len(queue)
  BY WaitingIs, Types
<1>8. n - index = Len(Waiting) + 1 /\ index + (Len(Waiting) + 1) = n
  BY <1>7, Types
<1>9. Waiting'[Len(Waiting) + 1] = task[t]
  <2>1. Len(Waiting) + 1 \in 1..(n - index)
    BY <1>7, <1>8, Types
  <2> QED
    BY <1>1, <1>3, <1>4, <1>8, <2>1
<1>10. ASSUME NEW i \in DOMAIN Waiting PROVE Waiting'[i] = Waiting[i]
  <2>1. /\ i \in 1..(n - index) /\ index + i \in 1..n /\ index + i # n /\ index + i <= Len(queue)
    BY <1>7, Types
  <2> QED
    BY <1>3, <1>4, <1>6, <1>7, <2>1
<1> QED
  BY <1>5, <1>8, <1>9, <1>10

-----------------------------------------------------------------------------
(* No task is called twice *)

\* What a thread is still going to ask for, nobody has asked for.
TodoFresh ==
  /\ \A t \in Threads : \A i \in DOMAIN todo[t] :
       /\ ~In(asked, todo[t][i])
       /\ In(Work[t], todo[t][i])
  /\ \A t, u \in Threads : \A i \in DOMAIN todo[t], j \in DOMAIN todo[u] :
       todo[t][i] = todo[u][j] => t = u /\ i = j

\* A task that was asked for is in one place: in the hand of a thread, in a slot
\* that waits, or called.
Apart ==
  /\ \A t \in Actors : Busy(t) =>
       In(asked, task[t]) /\ ~In(called, task[t]) /\ ~In(Waiting, task[t])
  /\ \A t, u \in Actors : Busy(t) /\ Busy(u) /\ task[t] = task[u] => t = u
  /\ \A i \in DOMAIN Waiting : Waiting[i] # None =>
       In(asked, Waiting[i]) /\ ~In(called, Waiting[i])
  /\ \A i, j \in DOMAIN Waiting : Waiting[i] = Waiting[j] /\ Waiting[i] # None => i = j
  /\ \A x : In(called, x) => In(asked, x)
  /\ \A i, j \in DOMAIN called : called[i] = called[j] => i = j

OnceInv == TodoFresh /\ (~torn => Apart)

LEMMA InitOnce == Init => OnceInv
<1> SUFFICES ASSUME Init PROVE OnceInv
  OBVIOUS
<1>1. /\ todo = [t \in Threads |-> Work[t]] /\ pc = [t \in Actors |-> "idle"]
      /\ queue = <<>> /\ index = 0 /\ asked = <<>> /\ called = <<>>
  BY DEF Init
<1>2. \A y : ~In(asked, y) /\ ~In(called, y)
  BY <1>1 DEF In
<1>3. TodoFresh
  <2>1. \A t \in Threads : todo[t] = Work[t]
    BY <1>1
  <2>2. \A t \in Threads : \A i \in DOMAIN todo[t] : In(Work[t], todo[t][i])
    BY <2>1 DEF In
  <2> QED
    BY <1>2, <2>1, <2>2, WorkAssumption DEF TodoFresh
<1>4. DOMAIN Waiting = {}
  <2>1. DOMAIN Waiting = 1..(Len(queue) - index)
    BY InitType, WaitingIs
  <2> QED
    BY <1>1, <2>1
<1>5. Apart
  BY <1>1, <1>2, <1>4 DEF Apart, Busy
<1> QED
  BY <1>3, <1>5 DEF OnceInv

\* A step that asks for nothing and calls nothing, after which no more waits.
LEMMA QuietApart ==
  ASSUME Apart, UNCHANGED <<task, asked, called>>,
         \A t \in Actors : Busy(t)' => Busy(t),
         \A i \in DOMAIN Waiting' : i \in DOMAIN Waiting /\ Waiting'[i] = Waiting[i]
  PROVE  Apart'
<1>1. \A y : In(Waiting, y)' => In(Waiting, y)
  BY DEF In
<1>2. \A y : (In(asked, y)' <=> In(asked, y)) /\ (In(called, y)' <=> In(called, y))
  BY DEF In
<1>3. \A t \in Actors : Busy(t)' => /\ In(asked, task[t])'
                                    /\ ~In(called, task[t])' /\ ~In(Waiting, task[t])'
  BY <1>1, <1>2 DEF Apart, In
<1>4. \A t, u \in Actors : Busy(t)' /\ Busy(u)' /\ task'[t] = task'[u] => t = u
  BY DEF Apart
<1>5. \A i \in DOMAIN Waiting' : Waiting'[i] # None =>
        In(asked, Waiting[i])' /\ ~In(called, Waiting[i])'
  BY DEF Apart, In
<1> QED
  BY <1>2, <1>3, <1>4, <1>5 DEF Apart

\* A thread asks for a task that nobody has asked for.
LEMMA AsapApart ==
  ASSUME TypeInv, Apart, NEW t \in Actors, NEW x \in Tasks, Asap(t, x),
         ~In(asked, x), Waiting' = Waiting, called' = called
  PROVE  Apart'
<1>1. \A y : In(asked', y) <=> In(asked, y) \/ y = x
  <2>1. asked' = Append(asked, x) /\ asked \in Seq(Tasks)
    BY DEF Asap, TypeInv, TypeOK
  <2> QED
    BY <2>1, AppendAdds
<1>2. \A u \in Actors : /\ task'[u] = IF u = t THEN x ELSE task[u]
                        /\ u # t => (Busy(u)' <=> Busy(u))
  BY DEF Asap, Goes, Busy, TypeInv, TypeOK
<1>3. ~In(called, x) /\ ~In(Waiting, x)
  <2>1. x # None
    BY WorkAssumption
  <2> QED
    BY <2>1 DEF Apart, In
<1>4. \A u \in Actors : Busy(u) => task[u] # x
  BY DEF Apart
<1>5. \A u \in Actors : Busy(u)' => /\ In(asked', task'[u])
                                    /\ ~In(called', task'[u]) /\ ~In(Waiting', task'[u])
  BY <1>1, <1>2, <1>3 DEF Apart
<1>6. \A u, v \in Actors : Busy(u)' /\ Busy(v)' /\ task'[u] = task'[v] => u = v
  BY <1>2, <1>4 DEF Apart
<1>7. \A i \in DOMAIN Waiting' : Waiting'[i] # None =>
        In(asked', Waiting'[i]) /\ ~In(called', Waiting'[i])
  BY <1>1 DEF Apart
<1>8. \A y : In(called', y) => In(asked', y)
  BY <1>1 DEF Apart
<1> QED
  BY <1>5, <1>6, <1>7, <1>8 DEF Apart

\* A script thread asks for the next of its tasks: it was not asked for, and it
\* is no task that another one asks for.
LEMMA ScriptAsksOnce ==
  ASSUME TypeInv, OnceInv, NEW t \in Threads, ScriptAsks(t)
  PROVE  OnceInv'
<1> DEFINE x == Head(todo[t])
<1>1. /\ todo[t] \in Seq(Tasks) /\ todo[t] # <<>> /\ t \in Actors
      /\ Asap(t, x) /\ todo' = [todo EXCEPT ![t] = Tail(todo[t])]
      /\ UNCHANGED <<queue, index, scan, flush, slot, called, torn>>
  BY DEF ScriptAsks, Asap, TypeInv, TypeOK, Actors, flushVars
<1>2. /\ 1 \in DOMAIN todo[t] /\ x = todo[t][1] /\ x \in Tasks
      /\ \A i \in DOMAIN Tail(todo[t]) :
           i + 1 \in DOMAIN todo[t] /\ i + 1 # 1 /\ Tail(todo[t])[i] = todo[t][i + 1]
           /\ i \in Nat
  BY <1>1, TailShifts
<1>3. ~In(asked, x) /\ In(Work[t], x)
  BY <1>2 DEF OnceInv, TodoFresh
<1> HIDE DEF x
<1>4. \A y : In(asked', y) <=> In(asked, y) \/ y = x
  <2>1. asked' = Append(asked, x) /\ asked \in Seq(Tasks)
    BY <1>1 DEF Asap, TypeInv, TypeOK
  <2> QED
    BY <1>2, <2>1, AppendAdds
<1>5. TodoFresh'
  <2>1. \A u \in Threads : todo'[u] = IF u = t THEN Tail(todo[t]) ELSE todo[u]
    BY <1>1 DEF TypeInv, TypeOK
  <2>2. \A u \in Threads : \A i \in DOMAIN todo'[u] :
          \E k \in DOMAIN todo[u] :
            /\ todo'[u][i] = todo[u][k]
            /\ k = IF u = t THEN i + 1 ELSE i
            /\ (u = t => k # 1)
    BY <1>2, <2>1
  <2>3. \A u \in Threads : \A i \in DOMAIN todo'[u] :
          todo'[u][i] # x /\ ~In(asked, todo'[u][i]) /\ In(Work[u], todo'[u][i])
    BY <1>2, <2>2 DEF OnceInv, TodoFresh
  <2>4. \A u, v \in Threads : \A i \in DOMAIN todo'[u], j \in DOMAIN todo'[v] :
          todo'[u][i] = todo'[v][j] => u = v /\ i = j
    <3> SUFFICES ASSUME NEW u \in Threads, NEW v \in Threads, NEW i \in DOMAIN todo'[u],
                        NEW j \in DOMAIN todo'[v], todo'[u][i] = todo'[v][j]
                 PROVE  u = v /\ i = j
      OBVIOUS
    <3>1. PICK k \in DOMAIN todo[u] : todo'[u][i] = todo[u][k] /\ k = IF u = t THEN i + 1 ELSE i
      BY <2>2
    <3>2. PICK m \in DOMAIN todo[v] : todo'[v][j] = todo[v][m] /\ m = IF v = t THEN j + 1 ELSE j
      BY <2>2
    <3>3. u = v /\ k = m
      <4>1. \A v1, v2 \in Threads : \A n1 \in DOMAIN todo[v1], n2 \in DOMAIN todo[v2] :
              todo[v1][n1] = todo[v2][n2] => v1 = v2 /\ n1 = n2
        BY DEF OnceInv, TodoFresh
      <4>2. todo[u][k] = todo[v][m]
        BY <3>1, <3>2
      <4> QED
        BY <4>1, <4>2
    <3>4. u = t => i \in Nat /\ j \in Nat
      BY <1>2, <2>1, <3>3
    <3> QED
      BY <3>1, <3>2, <3>3, <3>4
  <2> QED
    BY <1>4, <2>3, <2>4 DEF TodoFresh
<1>6. ~torn' => Apart'
  <2>1. Waiting' = Waiting
    BY <1>1, WaitingStays
  <2> QED
    BY <1>1, <1>2, <1>3, <2>1, AsapApart DEF OnceInv
<1> QED
  BY <1>5, <1>6 DEF OnceInv

\* A running task asks for one that nobody asks for but it.
LEMMA TaskAsksOnce ==
  ASSUME TypeInv, OnceInv, TaskAsks
  PROVE  OnceInv'
<1>1. PICK x \in AskedBy(Last(called)) : Asap(Timer, x)
  BY DEF TaskAsks
<1>2. /\ flush = "asks" /\ flush' = "returns"
      /\ UNCHANGED <<todo, queue, index, scan, slot, called, torn>>
  BY DEF TaskAsks, FlushGoes, Asap
<1>3. PICK pair \in Follows : x = pair[2]
  BY DEF AskedBy
<1>4. x \in Tasks /\ ~In(asked, x)
  BY InIsToSet DEF AskedBy, Tasks
<1>5. \A y : In(asked', y) <=> In(asked, y) \/ y = x
  <2>1. asked' = Append(asked, x) /\ asked \in Seq(Tasks)
    BY <1>1 DEF Asap, TypeInv, TypeOK
  <2> QED
    BY <1>4, <2>1, AppendAdds
<1>6. TodoFresh'
  <2>1. \A t \in Threads : \A i \in DOMAIN todo[t] : todo[t][i] # x
    BY <1>3, FollowsAssumption DEF OnceInv, TodoFresh, In
  <2> QED
    BY <1>2, <1>5, <2>1 DEF OnceInv, TodoFresh
<1>7. ~torn' => Apart'
  <2>1. Waiting' = Waiting
    BY <1>2, WaitingStays
  <2> QED
    BY <1>1, <1>2, <1>4, <2>1, AsapApart, Types DEF OnceInv
<1> QED
  BY <1>6, <1>7 DEF OnceInv

\* A thread that writes a slot puts its task where it waits, or loses that of
\* another thread.
LEMMA WritesApart ==
  ASSUME TypeInv, Apart, NEW t \in Actors, WritesSlot(t)
  PROVE  Apart'
<1>1. /\ UNCHANGED <<task, asked, called>> /\ Busy(t)
      /\ \A u \in Actors : Busy(u)' <=> Busy(u) /\ u # t
  BY DEF WritesSlot, flushVars, Goes, Busy, TypeInv, TypeOK
<1>2. PICK k \in Int : \A i \in DOMAIN Waiting' :
        \/ i = k /\ Waiting'[i] = task[t]
        \/ Waiting'[i] = None
        \/ i \in DOMAIN Waiting /\ Waiting'[i] = Waiting[i]
  BY WritesWaiting
<1>3. \A y : In(Waiting', y) => In(Waiting, y) \/ y = task[t] \/ y = None
  BY <1>2 DEF In
<1>4. \A u \in Actors : Busy(u)' =>
        In(asked', task'[u]) /\ ~In(called', task'[u]) /\ ~In(Waiting', task'[u])
  <2> SUFFICES ASSUME NEW u \in Actors, Busy(u)'
               PROVE  In(asked', task'[u]) /\ ~In(called', task'[u]) /\ ~In(Waiting', task'[u])
    OBVIOUS
  <2>1. Busy(u) /\ task[u] # task[t]
    BY <1>1 DEF Apart
  <2>2. task[u] # None
    BY <2>1, WorkAssumption DEF TypeInv, TaskInv
  <2> QED
    BY <1>1, <1>3, <2>1, <2>2 DEF Apart
<1>5. \A u, v \in Actors : Busy(u)' /\ Busy(v)' /\ task'[u] = task'[v] => u = v
  BY <1>1 DEF Apart
<1>6. \A i \in DOMAIN Waiting' : Waiting'[i] # None =>
        In(asked', Waiting'[i]) /\ ~In(called', Waiting'[i])
  BY <1>1, <1>2 DEF Apart
<1>7. \A i, j \in DOMAIN Waiting' : Waiting'[i] = Waiting'[j] /\ Waiting'[i] # None => i = j
  <2>1. ~In(Waiting, task[t])
    BY <1>1 DEF Apart
  <2>2. \A i \in DOMAIN Waiting : Waiting[i] # task[t]
    BY <2>1 DEF In
  <2> QED
    BY <1>2, <2>2 DEF Apart
<1>8. \A y : In(called', y) => In(asked', y)
  BY <1>1 DEF Apart
<1> QED
  BY <1>1, <1>4, <1>5, <1>6, <1>7, <1>8 DEF Apart

\* The first that waits is called: it waits no more.
LEMMA CallsApart ==
  ASSUME TypeInv, Apart, CallsSlot
  PROVE  Apart'
<1> DEFINE x == Waiting[1]
<1>1. /\ 1 \in DOMAIN Waiting /\ queue[index + 1] = x
      /\ \A i \in DOMAIN Waiting' : i + 1 \in DOMAIN Waiting /\ Waiting'[i] = Waiting[i + 1]
  BY CallsWaiting
<1>2. /\ UNCHANGED <<pc, task, asked>>
      /\ (x = None /\ called' = called) \/ (x # None /\ called' = Append(called, x))
      /\ \A u \in Actors : Busy(u)' <=> Busy(u)
  BY <1>1 DEF CallsSlot, asapVars, Busy
<1>3. /\ x \in Slots
      /\ \A i \in DOMAIN Waiting' : i \in Nat /\ i # 0 /\ i + 1 # 1
  <2>1. Waiting \in Seq(Slots)
    BY WaitingIs
  <2>2. DOMAIN Waiting' = 1..Len(Waiting') /\ Len(Waiting') \in Nat
    BY CallsSlotType, WaitingIsNext
  <2> QED
    BY <1>1, <2>1, <2>2
<1> HIDE DEF x
<1>4. \A i \in DOMAIN Waiting' : \E k \in DOMAIN Waiting :
        k = i + 1 /\ k # 1 /\ Waiting'[i] = Waiting[k]
  BY <1>1, <1>3
<1>5. \A i \in DOMAIN Waiting' : Waiting'[i] # None =>
        In(asked, Waiting'[i]) /\ ~In(called, Waiting'[i]) /\ Waiting'[i] # x
  BY <1>1, <1>4 DEF Apart, x
<1>6. \A i, j \in DOMAIN Waiting' : Waiting'[i] = Waiting'[j] /\ Waiting'[i] # None => i = j
  <2> SUFFICES ASSUME NEW i \in DOMAIN Waiting', NEW j \in DOMAIN Waiting',
                      Waiting'[i] = Waiting'[j], Waiting'[i] # None
               PROVE  i = j
    OBVIOUS
  <2>1. i + 1 = j + 1
    BY <1>4 DEF Apart
  <2> QED
    BY <1>3, <2>1
<1>7. \A y : In(Waiting', y) => In(Waiting, y)
  BY <1>4 DEF In
<1>8. CASE x = None
  BY <1>2, <1>5, <1>6, <1>7, <1>8 DEF Apart
<1>9. CASE x # None
  <2>1. x \in Tasks /\ In(Waiting, x) /\ In(asked, x) /\ ~In(called, x)
    BY <1>1, <1>3, <1>9 DEF Slots, Apart, In, x
  <2>2. /\ \A y : In(called', y) <=> In(called, y) \/ y = x
        /\ DOMAIN called' = DOMAIN called \cup {Len(called) + 1} /\ called'[Len(called) + 1] = x
        /\ \A i \in DOMAIN called : called'[i] = called[i]
    <3>1. called' = Append(called, x) /\ called \in Seq(Tasks)
      BY <1>2, <1>9, Types
    <3>2. DOMAIN called' = 1..Len(called') /\ Len(called') = Len(called) + 1
      BY <2>1, <3>1
    <3> QED
      BY <2>1, <3>1, <3>2, AppendAdds
  <2>3. \A i \in DOMAIN called : called[i] # x
    BY <2>1 DEF In
  <2>4. \A i, j \in DOMAIN called' : called'[i] = called'[j] => i = j
    BY <2>2, <2>3 DEF Apart
  <2>5. \A u \in Actors : Busy(u)' =>
          In(asked', task'[u]) /\ ~In(called', task'[u]) /\ ~In(Waiting', task'[u])
    BY <1>2, <1>7, <2>1, <2>2 DEF Apart
  <2>6. \A i \in DOMAIN Waiting' : Waiting'[i] # None =>
          In(asked', Waiting'[i]) /\ ~In(called', Waiting'[i])
    BY <1>2, <1>5, <2>2
  <2>7. \A y : In(called', y) => In(asked', y)
    BY <1>2, <2>1, <2>2 DEF Apart
  <2> QED
    BY <1>2, <1>6, <2>4, <2>5, <2>6, <2>7 DEF Apart
<1> QED
  BY <1>8, <1>9

LEMMA NextOnce ==
  ASSUME TypeInv, OnceInv, [Next]_vars
  PROVE  OnceInv'
<1>1. CASE \E t \in Threads : ScriptAsks(t)
  BY <1>1, ScriptAsksOnce
<1>2. CASE TaskAsks
  BY <1>2, TaskAsksOnce
<1>3. CASE ~TaskAsks /\ ~(\E t \in Threads : ScriptAsks(t))
  <2>1. UNCHANGED <<todo, asked, task>>
    BY <1>3 DEF Next, vars, FlushGoesOn, AsapGoesOn, RequestsFlush, ReadsLength, WritesSlot,
                HandleTimer, LoopTest, CallsSlot, CallThrows, CallReturns, ReadsSlot, MovesSlot,
                ScanEnds, Shortens, Cuts, Empties, asapVars, flushVars
  <2>2. TodoFresh'
    BY <2>1 DEF OnceInv, TodoFresh
  <2>3. ~torn' => ~torn
    BY <1>3 DEF Next, vars, FlushGoesOn, AsapGoesOn, RequestsFlush, ReadsLength, WritesSlot,
                HandleTimer, LoopTest, CallsSlot, CallThrows, CallReturns, ReadsSlot, MovesSlot,
                ScanEnds, Shortens, Cuts, Empties, asapVars, flushVars
  <2>4. ASSUME Apart, ~torn, NEW t \in Actors, AsapGoesOn(t)
        PROVE  Apart'
    <3>1. CASE RequestsFlush(t) \/ ReadsLength(t)
      <4>1. /\ UNCHANGED <<queue, index, scan, flush, slot, called>>
            /\ \A u \in Actors : Busy(u)' => Busy(u)
        BY <3>1 DEF RequestsFlush, ReadsLength, flushVars, Goes, Busy, TypeInv, TypeOK
      <4>2. Waiting' = Waiting
        BY <4>1, WaitingStays
      <4> QED
        BY <2>1, <2>4, <4>1, <4>2, QuietApart
    <3>2. CASE WritesSlot(t)
      BY <2>4, <3>2, WritesApart
    <3> QED
      BY <2>4, <3>1, <3>2 DEF AsapGoesOn
  <2>5. ASSUME Apart, ~torn,
               HandleTimer \/ LoopTest \/ CallThrows \/ CallReturns \/ ReadsSlot \/ MovesSlot
                 \/ ScanEnds \/ Shortens
        PROVE  Apart'
    <3>1. called' = called /\ pc' = pc
      BY <2>5 DEF HandleTimer, LoopTest, CallThrows, CallReturns, ReadsSlot, MovesSlot, ScanEnds,
                  Shortens, asapVars
    <3>2. Waiting' = Waiting
      BY <2>5, FlushWaiting
    <3> QED
      BY <2>1, <2>5, <3>1, <3>2, QuietApart DEF Busy
  <2>6. ASSUME Apart, ~torn, Cuts \/ Empties
        PROVE  Apart'
    <3>1. called' = called /\ pc' = pc
      BY <2>6 DEF Cuts, Empties, asapVars
    <3>2. \A i \in DOMAIN Waiting' : i \in DOMAIN Waiting /\ Waiting'[i] = Waiting[i]
      <4>1. Cuts => scan = newLength
        BY <2>6 DEF Cuts, FlushGoes, TypeInv, CountInv
      <4> QED
        BY <2>6, <4>1, CutsWaiting, EmptiesWaiting
    <3> QED
      BY <2>1, <2>6, <3>1, <3>2, QuietApart DEF Busy
  <2>7. ASSUME Apart, UNCHANGED vars
        PROVE  Apart'
    <3>1. UNCHANGED <<queue, index, scan, flush, slot, called, pc>>
      BY <2>7 DEF vars
    <3>2. Waiting' = Waiting
      BY <3>1, WaitingStays
    <3> QED
      BY <2>1, <2>7, <3>1, <3>2, QuietApart DEF Busy
  <2>8. ~torn' => Apart'
    BY <1>3, <2>3, <2>4, <2>5, <2>6, <2>7, CallsApart, Types DEF OnceInv, Next, FlushGoesOn
  <2> QED
    BY <2>2, <2>8 DEF OnceInv
<1> QED
  BY <1>1, <1>2, <1>3

\* However the threads mix, for any tasks and any capacity, no handler is called
\* twice, unless the array grows while the flush moves its slots.
THEOREM CalledOnce == Spec => []CalledAtMostOnce
<1>1. Init => TypeInv /\ OnceInv
  BY InitType, InitOnce
<1>2. TypeInv /\ OnceInv /\ [Next]_vars => (TypeInv /\ OnceInv)'
  BY NextType, NextOnce
<1>3. OnceInv => CalledAtMostOnce
  BY DEF OnceInv, Apart, CalledAtMostOnce
<1> QED
  BY <1>1, <1>2, <1>3, PTL DEF Spec

-----------------------------------------------------------------------------
(* The tasks are called in order *)

\* Nobody works on the queue but one thread, which finds what it read there.
Alone ==
  /\ \A t, u \in Inside : t = u
  /\ \A t \in Actors : pc[t] = "write" => length[t] = Len(queue)
  /\ flush \in Compacting => newLength = Len(queue) - index
  /\ flush = "cut" => scan = newLength
  /\ flush = "left" => index = Len(queue)

InHand == IF \E t \in Actors : Busy(t) THEN 1 ELSE 0

\* What was asked for is what was called, then what waits, then what the one
\* thread has in hand.
InOrder ==
  /\ Len(asked) = Len(called) + Len(Waiting) + InHand
  /\ \A i \in DOMAIN called : called[i] = asked[i]
  /\ \A i \in DOMAIN Waiting : Waiting[i] = asked[Len(called) + i]
  /\ \A t \in Actors : Busy(t) => task[t] = asked[Len(asked)]

OrderInv == ~overlapped => Alone /\ InOrder

LEMMA InitOrder == Init => OrderInv
<1> SUFFICES ASSUME Init PROVE OrderInv
  OBVIOUS
<1>1. /\ pc = [t \in Actors |-> "idle"] /\ queue = <<>> /\ asked = <<>> /\ called = <<>>
      /\ index = 0 /\ flush = "idle"
  BY DEF Init
<1>2. Inside = {} /\ \A t \in Actors : ~Busy(t) /\ pc[t] = "idle"
  BY <1>1 DEF Inside, Busy, Compacting
<1>3. Alone
  BY <1>1, <1>2 DEF Alone, Compacting
<1>4. Len(Waiting) = 0 /\ DOMAIN Waiting = {}
  <2>1. Len(Waiting) = Len(queue) - index /\ DOMAIN Waiting = 1..Len(Waiting)
    BY InitType, WaitingIs
  <2> QED
    BY <1>1, <2>1
<1>5. InOrder
  BY <1>1, <1>2, <1>4 DEF InOrder, InHand
<1> QED
  BY <1>3, <1>5 DEF OrderInv

\* A thread that enters while no threads mix is the only one that is inside.
LEMMA OnlyOne ==
  ASSUME OrderInv, NEW t \in Actors, Enters(t), ~overlapped'
  PROVE  /\ ~overlapped /\ Alone /\ InOrder
         /\ \A u \in Actors : Busy(u) => u = t
         /\ flush \in Compacting \cup {"left"} => t = Timer
<1>1. ~overlapped /\ Inside \ {t} = {}
  BY DEF Enters
<1>2. \A u \in Inside : u = t
  BY <1>1
<1> QED
  BY <1>1, <1>2 DEF OrderInv, Inside, Busy

\* A thread that is inside is the only one.
LEMMA OnlyInside ==
  ASSUME TypeInv, Alone, NEW t \in Actors, Busy(t)
  PROVE  /\ \A u \in Actors : Busy(u) => u = t
         /\ flush \notin Compacting \cup {"left"}
<1>1. \A u \in Actors : Busy(u) => u = t
  BY DEF Alone, Inside, Busy
<1>2. ASSUME flush \in Compacting \cup {"left"}
      PROVE  FALSE
  <2>1. t = Timer
    BY <1>2 DEF Alone, Inside, Busy
  <2>2. flush = "returns"
    BY <2>1 DEF TypeInv, TaskInv
  <2> QED
    BY <1>2, <2>2 DEF Compacting
<1> QED
  BY <1>1, <1>2

\* While the flush moves slots, or is about to empty the array, no thread is in
\* rawAsap.
LEMMA NobodyBusy ==
  ASSUME TypeInv, Alone, flush \in Compacting \cup {"left"}
  PROVE  \A t \in Actors : ~Busy(t)
BY OnlyInside

\* A step that changes nothing the order is about.
LEMMA QuietOrder ==
  ASSUME InOrder, UNCHANGED <<task, asked, called>>, Waiting' = Waiting,
         \A t \in Actors : Busy(t)' <=> Busy(t)
  PROVE  InOrder'
<1>1. InHand' = InHand
  BY DEF InHand
<1> QED
  BY <1>1 DEF InOrder

\* A thread that asks has the last one in hand.
LEMMA AsapOrder ==
  ASSUME TypeInv, OrderInv, NEW t \in Actors, NEW x \in Tasks, Asap(t, x), ~overlapped',
         UNCHANGED <<index, scan, slot, called>>,
         (t # Timer /\ flush' = flush) \/ (flush = "asks" /\ flush' = "returns")
  PROVE  Alone' /\ InOrder'
<1>1. /\ ~overlapped /\ Alone /\ InOrder
      /\ \A u \in Actors : Busy(u) => u = t
      /\ flush \in Compacting \cup {"left"} => t = Timer
  BY OnlyOne DEF Asap
<1>2. /\ pc[t] = "idle" /\ pc'[t] \in {"request", "length"}
      /\ \A u \in Actors : u # t => pc'[u] = pc[u]
      /\ task'[t] = x
      /\ UNCHANGED <<queue, length>> /\ asked' = Append(asked, x)
  BY DEF Asap, Goes, TypeInv, TypeOK
<1>3. \A u \in Actors : ~Busy(u) /\ pc[u] = "idle"
  BY <1>1, <1>2 DEF Busy
<1>4. \A u \in Actors : Busy(u)' <=> u = t
  BY <1>2, <1>3 DEF Busy
<1>5. Waiting' = Waiting
  BY <1>2, WaitingStays
<1>7. flush' \notin Compacting \cup {"left"}
  BY <1>1, TimerAssumption DEF Compacting
<1>8. Alone'
  <2>1. \A u \in Inside' : u = t
    BY <1>4, <1>7 DEF Inside, Busy
  <2>2. \A u \in Actors : pc'[u] # "write"
    BY <1>2, <1>3
  <2>3. flush' # "cut"
    BY <1>7 DEF Compacting
  <2> QED
    BY <1>7, <2>1, <2>2, <2>3 DEF Alone
<1>9. /\ Len(asked') = Len(asked) + 1 /\ asked'[Len(asked) + 1] = x
      /\ \A i \in DOMAIN asked : asked'[i] = asked[i]
  BY <1>2, Types
<1>10. InHand = 0 /\ InHand' = 1
  BY <1>3, <1>4 DEF InHand
<1>11. InOrder'
  <2>1. Len(asked) = Len(called) + Len(Waiting) /\ Len(Waiting) \in Nat
        /\ DOMAIN Waiting = 1..Len(Waiting)
    BY <1>1, <1>10, Types, WaitingIs DEF InOrder
  <2>2. \A i \in DOMAIN called : i \in DOMAIN asked
    BY <2>1, Types
  <2>3. \A i \in DOMAIN Waiting : Len(called) + i \in DOMAIN asked
    BY <2>1, Types
  <2>4. Len(asked') = Len(called') + Len(Waiting') + InHand'
    BY <1>5, <1>9, <1>10, <2>1, Types
  <2>5. \A i \in DOMAIN called' : called'[i] = asked'[i]
    BY <1>1, <1>9, <2>2 DEF InOrder
  <2>6. \A i \in DOMAIN Waiting' : Waiting'[i] = asked'[Len(called') + i]
    BY <1>1, <1>5, <1>9, <2>3 DEF InOrder
  <2>7. \A u \in Actors : Busy(u)' => task'[u] = asked'[Len(asked')]
    BY <1>2, <1>4, <1>9
  <2> QED
    BY <2>4, <2>5, <2>6, <2>7 DEF InOrder
<1> QED
  BY <1>8, <1>11

\* It goes on, and then its task is the last that waits.
LEMMA AsapGoesOnOrder ==
  ASSUME TypeInv, Alone, InOrder, NEW t \in Actors, AsapGoesOn(t)
  PROVE  Alone' /\ InOrder'
<1>1. Busy(t) /\ UNCHANGED <<index, flush, scan, slot, newLength, task, asked, called>>
  BY DEF AsapGoesOn, RequestsFlush, ReadsLength, WritesSlot, Busy, flushVars
<1>2. /\ \A u \in Actors : Busy(u) => u = t
      /\ flush \notin Compacting \cup {"left"} /\ flush' \notin Compacting \cup {"left"}
  BY <1>1, OnlyInside
<1>3. flush' # "cut" /\ flush # "move" /\ flush' # "move"
  BY <1>2 DEF Compacting
<1>4. \A u \in Actors : u # t => pc[u] = "idle" /\ pc'[u] = "idle"
  BY <1>2 DEF AsapGoesOn, RequestsFlush, ReadsLength, WritesSlot, Busy, Goes, TypeInv, TypeOK
<1>5. \A u \in Inside' : u = t
  BY <1>2, <1>4 DEF Inside
<1>6. CASE RequestsFlush(t) \/ ReadsLength(t)
  <2>1. /\ queue' = queue
        /\ pc'[t] # "idle" /\ (pc'[t] = "write" => length'[t] = Len(queue))
    BY <1>6 DEF RequestsFlush, ReadsLength, Goes, TypeInv, TypeOK
  <2>2. Alone'
    BY <1>2, <1>3, <1>4, <1>5, <2>1 DEF Alone
  <2>3. Waiting' = Waiting
    BY <1>1, <1>3, <2>1, WaitingStays
  <2>4. \A u \in Actors : Busy(u)' <=> Busy(u)
    BY <1>1, <1>4, <2>1 DEF Busy
  <2> QED
    BY <1>1, <2>2, <2>3, <2>4, QuietOrder
<1>7. CASE WritesSlot(t)
  <2>1. pc[t] = "write" /\ pc'[t] = "idle"
    BY <1>7 DEF WritesSlot, Goes, TypeInv, TypeOK
  <2>2. /\ Len(Waiting') = Len(Waiting) + 1 /\ Waiting'[Len(Waiting) + 1] = task[t]
        /\ \A i \in DOMAIN Waiting : Waiting'[i] = Waiting[i]
    <3>1. length[t] = Len(queue) /\ flush \notin Compacting
      BY <1>2, <2>1 DEF Alone
    <3> QED
      BY <1>7, <3>1, AppendsWaiting
  <2>3. Alone'
    BY <1>2, <1>3, <1>4, <1>5, <2>1 DEF Alone
  <2>4. InHand = 1 /\ InHand' = 0 /\ \A u \in Actors : ~Busy(u)'
    BY <1>1, <1>4, <2>1 DEF InHand, Busy
  <2>5. /\ Len(Waiting) \in Nat /\ DOMAIN Waiting = 1..Len(Waiting)
        /\ DOMAIN Waiting' = 1..Len(Waiting')
    BY AsapGoesOnType, WaitingIs, WaitingIsNext
  <2>6. /\ Len(asked) = Len(called) + Len(Waiting) + 1
        /\ task[t] = asked[Len(asked)]
    BY <1>1, <2>4 DEF InOrder
  <2>7. Len(asked) = Len(called) + (Len(Waiting) + 1)
        /\ Len(asked) = Len(called) + (Len(Waiting) + 1) + 0
    BY <2>5, <2>6, Types
  <2>8. \A i \in DOMAIN Waiting' : i \in DOMAIN Waiting \/ i = Len(Waiting) + 1
    BY <2>2, <2>5
  <2>9. \A i \in DOMAIN Waiting' : Waiting'[i] = asked[Len(called) + i]
    BY <2>2, <2>6, <2>7, <2>8 DEF InOrder
  <2>10. \A i \in DOMAIN called' : called'[i] = asked'[i]
    BY <1>1 DEF InOrder
  <2>11. InOrder'
    BY <1>1, <2>2, <2>4, <2>7, <2>9, <2>10 DEF InOrder
  <2> QED
    BY <2>3, <2>11
<1> QED
  BY <1>6, <1>7 DEF AsapGoesOn

\* The first that waits is the next that was asked for.
LEMMA CallsSlotOrder ==
  ASSUME TypeInv, Alone, InOrder, CallsSlot
  PROVE  Alone' /\ InOrder'
<1>1. /\ UNCHANGED <<pc, task, length, asked, queue, scan, newLength>>
      /\ flush = "call" /\ flush' \in {"idle", "asks", "returns"}
  BY DEF CallsSlot, asapVars
<1>2. Alone'
  <2>1. Inside' = {t \in Actors : pc[t] # "idle"} /\ Inside' \subseteq Inside
    BY <1>1 DEF Inside, Compacting
  <2> QED
    BY <1>1, <2>1 DEF Alone, Compacting
<1>3. /\ 1 \in DOMAIN Waiting /\ queue[index + 1] = Waiting[1]
      /\ Len(Waiting') = Len(Waiting) - 1
      /\ \A i \in DOMAIN Waiting' : i + 1 \in DOMAIN Waiting /\ Waiting'[i] = Waiting[i + 1]
  BY CallsWaiting
<1>4. /\ Len(Waiting) \in Nat /\ DOMAIN Waiting = 1..Len(Waiting)
      /\ Len(Waiting') \in Nat /\ DOMAIN Waiting' = 1..Len(Waiting')
  BY CallsSlotType, WaitingIs, WaitingIsNext
<1>5. /\ \A t \in Actors : Busy(t)' <=> Busy(t)
      /\ InHand' = InHand /\ InHand \in {0, 1}
  BY <1>1 DEF InHand, Busy
<1>6. Waiting[1] = asked[Len(called) + 1] /\ Len(called) + 1 \in DOMAIN asked
  <2>1. Len(asked) = Len(called) + Len(Waiting) + InHand /\ Len(Waiting) >= 1
    BY <1>3, <1>4 DEF InOrder
  <2>2. Len(called) + 1 \in 1..Len(asked)
    BY <1>4, <1>5, <2>1, Types
  <2> QED
    BY <1>3, <2>2, Types DEF InOrder
<1>7. Waiting[1] \in Tasks /\ Waiting[1] # None
  BY <1>6, WorkAssumption, Types
<1>8. called' = Append(called, Waiting[1])
  BY <1>3, <1>7 DEF CallsSlot
<1>9. /\ Len(called') = Len(called) + 1 /\ called'[Len(called) + 1] = Waiting[1]
      /\ DOMAIN called' = 1..(Len(called) + 1)
      /\ \A i \in 1..Len(called) : called'[i] = called[i]
  <2>1. called \in Seq(Tasks)
    BY Types
  <2> QED
    BY <1>7, <1>8, <2>1
<1>10. \A i \in DOMAIN called' : called'[i] = asked[i]
  <2>1. \A i \in DOMAIN called' : i \in DOMAIN called \/ i = Len(called) + 1
    BY <1>9, Types
  <2> QED
    BY <1>6, <1>9, <2>1, Types DEF InOrder
<1>11. \A i \in DOMAIN Waiting' : Waiting'[i] = asked[(Len(called) + 1) + i]
  <2>1. \A i \in DOMAIN Waiting' : Len(called) + (i + 1) = (Len(called) + 1) + i
    BY <1>4, Types
  <2>2. \A i \in DOMAIN Waiting' : Waiting'[i] = asked[Len(called) + (i + 1)]
    BY <1>3 DEF InOrder
  <2> QED
    BY <2>1, <2>2
<1>12. Len(asked) = (Len(called) + 1) + (Len(Waiting) - 1) + InHand
  <2>1. Len(asked) = Len(called) + Len(Waiting) + InHand
    BY DEF InOrder
  <2> QED
    BY <1>4, <1>5, <2>1, Types
<1>13. \A t \in Actors : Busy(t)' => task'[t] = asked'[Len(asked')]
  BY <1>1, <1>5 DEF InOrder
<1>14. InOrder'
  BY <1>1, <1>3, <1>5, <1>9, <1>10, <1>11, <1>12, <1>13 DEF InOrder
<1> QED
  BY <1>2, <1>14

\* The flush enters, at its end or to move slots, while nobody is inside.
LEMMA FlushEnters ==
  ASSUME TypeInv, OrderInv, LoopTest \/ CallReturns, ~overlapped'
  PROVE  Alone' /\ InOrder'
<1>1. ~overlapped /\ Alone /\ InOrder
  <2>1. (overlapped' = overlapped) \/ Enters(Timer)
    BY DEF LoopTest, CallReturns
  <2>2. ~overlapped
    BY <2>1 DEF Enters
  <2> QED
    BY <2>2 DEF OrderInv
<1>2. /\ UNCHANGED <<pc, task, length, asked, called, queue, index, scan>>
      /\ flush \in {"loop", "returns"} /\ flush' \in {"call", "left", "loop", "scan"}
  BY DEF LoopTest, CallReturns, FlushGoes, asapVars
<1>3. InOrder'
  <2>1. Waiting' = Waiting
    BY FlushWaiting
  <2> QED
    BY <1>1, <1>2, <2>1, QuietOrder DEF Busy
<1>4. CASE flush' \in {"call", "loop"}
  <2>1. Inside' \subseteq Inside
    BY <1>2, <1>4 DEF Inside, Compacting
  <2> QED
    BY <1>1, <1>2, <1>3, <1>4, <2>1 DEF Alone, Compacting
<1>5. CASE flush' \in {"left", "scan"}
  <2>1. Enters(Timer) /\ (flush' = "left" => index >= Len(queue))
        /\ (flush' = "scan" => newLength' = Len(queue) - index)
    BY <1>2, <1>5 DEF LoopTest, CallReturns, FlushGoes
  <2>2. \A u \in Actors : Busy(u) => u = Timer
    BY <2>1, OnlyOne, Types
  <2>3. pc[Timer] = "idle"
    BY <1>2 DEF LoopTest, CallReturns, FlushGoes, TypeInv, TaskInv, Busy
  <2>4. \A u \in Actors : pc[u] = "idle"
    BY <2>2, <2>3 DEF Busy
  <2>5. \A u \in Inside' : u = Timer
    BY <1>2, <2>4 DEF Inside
  <2>6. flush' = "left" => index = Len(queue)
    BY <2>1, Types DEF TypeInv, CountInv
  <2>7. flush' # "cut"
    BY <1>5
  <2> QED
    BY <1>2, <1>3, <1>5, <2>1, <2>4, <2>5, <2>6, <2>7 DEF Alone, Compacting
<1> QED
  BY <1>2, <1>4, <1>5

\* The other steps of the flush: what waits stays as it is.
LEMMA FlushOrder ==
  ASSUME TypeInv, Alone, InOrder,
         HandleTimer \/ CallThrows \/ ReadsSlot \/ MovesSlot \/ ScanEnds \/ Shortens
  PROVE  Alone' /\ InOrder'
<1>1. /\ UNCHANGED <<pc, task, length, asked, called, index>>
      /\ flush' \in {"loop", "idle"} \cup (Compacting \ {"cut"}) \/ Shortens
      /\ flush' \in Compacting => flush \in Compacting
  BY DEF HandleTimer, CallThrows, ReadsSlot, MovesSlot, ScanEnds, Shortens, FlushGoes, asapVars,
         Compacting
<1>2. Waiting' = Waiting
  BY FlushWaiting
<1>3. InOrder'
  BY <1>1, <1>2, QuietOrder DEF Busy
<1>4. Len(queue') = Len(queue)
  <2>1. TypeInv'
    BY FlushType, FlushQueueType
  <2>2. Len(Waiting) = Len(queue) - index /\ Len(Waiting') = Len(queue') - index'
    BY <2>1, WaitingIs, WaitingIsNext
  <2>3. Len(queue) \in Nat /\ Len(queue') \in Nat /\ index \in Nat
    BY <2>1 DEF TypeInv, TypeOK
  <2> QED
    BY <1>1, <1>2, <2>2, <2>3
<1>5. flush' \in Compacting => newLength' = Len(queue) - index
  BY <1>1 DEF HandleTimer, CallThrows, ReadsSlot, MovesSlot, ScanEnds, Shortens, FlushGoes, Alone,
              Compacting
<1>6. flush' = "cut" => scan' = newLength'
  <2> SUFFICES ASSUME flush' = "cut" PROVE scan' = newLength'
    OBVIOUS
  <2>1. Shortens
    BY <1>1 DEF Compacting
  <2>2. flush = "shorten" /\ scan' = scan /\ newLength' = Len(queue) - index
    BY <2>1 DEF Shortens, FlushGoes
  <2>3. scan = newLength
    BY <2>2 DEF TypeInv, CountInv
  <2> QED
    BY <2>2, <2>3 DEF Alone, Compacting
<1>7. flush' # "left"
  BY <1>1 DEF HandleTimer, CallThrows, ReadsSlot, MovesSlot, ScanEnds, Shortens, FlushGoes
<1>8. Inside' \subseteq Inside
  BY <1>1, <1>7 DEF Inside
<1>9. Alone'
  BY <1>1, <1>4, <1>5, <1>6, <1>7, <1>8 DEF Alone
<1> QED
  BY <1>3, <1>9

\* Where the array becomes shorter, all that waits is kept.
LEMMA ShorterOrder ==
  ASSUME TypeInv, Alone, InOrder, Cuts \/ Empties
  PROVE  Alone' /\ InOrder'
<1>1. /\ UNCHANGED <<pc, task, length, asked, called>>
      /\ flush \in {"cut", "left"} /\ flush' \in {"loop", "idle"}
  BY DEF Cuts, Empties, FlushGoes, asapVars
<1>2. \A t \in Actors : ~Busy(t) /\ pc[t] = "idle"
  BY <1>1, NobodyBusy DEF Busy, Compacting
<1>3. Alone'
  BY <1>1, <1>2 DEF Alone, Inside, Compacting
<1>4. /\ Len(Waiting) \in Nat /\ Len(Waiting) = Len(queue) - index
      /\ DOMAIN Waiting = 1..Len(Waiting)
  BY WaitingIs
<1>5. /\ Len(Waiting') = Len(Waiting)
      /\ \A i \in DOMAIN Waiting' : i \in DOMAIN Waiting /\ Waiting'[i] = Waiting[i]
  <2>1. CASE Cuts
    <3>1. scan = newLength /\ newLength = Len(queue) - index
      BY <2>1 DEF Cuts, FlushGoes, Alone, Compacting
    <3> QED
      BY <1>4, <2>1, <3>1, CutsWaiting
  <2>2. CASE Empties
    <3>1. index = Len(queue)
      BY <2>2 DEF Empties, FlushGoes, Alone
    <3>2. Len(Waiting) = 0
      BY <1>4, <3>1, Types
    <3> QED
      BY <2>2, <3>2, EmptiesWaiting
  <2> QED
    BY <2>1, <2>2
<1>6. \A t \in Actors : ~Busy(t)'
  BY <1>1, <1>2 DEF Busy
<1>7. InHand' = InHand
  BY <1>2, <1>6 DEF InHand
<1>8. InOrder'
  BY <1>1, <1>5, <1>6, <1>7 DEF InOrder
<1> QED
  BY <1>3, <1>8

LEMMA NextOrder ==
  ASSUME TypeInv, OrderInv, [Next]_vars
  PROVE  OrderInv'
<1> SUFFICES ASSUME ~overlapped'
             PROVE  Alone' /\ InOrder'
  BY DEF OrderInv
<1>1. ASSUME NEW t \in Threads, ScriptAsks(t)
      PROVE  Alone' /\ InOrder'
  <2>1. /\ t \in Actors /\ t # Timer /\ Asap(t, Head(todo[t])) /\ todo[t] # <<>> /\ todo[t] \in Seq(Tasks)
        /\ UNCHANGED <<index, flush, scan, slot, called>>
    BY <1>1, TimerAssumption, Types DEF ScriptAsks, flushVars, TypeInv, TypeOK
  <2>2. Head(todo[t]) \in Tasks
    BY <2>1, TailShifts
  <2> QED
    BY <2>1, <2>2, AsapOrder
<1>2. CASE TaskAsks
  <2>1. PICK x \in AskedBy(Last(called)) : Asap(Timer, x)
    BY <1>2 DEF TaskAsks
  <2>2. x \in Tasks
    BY DEF AskedBy, Tasks
  <2>3. UNCHANGED <<index, scan, slot, called>> /\ flush = "asks" /\ flush' = "returns"
    BY <1>2 DEF TaskAsks, FlushGoes
  <2> QED
    BY <2>1, <2>2, <2>3, AsapOrder, Types
<1>3. CASE LoopTest \/ CallReturns
  BY <1>3, FlushEnters
<1>4. CASE UNCHANGED vars
  <2>1. /\ UNCHANGED <<pc, task, length, queue, index, flush, scan, slot, newLength, asked,
                       called, overlapped>>
    BY <1>4 DEF vars
  <2>2. Alone /\ InOrder
    BY <2>1 DEF OrderInv
  <2>3. Waiting' = Waiting
    BY <2>1, WaitingStays
  <2>4. Alone'
    BY <2>1, <2>2 DEF Alone, Inside
  <2> QED
    BY <2>1, <2>2, <2>3, <2>4, QuietOrder DEF Busy
<1>5. ASSUME HandleTimer \/ CallThrows \/ ReadsSlot \/ MovesSlot \/ ScanEnds \/ Shortens
               \/ CallsSlot \/ Cuts \/ Empties \/ \E t \in Actors : AsapGoesOn(t)
      PROVE  Alone' /\ InOrder'
  <2>1. overlapped' = overlapped
    BY <1>5 DEF HandleTimer, CallThrows, ReadsSlot, MovesSlot, ScanEnds, Shortens, CallsSlot, Cuts,
                Empties, AsapGoesOn, RequestsFlush, ReadsLength, WritesSlot
  <2>2. Alone /\ InOrder
    BY <2>1 DEF OrderInv
  <2> QED
    BY <1>5, <2>2, FlushOrder, CallsSlotOrder, ShorterOrder, AsapGoesOnOrder
<1> QED
  BY <1>1, <1>2, <1>3, <1>4, <1>5, Types DEF Next, FlushGoesOn

\* For any number of threads, any tasks and any capacity: until a thread comes in
\* between the accesses of another one, the tasks are called in the order in
\* which asap was given them, whether the array is compacted on the way or not,
\* and also after a task that throws has left the flush.
THEOREM CalledInOrder == Spec => []ServedInOrder
<1>1. Init => TypeInv /\ OrderInv
  BY InitType, InitOrder
<1>2. TypeInv /\ OrderInv /\ [Next]_vars => (TypeInv /\ OrderInv)'
  BY NextType, NextOrder
<1>3. TypeInv /\ OrderInv => ServedInOrder
  <2> SUFFICES ASSUME TypeInv, OrderInv, ~overlapped
               PROVE  IsPrefix(called, asked)
    BY DEF ServedInOrder
  <2>1. InOrder
    BY DEF OrderInv
  <2>2. /\ Len(called) \in Nat /\ Len(asked) \in Nat /\ Len(Waiting) \in Nat
        /\ DOMAIN called = 1..Len(called)
        /\ called \in Seq(Tasks) /\ asked \in Seq(Tasks)
    BY Types, WaitingIs
  <2>3. Len(called) <= Len(asked)
    <3>1. InHand \in {0, 1}
      BY DEF InHand
    <3> QED
      BY <2>1, <2>2, <3>1 DEF InOrder
  <2>4. \A i \in 1..Len(called) : called[i] = asked[i]
    BY <2>1, <2>2 DEF InOrder
  <2>5. SubSeq(asked, 1, Len(called)) = called
    BY <2>2, <2>3, <2>4
  <2> QED
    BY <2>2, <2>3, <2>5 DEF IsPrefix
<1> QED
  BY <1>1, <1>2, <1>3, PTL DEF Spec

=============================================================================
