-------------------------- MODULE CommandRouterProofs --------------------------
(***************************************************************************)
(* For any number of threads, classes and routes: the first class that     *)
(* declares a route keeps it, a command that is declared is found, a       *)
(* thread executes what it was given, and "r" does not repeat itself.      *)
(* Of the one command that keeps a state of its own between its calls, the *)
(* dwn of the soundTTS plugin: only components with a location are         *)
(* installed, and its flag is up only while there is a download, for any   *)
(* number of threads that execute it and any list of components.           *)
(***************************************************************************)
EXTENDS CommandRouter, VoiceDownload, TLAPS

-----------------------------------------------------------------------------
(* The commands of the threads *)

ClientType ==
  /\ lastCommand \in Commands
  /\ client \in [Clients -> [at : Place, typed : Commands, command : Commands]]
  /\ emptied \in BOOLEAN

\* "r" gets through only when an empty line is what it would repeat; a line that
\* is replaced was "r".
RepeatInv ==
  /\ lastCommand \in {Repeat, Empty} => emptied
  /\ \A k \in Clients :
       /\ client[k].at = "parsed" /\ client[k].command = Repeat => emptied
       /\ client[k].at = "repeats" => client[k].typed = Repeat
       /\ client[k].typed # Repeat => client[k].command = client[k].typed

ClientInv == ClientType /\ RepeatInv

LEMMA ClientInit == Init => ClientInv
<1> SUFFICES ASSUME Init PROVE ClientInv
  OBVIOUS
<1>1. /\ lastCommand = Help /\ emptied = FALSE
      /\ client = [k \in Clients |-> [at |-> "idle", typed |-> Help, command |-> Help]]
  BY DEF Init, NoCommand
<1>2. Help \in Commands /\ Help # Repeat /\ Help # Empty
  BY HelpAssumption, RepeatAssumption DEF Commands
<1>3. ClientType
  BY <1>1, <1>2 DEF ClientType, Place
<1>4. RepeatInv
  BY <1>1, <1>2 DEF RepeatInv
<1> QED
  BY <1>3, <1>4 DEF ClientInv

\* Leaving a command resets the thread.
LEMMA LeavesInv ==
  ASSUME ClientInv, NEW k \in Clients, NEW from, NEW place \in {"idle", "dead"},
         Leaves(k, from, place), UNCHANGED <<lastCommand, emptied>>
  PROVE  ClientInv'
<1>1. client' = [client EXCEPT ![k] = NoCommand(place)]
  BY DEF Leaves
<1>2. /\ NoCommand(place) \in [at : Place, typed : Commands, command : Commands]
      /\ NoCommand(place).at \notin {"parsed", "repeats"}
      /\ NoCommand(place).command = NoCommand(place).typed
  BY HelpAssumption DEF NoCommand, Place, Commands
<1> HIDE DEF NoCommand
<1> QED
  BY <1>1, <1>2 DEF ClientInv, ClientType, RepeatInv

\* A step to the next place keeps the command of the thread.
LEMMA GoesInv ==
  ASSUME ClientInv, NEW k \in Clients, NEW from, NEW to \in Place \ {"repeats"},
         Goes(k, from, to), UNCHANGED <<lastCommand, emptied>>,
         to = "parsed" /\ client[k].command = Repeat => emptied
  PROVE  ClientInv'
<1>1. client' = [client EXCEPT ![k].at = to]
  BY DEF Goes
<1>2. ClientType'
  BY <1>1 DEF ClientInv, ClientType
<1>3. \A q \in Clients : /\ client'[q].typed = client[q].typed
                         /\ client'[q].command = client[q].command
                         /\ client'[q].at = IF q = k THEN to ELSE client[q].at
  BY <1>1 DEF ClientInv, ClientType
<1>4. RepeatInv'
  BY <1>3 DEF ClientInv, RepeatInv
<1> QED
  BY <1>2, <1>4 DEF ClientInv

LEMMA FindsOrMissesInv ==
  ASSUME ClientInv, NEW k \in Clients, NEW from, NEW found \in {"found", "gets", "executes"},
         NEW missed \in {"idle", "dead"}, FindsOrMisses(k, from, found, missed),
         UNCHANGED <<lastCommand, emptied>>
  PROVE  ClientInv'
<1>1. CASE Goes(k, from, found)
  BY <1>1, GoesInv DEF Place
<1>2. CASE Leaves(k, from, missed)
  BY <1>2, LeavesInv
<1> QED
  BY <1>1, <1>2 DEF FindsOrMisses

\* The test of "r" and the second read of lastCommand are two steps: what was
\* stored between them may be "r" only after an empty line.
LEMMA RepeatStepInv ==
  ASSUME ClientInv, NEW k \in Clients, TestsRepeat(k) \/ Repeats(k) \/ Stores(k)
  PROVE  ClientInv'
<1>1. CASE TestsRepeat(k)
  <2>1. UNCHANGED <<lastCommand, emptied>>
    BY <1>1 DEF TestsRepeat
  <2>2. CASE client[k].command = Repeat /\ lastCommand # Empty
    <3>1. client' = [client EXCEPT ![k].at = "repeats"]
      BY <1>1, <2>2 DEF TestsRepeat, Goes
    <3>2. ClientType'
      BY <2>1, <3>1 DEF ClientInv, ClientType, Place
    <3>3. \A q \in Clients : /\ client'[q].typed = client[q].typed
                             /\ client'[q].command = client[q].command
                             /\ client'[q].at = IF q = k THEN "repeats" ELSE client[q].at
      BY <3>1 DEF ClientInv, ClientType
    <3>4. client[k].typed = Repeat
      BY <2>2 DEF ClientInv, RepeatInv
    <3>5. RepeatInv'
      BY <2>1, <3>3, <3>4 DEF ClientInv, RepeatInv
    <3> QED
      BY <3>2, <3>5 DEF ClientInv
  <2>3. CASE ~(client[k].command = Repeat /\ lastCommand # Empty)
    <3>1. Goes(k, "typed", "parsed")
      BY <1>1, <2>3 DEF TestsRepeat
    <3>2. client[k].command = Repeat => emptied
      BY <2>3 DEF ClientInv, RepeatInv
    <3> QED
      BY <2>1, <3>1, <3>2, GoesInv DEF Place
  <2> QED
    BY <2>2, <2>3
<1>2. CASE Repeats(k)
  <2>1. /\ client' = [client EXCEPT ![k].at = "parsed", ![k].command = lastCommand]
        /\ client[k].at = "repeats" /\ UNCHANGED <<lastCommand, emptied>>
    BY <1>2 DEF Repeats
  <2>2. ClientType'
    BY <2>1 DEF ClientInv, ClientType, Place
  <2>3. \A q \in Clients :
          /\ client'[q].typed = client[q].typed
          /\ client'[q].command = IF q = k THEN lastCommand ELSE client[q].command
          /\ client'[q].at = IF q = k THEN "parsed" ELSE client[q].at
    BY <2>1 DEF ClientInv, ClientType
  <2>4. client[k].typed = Repeat /\ (lastCommand = Repeat => emptied)
    BY <2>1 DEF ClientInv, RepeatInv
  <2>5. lastCommand' \in {Repeat, Empty} => emptied'
    BY <2>1 DEF ClientInv, RepeatInv
  <2>6. ASSUME NEW q \in Clients
        PROVE  /\ client'[q].at = "parsed" /\ client'[q].command = Repeat => emptied'
               /\ client'[q].at = "repeats" => client'[q].typed = Repeat
               /\ client'[q].typed # Repeat => client'[q].command = client'[q].typed
    BY <2>1, <2>3, <2>4 DEF ClientInv, RepeatInv
  <2> QED
    BY <2>2, <2>5, <2>6 DEF ClientInv, RepeatInv
<1>3. CASE Stores(k)
  <2>1. /\ client' = [client EXCEPT ![k].at = "looks"] /\ client[k].at = "parsed"
        /\ lastCommand' = client[k].command
        /\ emptied' = (emptied \/ client[k].command = Empty)
    BY <1>3 DEF Stores, Goes
  <2>2. ClientType'
    BY <2>1 DEF ClientInv, ClientType, Place
  <2>3. \A q \in Clients :
          /\ client'[q].typed = client[q].typed
          /\ client'[q].command = client[q].command
          /\ client'[q].at = IF q = k THEN "looks" ELSE client[q].at
    BY <2>1 DEF ClientInv, ClientType
  <2>4. emptied => emptied'
    BY <2>1
  <2>5. lastCommand' \in {Repeat, Empty} => emptied'
    BY <2>1 DEF ClientInv, RepeatInv
  <2>6. ASSUME NEW q \in Clients
        PROVE  /\ client'[q].at = "parsed" /\ client'[q].command = Repeat => emptied'
               /\ client'[q].at = "repeats" => client'[q].typed = Repeat
               /\ client'[q].typed # Repeat => client'[q].command = client'[q].typed
    BY <2>3, <2>4 DEF ClientInv, RepeatInv
  <2> QED
    BY <2>2, <2>5, <2>6 DEF ClientInv, RepeatInv
<1> QED
  BY <1>1, <1>2, <1>3

\* A line or a request comes in.
LEMMA TypesInv ==
  ASSUME ClientInv, NEW k \in Clients, NEW c \in Commands, Types(k, c)
  PROVE  ClientInv'
<1> DEFINE place == IF k \in Lines THEN "typed" ELSE "looks"
<1>1. /\ client' = [client EXCEPT ![k] = [at |-> place, typed |-> c, command |-> c]]
      /\ UNCHANGED <<lastCommand, emptied>> /\ place \in {"typed", "looks"}
  BY DEF Types
<1> HIDE DEF place
<1>2. ClientType'
  BY <1>1 DEF ClientInv, ClientType, Place
<1>3. \A q \in Clients :
        client'[q] = IF q = k THEN [at |-> place, typed |-> c, command |-> c] ELSE client[q]
  BY <1>1 DEF ClientInv, ClientType
<1>4. RepeatInv'
  BY <1>1, <1>3 DEF ClientInv, RepeatInv
<1> QED
  BY <1>2, <1>4 DEF ClientInv

LEMMA ClientNext == ClientInv /\ [Next]_vars => ClientInv'
<1> SUFFICES ASSUME ClientInv, [Next]_vars PROVE ClientInv'
  OBVIOUS
<1>1. CASE AttachStep \/ UNCHANGED vars
  BY <1>1 DEF AttachStep, AttachMethod, NextAttachment, vars, ClientInv, ClientType, RepeatInv
<1>2. ASSUME NEW k \in Clients, ClientStep(k) PROVE ClientInv'
  <2>1. CASE TestsRepeat(k) \/ Repeats(k) \/ Stores(k)
    BY <2>1, RepeatStepInv
  <2>2. CASE LooksUp(k)
    BY <2>2, FindsOrMissesInv DEF LooksUp
  <2>3. CASE LooksUpAgain(k)
    BY <2>3, FindsOrMissesInv DEF LooksUpAgain
  <2>4. CASE GetCommand(k)
    BY <2>4, FindsOrMissesInv DEF GetCommand
  <2>5. CASE Execute(k)
    BY <2>5, LeavesInv DEF Execute
  <2> QED
    BY <1>2, <2>1, <2>2, <2>3, <2>4, <2>5 DEF ClientStep
<1>3. ASSUME NEW k \in Clients, EndOfInput(k) PROVE ClientInv'
  BY <1>3, LeavesInv DEF EndOfInput
<1>4. ASSUME NEW k \in Clients, NEW c \in Commands, Types(k, c) PROVE ClientInv'
  BY <1>4, TypesInv
<1> QED
  BY <1>1, <1>2, <1>3, <1>4 DEF Next

\* Whatever other threads store in lastCommand, a thread executes the command it
\* was given, unless that was "r".
THEOREM ExecutesItsCommand == Spec => []ExecutesWhatWasTyped
<1>1. ClientInv => ExecutesWhatWasTyped
  BY DEF ClientInv, RepeatInv, ExecutesWhatWasTyped
<1> QED
  BY <1>1, ClientInit, ClientNext, PTL DEF Spec

\* "r" ends up repeating itself only after somebody gave an empty line.
THEOREM RepeatIsReplaced == Spec => []RepeatSticksOnlyAfterEmpty
<1>1. ClientInv => RepeatSticksOnlyAfterEmpty
  BY DEF ClientInv, RepeatInv, RepeatSticksOnlyAfterEmpty
<1> QED
  BY <1>1, ClientInit, ClientNext, PTL DEF Spec

-----------------------------------------------------------------------------
(* The routes *)

\* The class of the i-th call declares route r for id.
Declares(i, id, r) == Attachments[i].id = id /\ r \in Attachments[i].routes

\* It has been given the route, or refused it.
IsSettled(i, r) == i < attaching \/ (i = attaching /\ r \notin methods)

\* It is the first that declares the route.
IsFirst(i, id, r) == Declares(i, id, r) /\ \A j \in 1..(i - 1) : ~Declares(j, id, r)

\* A route is there when a class that declares it was reached, and then it is
\* that of the first of them.
RouteIsFirst(id, r) ==
  IF \E i \in Calls : Declares(i, id, r) /\ IsSettled(i, r)
  THEN /\ Has(id, r)
       /\ \E i \in Calls : IsFirst(i, id, r) /\ routes[id][r] = Attachments[i].context
  ELSE ~Has(id, r)

RoutesInv ==
  /\ attaching \in 1..(Len(Attachments) + 1)
  /\ attaching \in Calls => methods \subseteq Attachments[attaching].routes
  /\ \A id, r : RouteIsFirst(id, r)

\* Numbers: the calls are those from 1 on.
LEMMA CallsAreNumbers ==
  /\ Calls = 1..Len(Attachments) /\ Len(Attachments) \in Nat /\ 1 \in Calls
  /\ \A i \in Calls : i \in Nat /\ i >= 1 /\ i <= Len(Attachments)
BY AttachmentsAssumption DEF Calls

LEMMA RoutesInit == Init => RoutesInv
<1> SUFFICES ASSUME Init PROVE RoutesInv
  OBVIOUS
<1>1. routes = << >> /\ attaching = 1 /\ methods = Attachments[1].routes
  BY DEF Init
<1>2. \A id, r : ~Has(id, r)
  BY <1>1 DEF Has
<1>3. \A id, r : \A i \in Calls : ~(Declares(i, id, r) /\ IsSettled(i, r))
  BY <1>1, CallsAreNumbers DEF Declares, IsSettled
<1>4. \A id, r : RouteIsFirst(id, r)
  BY <1>2, <1>3 DEF RouteIsFirst
<1> QED
  BY <1>1, <1>4, CallsAreNumbers DEF RoutesInv

\* Setting a route gives it its context if it had none, and nothing else changes.
LEMMA SetRouteSets ==
  ASSUME NEW id, NEW r, NEW context, SetRoute(id, r, context)
  PROVE  /\ Has(id, r)' /\ routes'[id][r] = IF Has(id, r) THEN routes[id][r] ELSE context
         /\ \A id2, r2 : (id2 # id \/ r2 # r) =>
              /\ Has(id2, r2)' <=> Has(id2, r2)
              /\ Has(id2, r2) => routes'[id2][r2] = routes[id2][r2]
<1>1. CASE Has(id, r)
  BY <1>1 DEF SetRoute, Has
<1>2. CASE ~Has(id, r)
  <2> DEFINE old == OfId(id)
             new == Put(old, r, context)
  <2>1. /\ DOMAIN new = DOMAIN old \cup {r}
        /\ new[r] = context
        /\ \A r2 \in DOMAIN old : r2 # r => new[r2] = old[r2]
    BY DEF Put
  <2> HIDE DEF new
  <2>2. /\ DOMAIN routes' = DOMAIN routes \cup {id}
        /\ routes'[id] = new
        /\ \A id2 \in DOMAIN routes : id2 # id => routes'[id2] = routes[id2]
    BY <1>2 DEF SetRoute, Put, new
  <2>3. /\ id \in DOMAIN routes => old = routes[id]
        /\ id \notin DOMAIN routes => DOMAIN old = {}
    BY DEF OfId
  <2> HIDE DEF old
  <2>4. Has(id, r)' /\ routes'[id][r] = context
    BY <2>1, <2>2 DEF Has
  <2>5. ASSUME NEW id2, NEW r2, id2 # id \/ r2 # r
        PROVE  /\ Has(id2, r2)' <=> Has(id2, r2)
               /\ Has(id2, r2) => routes'[id2][r2] = routes[id2][r2]
    <3>1. CASE id2 # id
      BY <2>2, <3>1 DEF Has
    <3>2. CASE id2 = id /\ r2 # r
      BY <2>1, <2>2, <2>3, <3>2 DEF Has
    <3> QED
      BY <2>5, <3>1, <3>2
  <2> QED
    BY <1>2, <2>4, <2>5
<1> QED
  BY <1>1, <1>2

\* A method is attached: if no class had the route before, this one is the first
\* that declares it.
LEMMA AttachMethodInv ==
  ASSUME RoutesInv, NEW m \in Names, AttachMethod(m)
  PROVE  RoutesInv'
<1> PICK now, own, context : /\ now = attaching /\ own = Attachments[now].id
                            /\ context = Attachments[now].context
  OBVIOUS
<1>1. /\ attaching \in Calls /\ m \in methods
      /\ SetRoute(own, m, context)
      /\ methods' = methods \ {m} /\ attaching' = attaching
  BY DEF AttachMethod, Attached
<1>2. Declares(now, own, m)
  BY <1>1 DEF RoutesInv, Declares
<1>3. \A i, r : IsSettled(i, r)' <=> IsSettled(i, r) \/ (i = now /\ r = m)
  BY <1>1 DEF IsSettled
<1>4. /\ Has(own, m)'
      /\ routes'[own][m] = IF Has(own, m) THEN routes[own][m] ELSE context
      /\ \A id, r : (id # own \/ r # m) =>
           /\ Has(id, r)' <=> Has(id, r)
           /\ Has(id, r) => routes'[id][r] = routes[id][r]
  BY <1>1, SetRouteSets
<1>5. \E i \in Calls : IsFirst(i, own, m) /\ routes'[own][m] = Attachments[i].context
  <2>1. CASE Has(own, m)
    BY <1>4, <2>1 DEF RoutesInv, RouteIsFirst
  <2>2. CASE ~Has(own, m)
    <3>1. \A i \in Calls : ~(Declares(i, own, m) /\ IsSettled(i, m))
      BY <2>2 DEF RoutesInv, RouteIsFirst
    <3>2. \A j \in 1..(now - 1) : j \in Calls /\ j < attaching
      BY <1>1, CallsAreNumbers
    <3>3. IsFirst(now, own, m)
      BY <1>2, <3>1, <3>2 DEF IsFirst, IsSettled
    <3> QED
      BY <1>1, <1>4, <2>2, <3>3
  <2> QED
    BY <2>1, <2>2
<1>6. RouteIsFirst(own, m)'
  <2>1. \E i \in Calls : Declares(i, own, m) /\ IsSettled(i, m)'
    BY <1>1, <1>2, <1>3
  <2> QED
    BY <1>4, <1>5, <2>1 DEF RouteIsFirst, IsFirst, Declares
<1>7. ASSUME NEW id, NEW r, id # own \/ r # m
      PROVE  RouteIsFirst(id, r)'
  <2>1. \A i \in Calls : Declares(i, id, r) =>
          (IsSettled(i, r)' <=> IsSettled(i, r))
    BY <1>3, <1>7 DEF Declares
  <2>2. RouteIsFirst(id, r)
    BY DEF RoutesInv
  <2>3. /\ Has(id, r)' <=> Has(id, r)
        /\ Has(id, r) => routes'[id][r] = routes[id][r]
    BY <1>4, <1>7
  <2> QED
    BY <2>1, <2>2, <2>3 DEF RouteIsFirst, IsFirst, Declares
<1>8. ASSUME NEW id, NEW r
      PROVE  RouteIsFirst(id, r)'
  <2>1. CASE id = own /\ r = m
    BY <1>6, <2>1
  <2>2. CASE id # own \/ r # m
    BY <1>7, <2>2
  <2> QED
    BY <2>1, <2>2
<1> QED
  BY <1>1, <1>8 DEF RoutesInv

\* The next class: all routes of this one were set, none of the next.
LEMMA NextAttachmentInv ==
  ASSUME RoutesInv, NextAttachment
  PROVE  RoutesInv'
<1>1. /\ attaching \in Calls /\ methods = {} /\ attaching' = attaching + 1
      /\ methods' = IF attaching < Len(Attachments) THEN Attachments[attaching + 1].routes ELSE {}
      /\ routes' = routes
  BY DEF NextAttachment, Attached
<1>2. /\ attaching' \in 1..(Len(Attachments) + 1)
      /\ attaching' \in Calls => attaching < Len(Attachments)
  BY <1>1, CallsAreNumbers
<1>3. \A id, r : \A i \in Calls : Declares(i, id, r) => (IsSettled(i, r)' <=> IsSettled(i, r))
  BY <1>1, <1>2, CallsAreNumbers DEF IsSettled, Declares
<1>4. ASSUME NEW id, NEW r
      PROVE  RouteIsFirst(id, r)'
  <2>1. \A i \in Calls : Declares(i, id, r) => (IsSettled(i, r)' <=> IsSettled(i, r))
    BY <1>3
  <2>2. RouteIsFirst(id, r)
    BY DEF RoutesInv
  <2>3. (Has(id, r)' <=> Has(id, r)) /\ routes'[id][r] = routes[id][r]
    BY <1>1 DEF Has
  <2> QED
    BY <2>1, <2>2, <2>3 DEF RouteIsFirst, IsFirst, Declares
<1> QED
  BY <1>1, <1>2, <1>4 DEF RoutesInv

LEMMA RoutesNext == RoutesInv /\ [Next]_vars => RoutesInv'
<1> SUFFICES ASSUME RoutesInv, [Next]_vars PROVE RoutesInv'
  OBVIOUS
<1>1. CASE AttachStep
  BY <1>1, AttachMethodInv, NextAttachmentInv DEF AttachStep
<1>2. CASE UNCHANGED <<routes, attaching, methods>>
  BY <1>2 DEF RoutesInv, RouteIsFirst, IsFirst, IsSettled, Declares, Has
<1>3. ASSUME NEW k \in Clients,
             ClientStep(k) \/ EndOfInput(k) \/ \E c \in Commands : Types(k, c)
      PROVE  UNCHANGED <<routes, attaching, methods>>
  BY <1>3 DEF ClientStep, TestsRepeat, Repeats, Stores, LooksUp, LooksUpAgain, GetCommand,
              Execute, EndOfInput, Types
<1> QED
  BY <1>1, <1>2, <1>3 DEF Next, vars

\* When all is attached, the class attached first keeps a route that others
\* declare too, in whatever order getMethods lists the methods of each.
THEOREM FirstClassWins == Spec => []OwnCommandWins
<1>1. ASSUME RoutesInv, Attached, NEW id \in Ids, NEW r \in Names
      PROVE  IF \E i \in Calls : Attachments[i].id = id /\ r \in Attachments[i].routes
             THEN Has(id, r) /\ routes[id][r] = Attachments[FirstOf(id, r)].context
             ELSE ~Has(id, r)
  <2>1. \A i \in Calls : IsSettled(i, r)
    BY <1>1, CallsAreNumbers DEF RoutesInv, Attached, IsSettled
  <2>2. RouteIsFirst(id, r)
    BY <1>1 DEF RoutesInv
  <2>3. CASE \E i \in Calls : Declares(i, id, r)
    <3>1. PICK i \in Calls : IsFirst(i, id, r) /\ routes[id][r] = Attachments[i].context
      BY <2>1, <2>2, <2>3 DEF RouteIsFirst
    <3>2. \A j \in Calls : IsFirst(j, id, r) => j = i
      BY <3>1, CallsAreNumbers DEF IsFirst
    <3>3. FirstOf(id, r) = CHOOSE j \in Calls : IsFirst(j, id, r)
      BY DEF FirstOf, IsFirst, Declares
    <3>4. FirstOf(id, r) = i
      BY <3>1, <3>2, <3>3
    <3> QED
      BY <2>1, <2>2, <2>3, <3>1, <3>4 DEF RouteIsFirst, Declares
  <2>4. CASE ~ \E i \in Calls : Declares(i, id, r)
    BY <2>2, <2>4 DEF RouteIsFirst, Declares
  <2> QED
    BY <2>3, <2>4
<1>2. RoutesInv => OwnCommandWins
  BY <1>1 DEF OwnCommandWins
<1> QED
  BY <1>2, RoutesInit, RoutesNext, PTL DEF Spec

-----------------------------------------------------------------------------
(* Type correctness *)

\* Only classes that were attached have routes, and only those they declare.
RoutesType ==
  \A id \in DOMAIN routes : /\ id \in Ids
                            /\ DOMAIN routes[id] \subseteq Names
                            /\ \A r \in DOMAIN routes[id] : routes[id][r] \in Contexts

\* setRoute keeps the types: the entry it adds is one of the class under way.
LEMMA AttachMethodType ==
  ASSUME RoutesInv, RoutesType, NEW r, AttachMethod(r)
  PROVE  RoutesType'
<1>1. PICK id \in Ids, context \in Contexts : SetRoute(id, r, context)
  BY DEF RoutesInv, AttachMethod, Attached, Ids, Contexts
<1>2. r \in Names
  BY DEF RoutesInv, AttachMethod, Attached, Names
<1>3. CASE Has(id, r)
  BY <1>1, <1>3 DEF SetRoute, RoutesType
<1>4. CASE ~Has(id, r)
  <2> DEFINE old == OfId(id)
             new == Put(old, r, context)
  <2>1. DOMAIN old \subseteq Names /\ \A s \in DOMAIN old : old[s] \in Contexts
    BY DEF OfId, RoutesType
  <2> HIDE DEF old
  <2>2. /\ DOMAIN new = DOMAIN old \cup {r}
        /\ \A s \in DOMAIN new : new[s] \in {context, old[s]} /\ (s # r => new[s] = old[s])
    BY DEF Put
  <2>3. DOMAIN new \subseteq Names
    BY <1>2, <2>1, <2>2
  <2>4. \A s \in DOMAIN new : new[s] \in Contexts
    <3>1. new[r] = context
      BY DEF Put
    <3> QED
      BY <2>1, <2>2, <3>1
  <2> HIDE DEF new
  <2>5. /\ DOMAIN routes' = DOMAIN routes \cup {id}
        /\ routes'[id] = new
        /\ \A i \in DOMAIN routes : i # id => routes'[i] = routes[i]
    BY <1>1, <1>4 DEF SetRoute, Put, new, old
  <2> QED
    BY <2>3, <2>4, <2>5 DEF RoutesType
<1> QED
  BY <1>3, <1>4

\* Every variable keeps its type while threads execute and routes are attached.
THEOREM TypeCorrect == Spec => []TypeOK
<1>1. Init => RoutesType
  BY DEF Init, RoutesType
<1>2. RoutesInv /\ RoutesType /\ [Next]_vars => RoutesType'
  <2> SUFFICES ASSUME RoutesInv, RoutesType, [Next]_vars PROVE RoutesType'
    OBVIOUS
  <2>1. ASSUME NEW r, AttachMethod(r) PROVE RoutesType'
    BY <2>1, AttachMethodType
  <2>2. CASE NextAttachment \/ UNCHANGED vars
    BY <2>2 DEF NextAttachment, vars, RoutesType
  <2>3. ASSUME NEW k \in Clients,
               ClientStep(k) \/ EndOfInput(k) \/ \E c \in Commands : Types(k, c)
        PROVE  UNCHANGED routes
    BY <2>3 DEF ClientStep, TestsRepeat, Repeats, Stores, LooksUp, LooksUpAgain, GetCommand,
                Execute, EndOfInput, Types
  <2>4. CASE UNCHANGED routes
    BY <2>4 DEF RoutesType
  <2> QED
    BY <2>1, <2>2, <2>3, <2>4 DEF Next, AttachStep
<1>3. ClientInv /\ RoutesInv /\ RoutesType => TypeOK
  BY DEF ClientInv, ClientType, RoutesInv, RoutesType, TypeOK
<1> QED
  BY <1>1, <1>2, <1>3, ClientInit, ClientNext, RoutesInit, RoutesNext, PTL DEF Spec
-----------------------------------------------------------------------------
(* A declared command is found *)

\* When all is attached, what a class declares is there.
LEMMA DeclaredIsThere ==
  ASSUME RoutesInv, Attached, NEW c \in Known, Declared(c)
  PROVE  HasCommand(c)
<1>1. PICK i \in Calls : Declares(i, From(c), c.name)
  BY DEF Declared, Declares, From
<1>2. IsSettled(i, c.name)
  BY CallsAreNumbers DEF RoutesInv, Attached, IsSettled
<1> QED
  BY <1>1, <1>2 DEF RoutesInv, RouteIsFirst, HasCommand

\* What a step leaves of the thread k: only its own step moves it, and one that
\* looks for a command moves on if the command is there.
LEMMA StaysOrFinds ==
  ASSUME ClientType, NEW k \in Clients, client[k].at \in {"looks", "found", "gets"},
         HasCommand(client[k].command), Attached, [Next]_vars
  PROVE  client'[k].at \in {"looks", "found", "gets", "executes"}
<1>1. CASE AttachStep \/ UNCHANGED vars
  BY <1>1 DEF AttachStep, AttachMethod, NextAttachment, vars
<1>2. ASSUME NEW q \in Clients, ClientStep(q) \/ EndOfInput(q) \/ \E c \in Commands : Types(q, c)
      PROVE  client'[k].at \in {"looks", "found", "gets", "executes"}
  <2>1. CASE q = k
    <3>1. LooksUp(k) \/ LooksUpAgain(k) \/ GetCommand(k)
      BY <1>2, <2>1 DEF ClientStep, TestsRepeat, Repeats, Stores, Execute, EndOfInput, Types,
                        Goes, Leaves
    <3>2. \E to \in {"found", "gets", "executes"} : client' = [client EXCEPT ![k].at = to]
      BY <3>1 DEF LooksUp, LooksUpAgain, GetCommand, FindsOrMisses, Goes
    <3> QED
      BY <3>2 DEF ClientType
  <2>2. CASE q # k
    <3>1. \E x : client' = [client EXCEPT ![q] = x]
      BY <1>2 DEF ClientStep, TestsRepeat, Repeats, Stores, LooksUp, LooksUpAgain, GetCommand,
                  Execute, EndOfInput, Types, FindsOrMisses, Goes, Leaves
    <3> QED
      BY <2>2, <3>1 DEF ClientType
  <2> QED
    BY <2>1, <2>2
<1> QED
  BY <1>1, <1>2 DEF Next

\* For any number of threads, classes and commands: once all is attached, the
\* three lookups of a command that some class declares all find it, although
\* they take no lock; no such command is refused, and none ends its thread.
THEOREM DeclaredFound == Spec => DeclaredCommandIsFound
<1>1. ClientInv /\ RoutesInv /\ [Next]_vars =>
        [\A k \in Clients :
           (Attached /\ client[k].at \in {"looks", "found", "gets"}
              /\ client[k].command \in Known /\ Declared(client[k].command))
             => client'[k].at \notin {"idle", "dead"}]_vars
  BY DeclaredIsThere, StaysOrFinds DEF ClientInv
<1> QED
  BY <1>1, ClientInit, ClientNext, RoutesInit, RoutesNext, PTL DEF Spec, DeclaredCommandIsFound

-----------------------------------------------------------------------------
(* The dwn command *)

\* A code of the table stands for a component that has a location.
LEMMA CodesAreLocated ==
  ASSUME NEW code \in Codes
  PROVE  DownloadableList[code] \in Located
<1>1. \A e \in VoiceEntries \cup LanguageEntries : e[2] \in Located
  BY DEF VoiceEntries, LanguageEntries
<1>2. CASE \E e \in LanguageEntries : e[1] = code
  <2>1. (CHOOSE e \in LanguageEntries : e[1] = code) \in LanguageEntries
    BY <1>2
  <2>2. DownloadableList[code] = (CHOOSE e \in LanguageEntries : e[1] = code)[2]
    BY <1>2 DEF DownloadableList
  <2> QED
    BY <1>1, <2>1, <2>2
<1>3. CASE ~ \E e \in LanguageEntries : e[1] = code
  <2>1. \E e \in VoiceEntries : e[1] = code
    BY <1>3 DEF Codes
  <2>2. (CHOOSE e \in VoiceEntries : e[1] = code) \in VoiceEntries
    BY <2>1
  <2>3. DownloadableList[code] = (CHOOSE e \in VoiceEntries : e[1] = code)[2]
    BY <1>3 DEF DownloadableList
  <2> QED
    BY <1>1, <2>2, <2>3
<1> QED
  BY <1>2, <1>3

\* A command that goes on has chosen a component with a location.
HasChosen == \A k \in Threads : at[k] # "idle" => chosen[k] \in Located

DwnIInv == DwnTypeOK /\ HasChosen /\ FlagIsNotStuck

LEMMA DwnInitInv == DwnInit => DwnIInv
BY DEF DwnInit, DwnIInv, DwnTypeOK, HasChosen, FlagIsNotStuck, DwnPlace, FileState

\* A command takes the component of its code.
LEMMA DwnInv ==
  ASSUME DwnIInv, NEW k \in Threads, NEW code \in Codes, Dwn(k, code)
  PROVE  DwnIInv'
<1>1. DownloadableList[code] \in Located /\ DownloadableList[code] \in Components
  BY CodesAreLocated, LocatedAssumption
<1> HIDE DEF DownloadableList
<1>2. DwnTypeOK'
  BY <1>1 DEF DwnIInv, DwnTypeOK, Dwn, DwnGoes, DwnPlace
<1>3. HasChosen'
  BY <1>1 DEF DwnIInv, DwnTypeOK, HasChosen, Dwn, DwnGoes
<1>4. FlagIsNotStuck'
  BY DEF DwnIInv, DwnTypeOK, FlagIsNotStuck, Dwn, DwnGoes
<1> QED
  BY <1>2, <1>3, <1>4 DEF DwnIInv

\* The steps of a command keep the invariant: only the end of a download clears
\* the flag, and no other step leaves "downloading".
LEMMA DwnStepInv ==
  ASSUME DwnIInv, NEW k \in Threads, DwnStep(k)
  PROVE  DwnIInv'
<1> USE DEF DwnIInv
<1>1. CASE DwnRefused(k)
  BY <1>1 DEF DwnTypeOK, HasChosen, FlagIsNotStuck, DwnRefused, Answers, DwnPlace
<1>2. CASE DwnAllowed(k)
  BY <1>2 DEF DwnTypeOK, HasChosen, FlagIsNotStuck, DwnAllowed, DwnGoes, DwnPlace
<1>3. CASE LooksForFile(k)
  BY <1>3 DEF DwnTypeOK, HasChosen, FlagIsNotStuck, LooksForFile, DwnGoes, DwnPlace
<1>4. CASE StartsDownload(k)
  <2>1. DwnTypeOK'
    BY <1>4 DEF DwnTypeOK, StartsDownload, DwnGoes, DwnPlace, FileState
  <2>2. HasChosen' /\ FlagIsNotStuck'
    BY <1>4 DEF DwnTypeOK, HasChosen, FlagIsNotStuck, StartsDownload, DwnGoes
  <2> QED
    BY <2>1, <2>2
<1>5. CASE EndsDownload(k)
  <2>1. DwnTypeOK'
    BY <1>5 DEF DwnTypeOK, EndsDownload, DwnGoes, DwnPlace, FileState
  <2>2. HasChosen' /\ FlagIsNotStuck'
    BY <1>5 DEF DwnTypeOK, HasChosen, FlagIsNotStuck, EndsDownload, DwnGoes
  <2> QED
    BY <2>1, <2>2
<1>6. CASE Installs(k)
  <2>1. installed' \subseteq Located
    BY <1>6 DEF DwnTypeOK, HasChosen, Installs
  <2>2. DwnTypeOK'
    BY <1>6, <2>1 DEF DwnTypeOK, Installs, Answers, DwnPlace
  <2>3. HasChosen' /\ FlagIsNotStuck'
    BY <1>6 DEF DwnTypeOK, HasChosen, FlagIsNotStuck, Installs, Answers
  <2> QED
    BY <2>2, <2>3
<1> QED
  BY <1>1, <1>2, <1>3, <1>4, <1>5, <1>6 DEF DwnStep

LEMMA DwnNextInv == DwnIInv /\ [DwnNext]_dwnVars => DwnIInv'
<1> SUFFICES ASSUME DwnIInv, [DwnNext]_dwnVars PROVE DwnIInv'
  OBVIOUS
<1>1. CASE GetDwns
  BY <1>1 DEF GetDwns, DwnIInv, DwnTypeOK, HasChosen, FlagIsNotStuck
<1>2. ASSUME NEW k \in Threads, DwnStep(k) \/ \E code \in Codes : Dwn(k, code)
      PROVE  DwnIInv'
  BY <1>2, DwnInv, DwnStepInv
<1>3. CASE UNCHANGED dwnVars
  BY <1>3 DEF dwnVars, DwnIInv, DwnTypeOK, HasChosen, FlagIsNotStuck
<1> QED
  BY <1>1, <1>2, <1>3 DEF DwnNext

\* The table and the files keep their types, and only components that the site
\* gives a location are installed, although a command reads the table again
\* while others replace it.
THEOREM DwnTypeCorrect == DwnSpec => []DwnTypeOK
<1>1. DwnIInv => DwnTypeOK
  BY DEF DwnIInv
<1> QED
  BY <1>1, DwnInitInv, DwnNextInv, PTL DEF DwnSpec

\* Nobody finds the flag up for ever after downloads that failed or overlapped
\* (isDownloading is set without a lock, and cleared in a finally).
THEOREM NeverStuck == DwnSpec => []FlagIsNotStuck
<1>1. DwnIInv => FlagIsNotStuck
  BY DEF DwnIInv
<1> QED
  BY <1>1, DwnInitInv, DwnNextInv, PTL DEF DwnSpec

=============================================================================
