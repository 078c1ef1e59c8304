---------------------------- MODULE CommandRouter ----------------------------
(***************************************************************************)
(* The ExecutorRouter: the main thread attaches the routes of the manager, *)
(* of the agents and of their extensions while the front-ends, launched    *)
(* before, already execute commands on threads of their own.               *)
(*                                                                         *)
(* The maps of routes and lastCommand are plain fields that every thread   *)
(* reads and writes without a lock.  A lookup that meets a put may miss    *)
(* any entry of the map, also one that was there before: the put may be    *)
(* moving the entries to a larger table.                                   *)
(***************************************************************************)
EXTENDS Naturals, Sequences

CONSTANTS
  Lines,       \* the threads of executeCommand: the console, network clients
  Webs,        \* the threads that execute directly: web requests, scripts
  Root,        \* the id of the commands of the manager
  Default,     \* a command that does not say from=
  Attachments, \* the attachRoutes calls: [id, context, routes], in order
  Known,       \* the commands the clients may give: [name, from]
  Help,        \* the command "help", the first value of lastCommand
  Repeat,      \* the line "r"
  Empty        \* the empty line

Calls == 1..Len(Attachments)
Ids == {Attachments[i].id : i \in Calls}
Names == UNION {Attachments[i].routes : i \in Calls}
Contexts == {Attachments[i].context : i \in Calls}
Commands == Known \cup {Repeat, Empty}
Clients == Lines \cup Webs

\* The manager attaches its own routes.
ASSUME AttachmentsAssumption == Len(Attachments) \in Nat \ {0}
ASSUME HelpAssumption == Help \in Known
ASSUME RepeatAssumption == Repeat \notin Known /\ Empty \notin Known /\ Repeat # Empty
ASSUME DefaultAssumption == Default \notin Ids

VARIABLES
  routes,      \* the maps from ids and routes to contexts, and their domains
  attaching,   \* the attachRoutes call under way; over when there are no more
  methods,     \* the routes this call has still to set
  lastCommand, \* the command "r" repeats
  client,      \* [Clients -> ...]: where each thread is
  emptied      \* history: an empty line was stored

vars == <<routes, attaching, methods, lastCommand, client, emptied>>

Place == {"idle", "typed", "repeats", "parsed", "looks", "found", "gets", "executes", "dead"}

TypeOK ==
  /\ \A id \in DOMAIN routes : /\ id \in Ids
                               /\ DOMAIN routes[id] \subseteq Names
                               /\ \A r \in DOMAIN routes[id] : routes[id][r] \in Contexts
  /\ attaching \in 1..(Len(Attachments) + 1)
  /\ attaching \in Calls => methods \subseteq Attachments[attaching].routes
  /\ lastCommand \in Commands
  /\ client \in [Clients -> [at : Place, typed : Commands, command : Commands]]
  /\ emptied \in BOOLEAN

NoCommand(place) == [at |-> place, typed |-> Help, command |-> Help]

Init ==
  /\ routes = << >>
  /\ attaching = 1
  /\ methods = Attachments[1].routes
  /\ lastCommand = Help
  /\ client = [k \in Clients |-> NoCommand("idle")]
  /\ emptied = FALSE

-----------------------------------------------------------------------------
(* Attaching *)

Attached == attaching \notin Calls

Has(id, r) == id \in DOMAIN routes /\ r \in DOMAIN routes[id]

Put(f, x, v) == [y \in DOMAIN f \cup {x} |-> IF y = x THEN v ELSE f[y]]

OfId(id) == IF id \in DOMAIN routes THEN routes[id] ELSE << >>

\* Seeded fault: the last definition of a route wins.
SetRoute_Overrides(id, r, context) == routes' = Put(routes, id, Put(OfId(id), r, context))

\* A route that is already defined is kept, and the new one logged.
SetRoute(id, r, context) ==
  routes' = IF Has(id, r) THEN routes
            ELSE Put(routes, id, Put(OfId(id), r, context))

\* One annotated method of the class; the order of getMethods is not defined.
AttachMethod(r) ==
  /\ ~Attached
  /\ r \in methods
  /\ SetRoute(Attachments[attaching].id, r, Attachments[attaching].context)
  /\ methods' = methods \ {r}
  /\ UNCHANGED <<attaching, lastCommand, client, emptied>>

NextAttachment ==
  /\ ~Attached
  /\ methods = {}
  /\ attaching' = attaching + 1
  /\ methods' = IF attaching < Len(Attachments) THEN Attachments[attaching + 1].routes ELSE {}
  /\ UNCHANGED <<routes, lastCommand, client, emptied>>

-----------------------------------------------------------------------------
(* Executing *)

Goes(k, from, to) == client[k].at = from /\ client' = [client EXCEPT ![k].at = to]

\* The command is over, answered or not.
Leaves(k, from, place) ==
  client[k].at = from /\ client' = [client EXCEPT ![k] = NoCommand(place)]

\* A line is typed, or a request for a route arrives.
Types(k, c) ==
  /\ client[k].at = "idle"
  /\ k \in Lines \/ c \in Known
  /\ client' = [client EXCEPT ![k] = [at |-> IF k \in Lines THEN "typed" ELSE "looks",
                                      typed |-> c, command |-> c]]
  /\ UNCHANGED <<routes, attaching, methods, lastCommand, emptied>>

TestsRepeat(k) ==
  /\ Goes(k, "typed", IF client[k].command = Repeat /\ lastCommand # Empty
                      THEN "repeats" ELSE "parsed")
  /\ UNCHANGED <<routes, attaching, methods, lastCommand, emptied>>

\* lastCommand is read again.
Repeats(k) ==
  /\ client[k].at = "repeats"
  /\ client' = [client EXCEPT ![k].at = "parsed", ![k].command = lastCommand]
  /\ UNCHANGED <<routes, attaching, methods, lastCommand, emptied>>

Stores(k) ==
  /\ Goes(k, "parsed", "looks")
  /\ lastCommand' = client[k].command
  /\ emptied' = (emptied \/ client[k].command = Empty)
  /\ UNCHANGED <<routes, attaching, methods>>

\* Seeded fault: the default of from= is forgotten.
From_NoDefault(c) == c.from

\* setDefault("from", root); "r" and "" are commands of the root nobody has.
From(c) == IF c.from = Default THEN Root ELSE c.from

HasCommand(c) == c \in Known /\ Has(From(c), c.name)

\* hasCommand before execute, hasCommand in it, then getCommand.
FindsOrMisses(k, from, found, missed) ==
  \/ HasCommand(client[k].command) /\ Goes(k, from, found)
  \/ (HasCommand(client[k].command) => ~Attached) /\ Leaves(k, from, missed)

\* Seeded fault: the arguments are parsed from the field, not from the local.
LooksUp_Last(k) ==
  /\ client[k].at = "looks"
  /\ client' = [client EXCEPT ![k].at = "found", ![k].command = lastCommand]
  /\ UNCHANGED <<routes, attaching, methods, lastCommand, emptied>>

\* "No such command".
LooksUp(k) ==
  /\ FindsOrMisses(k, "looks", "found", "idle")
  /\ UNCHANGED <<routes, attaching, methods, lastCommand, emptied>>

\* "Execute error, unknown route": answered with an empty string.
LooksUpAgain(k) ==
  /\ FindsOrMisses(k, "found", "gets", "idle")
  /\ UNCHANGED <<routes, attaching, methods, lastCommand, emptied>>

\* A map that is not found here is a NullPointerException nobody catches: the
\* thread of the console or of the network client is over.
GetCommand(k) ==
  /\ FindsOrMisses(k, "gets", "executes", IF k \in Lines THEN "dead" ELSE "idle")
  /\ UNCHANGED <<routes, attaching, methods, lastCommand, emptied>>

\* What the method throws is caught and logged.
Execute(k) ==
  /\ Leaves(k, "executes", "idle")
  /\ UNCHANGED <<routes, attaching, methods, lastCommand, emptied>>

\* The end of the input: a NullPointerException on the console, the end of the
\* loop of a network client.
EndOfInput(k) ==
  /\ k \in Lines
  /\ Leaves(k, "idle", "dead")
  /\ UNCHANGED <<routes, attaching, methods, lastCommand, emptied>>

-----------------------------------------------------------------------------
(* The specification *)

AttachStep == NextAttachment \/ \E r \in Names : AttachMethod(r)

ClientStep(k) ==
  \/ TestsRepeat(k)
  \/ Repeats(k)
  \/ Stores(k)
  \/ LooksUp(k)
  \/ LooksUpAgain(k)
  \/ GetCommand(k)
  \/ Execute(k)

Next ==
  \/ AttachStep
  \/ \E k \in Clients : \/ ClientStep(k)
                        \/ EndOfInput(k)
                        \/ \E c \in Commands : Types(k, c)

Spec == Init /\ [][Next]_vars

-----------------------------------------------------------------------------
(* Properties *)

FirstOf(id, r) ==
  CHOOSE i \in Calls :
    /\ Attachments[i].id = id /\ r \in Attachments[i].routes
    /\ \A j \in 1..(i - 1) : ~(Attachments[j].id = id /\ r \in Attachments[j].routes)

\* When all is attached, each id answers to exactly the routes of its classes,
\* and a route two of them declare belongs to the one attached first: a plugin
\* cannot take a command of the agent ("Route %s already defined").
OwnCommandWins ==
  Attached => \A id \in Ids, r \in Names :
    IF \E i \in Calls : Attachments[i].id = id /\ r \in Attachments[i].routes
    THEN Has(id, r) /\ routes[id][r] = Attachments[FirstOf(id, r)].context
    ELSE ~Has(id, r)

\* A thread executes the command it was given, whatever the others have stored
\* in lastCommand since; only "r" is replaced (commandStr is a local).
ExecutesWhatWasTyped ==
  \A k \in Clients : client[k].typed # Repeat => client[k].command = client[k].typed

\* "r" never ends up repeating itself, however the threads interleave, unless
\* somebody gave an empty line: executeCommand stores what "r" stands for.
RepeatSticksOnlyAfterEmpty == lastCommand = Repeat => emptied

Declared(c) ==
  \E i \in Calls :
    /\ Attachments[i].id = (IF c.from = Default THEN Root ELSE c.from)
    /\ c.name \in Attachments[i].routes

\* Once all is attached, no command that some class declares for its id is
\* refused or ends its thread.
DeclaredCommandIsFound ==
  [][\A k \in Clients :
       (Attached /\ client[k].at \in {"looks", "found", "gets"}
          /\ client[k].command \in Known /\ Declared(client[k].command))
         => client'[k].at \notin {"idle", "dead"}]_vars

=============================================================================
