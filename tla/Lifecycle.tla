------------------------------ MODULE Lifecycle ------------------------------
(***************************************************************************)
(* The life of the process: BotsManager.run loads the scripts, builds the  *)
(* agents, launches the command front-ends and attaches the routes, while  *)
(*  - the pool runs the registrations the new bots submitted,              *)
(*  - the bots that have a socket receive SIP events, and                  *)
(*  - a signal may start the shutdown hook, which stops the plugins and    *)
(*    unregisters the bots before the virtual machine halts.               *)
(* Nothing joins these threads: the hook reads the map of the agents that  *)
(* run may still be filling.  The SIP registrar is external.               *)
(***************************************************************************)
EXTENDS FiniteSets

CONSTANTS
  Bots,       \* the bots of peers.conf.json
  script,     \* [Bots -> Scripts]: the behaviour script of each
  BaseScript, \* run.js, with environment.js, and _default.js
  NoBot,      \* no agent under construction
  FrontEnds,  \* the plugins that launch a thread their stop() sets a flag of
  Root        \* the id of the routes of the BotsManager

ASSUME NoBotAssumption == NoBot \notin Bots
ASSUME RootAssumption == Root \notin Bots

Scripts == {BaseScript} \cup {script[b] : b \in Bots}

VARIABLES
  run,            \* where BotsManager.run is
  building,       \* the bot whose BotAgent is being built
  loadedScripts,  \* the names loadScript has marked
  evaluated,      \* the scripts that were really evaluated
  open,           \* the bots with a peers user agent: events can arrive
  bots,           \* the bots with an entry in the bots object of the scripts
  broken,         \* the bots whose constructor or init threw
  botAgents,      \* the map of the agents
  executor,       \* the tasks in the pool
  registration,   \* [Bots -> Registration]: the bot, seen by the registrar
  executorRouter, \* whether the router is set
  launched,       \* the front-ends whose thread exists
  routes,         \* the ids whose routes are attached
  hook,           \* the shutdown hook
  deaf,           \* the bots whose receiver thread ended
  lost            \* history: the bots an event was lost of

agentVars == <<open, bots, broken, botAgents>>
startVars == <<run, building, loadedScripts, evaluated, executorRouter, launched, routes>>
vars == <<startVars, agentVars, executor, registration, hook, deaf, lost>>

Stage == {"scripts", "agents", "opened", "initialised", "built", "launch", "routes",
          "done", "failed"}

Registration == {"never", "sent", "yes", "no"}

Task == [op : {"register", "unregister"}, bot : Bots]

HookAt == {"none", "plugins", "bots", "over", "halted"}

TypeOK ==
  /\ run \in Stage
  /\ building \in Bots \cup {NoBot}
  /\ (building # NoBot) = (run \in {"opened", "initialised", "built"})
  /\ evaluated \subseteq loadedScripts /\ loadedScripts \subseteq Scripts
  /\ open \subseteq Bots /\ bots \subseteq Bots /\ broken \subseteq Bots
  /\ botAgents \subseteq Bots
  /\ executor \subseteq Task
  /\ registration \in [Bots -> Registration]
  /\ executorRouter \in BOOLEAN
  /\ launched \subseteq FrontEnds
  /\ routes \subseteq Bots \cup {Root}
  /\ hook \in [at : HookAt, from : Stage, iterated : SUBSET Bots, asked : SUBSET Bots]
  /\ deaf \subseteq Bots /\ lost \subseteq Bots

Init ==
  /\ run = "scripts" /\ building = NoBot
  /\ loadedScripts = {} /\ evaluated = {}
  /\ open = {} /\ bots = {} /\ broken = {} /\ botAgents = {}
  /\ executor = {}
  /\ registration = [b \in Bots |-> "never"]
  /\ executorRouter = FALSE /\ launched = {} /\ routes = {}
  /\ hook = [at |-> "none", from |-> "scripts", iterated |-> {}, asked |-> {}]
  /\ deaf = {} /\ lost = {}

Up == hook.at # "halted"

Goes(from, to) == Up /\ run = from /\ run' = to

-----------------------------------------------------------------------------
(* BotsManager.run *)

\* The next script: the base first, then those of the bots.
NextScript(s) ==
  /\ s \in Scripts \ loadedScripts
  /\ s # BaseScript => BaseScript \in loadedScripts

\* A script is marked before it is evaluated; one that fails ends run.
LoadScript(s) ==
  /\ Up /\ run = "scripts" /\ NextScript(s)
  /\ loadedScripts' = loadedScripts \cup {s}
  /\ \/ evaluated' = evaluated \cup {s} /\ UNCHANGED run
     \/ run' = "failed" /\ UNCHANGED evaluated
  /\ UNCHANGED <<building, executorRouter, launched, routes>>
  /\ UNCHANGED <<agentVars, executor, registration, hook, deaf, lost>>

ScriptsLoaded ==
  /\ Goes("scripts", "agents")
  /\ loadedScripts = Scripts
  /\ UNCHANGED <<building, loadedScripts, evaluated, executorRouter, launched, routes>>
  /\ UNCHANGED <<agentVars, executor, registration, hook, deaf, lost>>

\* new BotAgent: the user agent is first, or a SocketException.
OpenUserAgent(b) ==
  /\ Goes("agents", "opened")
  /\ b \notin botAgents
  /\ building' = b
  /\ open' = open \cup {b} \/ UNCHANGED open
  /\ UNCHANGED <<loadedScripts, evaluated, executorRouter, launched, routes>>
  /\ UNCHANGED <<bots, broken, botAgents, executor, registration, hook, deaf, lost>>

\* initBot runs the constructor of the script, whose init ends by register.
InitBot ==
  /\ Goes("opened", "initialised")
  /\ executor' = executor \cup {[op |-> "register", bot |-> building]}
  /\ UNCHANGED <<building, loadedScripts, evaluated, executorRouter, launched, routes>>
  /\ UNCHANGED <<agentVars, registration, hook, deaf, lost>>

\* What the script throws is logged, and the agent stays, without a script; what
\* Java throws in a call of it ends run.
InitBotFails ==
  /\ \/ Goes("opened", "built") /\ UNCHANGED building
     \/ Goes("opened", "failed") /\ building' = NoBot
  /\ broken' = broken \cup {building}
  /\ UNCHANGED <<loadedScripts, evaluated, executorRouter, launched, routes>>
  /\ UNCHANGED <<open, bots, botAgents, executor, registration, hook, deaf, lost>>

\* The entry of bots is set when the constructor has returned.
BotIsSet ==
  /\ Goes("initialised", "built")
  /\ bots' = bots \cup {building}
  /\ UNCHANGED <<building, loadedScripts, evaluated, executorRouter, launched, routes>>
  /\ UNCHANGED <<open, broken, botAgents, executor, registration, hook, deaf, lost>>

PutAgent ==
  /\ Goes("built", "agents")
  /\ botAgents' = botAgents \cup {building}
  /\ building' = NoBot
  /\ UNCHANGED <<loadedScripts, evaluated, executorRouter, launched, routes>>
  /\ UNCHANGED <<open, bots, broken, executor, registration, hook, deaf, lost>>

\* Seeded fault: the router the front-ends get is not the one of the bots.
SetExecutorRouter_Local ==
  /\ Goes("agents", "launch")
  /\ botAgents = Bots
  /\ UNCHANGED <<building, loadedScripts, evaluated, executorRouter, launched, routes>>
  /\ UNCHANGED <<agentVars, executor, registration, hook, deaf, lost>>

SetExecutorRouter ==
  /\ Goes("agents", "launch")
  /\ botAgents = Bots
  /\ executorRouter' = TRUE
  /\ UNCHANGED <<building, loadedScripts, evaluated, launched, routes>>
  /\ UNCHANGED <<agentVars, executor, registration, hook, deaf, lost>>

StartGenericCommands(f) ==
  /\ Up /\ run = "launch" /\ f \notin launched
  /\ launched' = launched \cup {f}
  /\ UNCHANGED <<run, building, loadedScripts, evaluated, executorRouter, routes>>
  /\ UNCHANGED <<agentVars, executor, registration, hook, deaf, lost>>

FrontEndsLaunched ==
  /\ Goes("launch", "routes")
  /\ launched = FrontEnds
  /\ UNCHANGED <<building, loadedScripts, evaluated, executorRouter, launched, routes>>
  /\ UNCHANGED <<agentVars, executor, registration, hook, deaf, lost>>

\* The routes of the manager are attached first.
AttachRoutes(id) ==
  /\ Up /\ run = "routes" /\ id \in (botAgents \cup {Root}) \ routes
  /\ id # Root => Root \in routes
  /\ routes' = routes \cup {id}
  /\ UNCHANGED <<run, building, loadedScripts, evaluated, executorRouter, launched>>
  /\ UNCHANGED <<agentVars, executor, registration, hook, deaf, lost>>

\* Seeded fault: run is over before the routes of the agents are attached.
RunReturns_Early ==
  /\ Goes("routes", "done")
  /\ routes = {Root}
  /\ UNCHANGED <<building, loadedScripts, evaluated, executorRouter, launched, routes>>
  /\ UNCHANGED <<agentVars, executor, registration, hook, deaf, lost>>

RunReturns ==
  /\ Goes("routes", "done")
  /\ routes = botAgents \cup {Root}
  /\ UNCHANGED <<building, loadedScripts, evaluated, executorRouter, launched, routes>>
  /\ UNCHANGED <<agentVars, executor, registration, hook, deaf, lost>>

-----------------------------------------------------------------------------
(* The pool and the SIP events *)

\* botCb finds no method in an undefined entry: the error is logged, and the
\* event is lost; so is what a receiver thread that ended would have read.
Hears(b, listening) == lost' = IF b \in bots /\ listening THEN lost ELSE lost \cup {b}

Runs(op, b) ==
  /\ Up
  /\ [op |-> op, bot |-> b] \in executor
  /\ executor' = executor \ {[op |-> op, bot |-> b]}

\* A bot without a user agent throws in the task, where nobody sees it.
RunRegister(b) ==
  /\ Runs("register", b)
  /\ IF b \in open
     THEN registration' = [registration EXCEPT ![b] = "sent"] /\ Hears(b, TRUE)
     ELSE UNCHANGED <<registration, lost>>
  /\ UNCHANGED <<startVars, agentVars, hook, deaf>>

\* The registrar answers.
RegisterAnswered(b, answer) ==
  /\ Up /\ registration[b] = "sent"
  /\ registration' = [registration EXCEPT ![b] = answer]
  /\ Hears(b, b \notin deaf)
  /\ UNCHANGED <<startVars, agentVars, executor, hook, deaf>>

RegisterSuccessful(b) == RegisterAnswered(b, "yes")

RegisterFailed(b) == RegisterAnswered(b, "no")

RunUnregister(b) ==
  /\ Runs("unregister", b)
  /\ registration' = [registration EXCEPT ![b] = IF b \in open THEN "no" ELSE @]
  /\ UNCHANGED <<startVars, agentVars, hook, deaf, lost>>

\* The script of an incoming call runs a command (setVoice) before it decides
\* anything.  Without a router execute throws a NullPointerException, which
\* JSCallback does not catch: it leaves the handler, and ends the receiver thread of
\* the user agent unless peers catches it.
IncomingCall(b) ==
  /\ Up /\ b \in open
  /\ Hears(b, b \notin deaf /\ executorRouter)
  /\ \/ UNCHANGED deaf
     \/ b \in bots /\ ~executorRouter /\ deaf' = deaf \cup {b}
  /\ UNCHANGED <<startVars, agentVars, executor, registration, hook>>

-----------------------------------------------------------------------------
(* The shutdown hook *)

ShutdownBegins ==
  /\ hook.at = "none"
  /\ hook' = [hook EXCEPT !.at = "plugins", !.from = run]
  /\ UNCHANGED <<startVars, agentVars, executor, registration, deaf, lost>>

\* The stop of a front-end that was not launched throws, and ends the hook.
StopPlugins ==
  /\ hook.at = "plugins"
  /\ hook' = IF launched = FrontEnds
             THEN [hook EXCEPT !.at = "bots", !.iterated = botAgents]
             ELSE [hook EXCEPT !.at = "over"]
  /\ UNCHANGED <<startVars, agentVars, executor, registration, deaf, lost>>

\* Seeded fault: the hook unregisters by itself, and a bot without a user agent
\* ends its loop.
Unregister_Inline(b) ==
  /\ hook.at = "bots" /\ b \in hook.iterated \ hook.asked
  /\ hook' = IF b \in open THEN [hook EXCEPT !.asked = @ \cup {b}]
                          ELSE [hook EXCEPT !.at = "over"]
  /\ registration' = [registration EXCEPT ![b] = IF b \in open THEN "no" ELSE @]
  /\ UNCHANGED <<startVars, agentVars, executor, deaf, lost>>

\* An agent put in the map meanwhile makes the iterator throw.
Unregister(b) ==
  /\ hook.at = "bots" /\ b \in hook.iterated \ hook.asked
  /\ IF botAgents # hook.iterated
     THEN hook' = [hook EXCEPT !.at = "over"] /\ UNCHANGED executor
     ELSE /\ executor' = executor \cup {[op |-> "unregister", bot |-> b]}
          /\ hook' = [hook EXCEPT !.asked = @ \cup {b}]
  /\ UNCHANGED <<startVars, agentVars, registration, deaf, lost>>

HookReturns ==
  /\ hook.at = "bots" /\ hook.iterated = hook.asked
  /\ hook' = [hook EXCEPT !.at = "over"]
  /\ UNCHANGED <<startVars, agentVars, executor, registration, deaf, lost>>

\* The machine does not wait for the pool.
Halt ==
  /\ hook.at = "over"
  /\ hook' = [hook EXCEPT !.at = "halted"]
  /\ UNCHANGED <<startVars, agentVars, executor, registration, deaf, lost>>

-----------------------------------------------------------------------------
(* The specification *)

AgentStep ==
  \/ \E b \in Bots : OpenUserAgent(b)
  \/ InitBot
  \/ InitBotFails
  \/ BotIsSet
  \/ PutAgent

RunStep ==
  \/ \E s \in Scripts : LoadScript(s)
  \/ ScriptsLoaded
  \/ AgentStep
  \/ SetExecutorRouter
  \/ \E f \in FrontEnds : StartGenericCommands(f)
  \/ FrontEndsLaunched
  \/ \E id \in Bots \cup {Root} : AttachRoutes(id)
  \/ RunReturns

PoolStep(b) == RunRegister(b) \/ RunUnregister(b)

SipEvent(b) == RegisterSuccessful(b) \/ RegisterFailed(b) \/ IncomingCall(b)

HookStep ==
  \/ ShutdownBegins
  \/ StopPlugins
  \/ \E b \in Bots : Unregister(b)
  \/ HookReturns
  \/ Halt

Next ==
  \/ RunStep
  \/ \E b \in Bots : PoolStep(b) \/ SipEvent(b)
  \/ HookStep

Spec == Init /\ [][Next]_vars

\* The main thread and the threads of the pool are not stopped by anything but
\* the end of the machine.
Fairness == WF_vars(RunStep) /\ \A b \in Bots : WF_vars(PoolStep(b))

FairSpec == Spec /\ Fairness

-----------------------------------------------------------------------------
(* Properties *)

\* An agent is only built, and its socket only opened, when every script was
\* evaluated: initBot finds the behaviour of every bot (loadScript fails run).
ScriptsBeforeAgents == open \cup botAgents # {} => evaluated = Scripts

\* When run is over, every event of a bot reaches its script, with a router for
\* its commands, unless the script was not created, or the bot lost its receiver
\* thread to an early call; no bot loses it any more.
EventsAfterStartAreHeard ==
  [][run = "done" => lost' \subseteq lost \cup broken \cup deaf /\ deaf' = deaf]_vars

\* A shutdown that begins when the front-ends are launched asks every bot to
\* unregister: neither their stop nor the iteration over the agents can fail
\* any more, nor can a bot that never got a user agent end the loop.
HookReachesEveryBot ==
  (hook.at = "halted" /\ hook.from \in {"routes", "done"}) => hook.asked = Bots

\* Unless a script does not load or a shutdown begins, every route is attached
\* and every bot that was built whole asks to be registered.
StartupCompletes ==
  (run = "scripts")
    ~> \/ run = "failed"
       \/ hook.at # "none"
       \/ /\ routes = Bots \cup {Root}
          /\ \A b \in open \ broken : registration[b] # "never"

=============================================================================
