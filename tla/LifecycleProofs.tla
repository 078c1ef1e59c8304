---------------------------- MODULE LifecycleProofs ----------------------------
(***************************************************************************)
(* For any bots, scripts and front-ends: no agent before its scripts, no   *)
(* event lost when run is over, and a shutdown that comes late enough asks *)
(* every bot to unregister.                                                *)
(***************************************************************************)
EXTENDS Lifecycle, TLAPS

-----------------------------------------------------------------------------
(* The invariant *)

Building == {"opened", "initialised", "built"}

\* What BotsManager.run has done when it has come to a stage: there are no
\* agents before "agents", and every one of them is there after it.
RunInv ==
  /\ run = "scripts" => evaluated = loadedScripts
  /\ run = "scripts" => open = {} /\ botAgents = {}
  /\ run = "failed" => open \cup botAgents = {} \/ evaluated = Scripts
  /\ run \notin {"scripts", "failed"} => evaluated = Scripts
  /\ run \in {"launch", "routes", "done"} => botAgents = Bots
  /\ run \in {"routes", "done"} => launched = FrontEnds

\* What the hook has done, if it began when the front-ends were launched.
HookInv ==
  /\ hook.at # "none" /\ hook.from \in {"routes", "done"} =>
       run \in {"routes", "done"} /\ launched = FrontEnds /\ botAgents = Bots
  /\ hook.at = "bots" /\ hook.from \in {"routes", "done"} => hook.iterated = Bots
  /\ hook.at \in {"over", "halted"} /\ hook.from \in {"routes", "done"} => hook.asked = Bots

IInv == TypeOK /\ RunInv /\ HookInv

LEMMA InitInv == Init => IInv
<1> SUFFICES ASSUME Init PROVE IInv
  OBVIOUS
<1>1. /\ run = "scripts" /\ building = NoBot /\ executorRouter = FALSE
      /\ registration \in [Bots -> Registration]
      /\ hook = [at |-> "none", from |-> "scripts", iterated |-> {}, asked |-> {}]
  BY DEF Init, Registration
<1>2. hook \in [at : HookAt, from : Stage, iterated : SUBSET Bots, asked : SUBSET Bots]
  BY <1>1 DEF HookAt, Stage
<1>3. TypeOK
  <2>1. run \in Stage /\ building \in Bots \cup {NoBot}
        /\ (building # NoBot) = (run \in {"opened", "initialised", "built"})
    BY <1>1 DEF Stage
  <2>2. /\ evaluated = {} /\ loadedScripts = {} /\ open = {} /\ bots = {} /\ broken = {}
        /\ botAgents = {} /\ executor = {} /\ launched = {} /\ routes = {} /\ deaf = {} /\ lost = {}
    BY DEF Init
  <2> QED
    BY <1>1, <1>2, <2>1, <2>2 DEF TypeOK
<1>4. RunInv /\ HookInv
  BY DEF Init, RunInv, HookInv
<1> QED
  BY <1>3, <1>4 DEF IInv

\* A step that leaves the hook alone, and keeps run past the launch.
LEMMA HookIsKept ==
  ASSUME HookInv, UNCHANGED hook,
         run \in {"routes", "done"} => run' \in {"routes", "done"} /\ UNCHANGED <<launched, botAgents>>
  PROVE  HookInv'
BY DEF HookInv

\* The scripts are loaded, and only then does run go on.
LEMMA LoadInv ==
  ASSUME IInv, (\E s \in Scripts : LoadScript(s)) \/ ScriptsLoaded
  PROVE  IInv'
<1>1. UNCHANGED <<building, executorRouter, launched, routes, open, bots, broken, botAgents,
                  executor, registration, hook, deaf, lost>>
      /\ run = "scripts"
  BY DEF LoadScript, ScriptsLoaded, Goes, agentVars
<1>2. TypeOK' /\ RunInv'
  <2>1. CASE \E s \in Scripts : LoadScript(s)
    BY <1>1, <2>1 DEF IInv, TypeOK, RunInv, LoadScript, NextScript, Stage
  <2>2. CASE ScriptsLoaded
    BY <1>1, <2>2 DEF IInv, TypeOK, RunInv, ScriptsLoaded, Goes, Stage
  <2> QED
    BY <2>1, <2>2
<1> QED
  BY <1>1, <1>2, HookIsKept DEF IInv

\* The agents are built one after the other.
LEMMA AgentInv ==
  ASSUME IInv, AgentStep
  PROVE  IInv'
<1>1. UNCHANGED <<loadedScripts, evaluated, executorRouter, launched, routes, registration, hook,
                  deaf, lost>>
      /\ run \in {"agents"} \cup Building /\ run' \in {"agents", "failed"} \cup Building
  BY DEF AgentStep, OpenUserAgent, InitBot, InitBotFails, BotIsSet, PutAgent, Goes, Building
<1>2. RunInv' /\ HookInv'
  BY <1>1, HookIsKept DEF IInv, RunInv, Building
<1>3. TypeOK'
  <2>1. ASSUME NEW b \in Bots, OpenUserAgent(b) PROVE TypeOK'
    BY <1>1, <2>1, NoBotAssumption DEF IInv, TypeOK, OpenUserAgent, Goes, Stage
  <2>2. CASE InitBot
    BY <1>1, <2>2 DEF IInv, TypeOK, InitBot, Goes, Stage, agentVars, Task
  <2>3. CASE InitBotFails \/ BotIsSet
    BY <1>1, <2>3 DEF IInv, TypeOK, InitBotFails, BotIsSet, Goes, Stage
  <2>4. CASE PutAgent
    BY <1>1, <2>4 DEF IInv, TypeOK, PutAgent, Goes, Stage
  <2> QED
    BY <2>1, <2>2, <2>3, <2>4 DEF AgentStep
<1> QED
  BY <1>2, <1>3 DEF IInv

\* When all agents are there, the front-ends are launched and the routes attached.
LEMMA LaunchInv ==
  ASSUME IInv,
         \/ SetExecutorRouter \/ FrontEndsLaunched \/ RunReturns
         \/ \E f \in FrontEnds : StartGenericCommands(f)
         \/ \E id \in Bots \cup {Root} : AttachRoutes(id)
  PROVE  IInv'
<1>1. UNCHANGED <<building, loadedScripts, evaluated, open, bots, broken, botAgents, executor,
                  registration, hook, deaf, lost>>
  BY DEF SetExecutorRouter, FrontEndsLaunched, RunReturns, StartGenericCommands, AttachRoutes,
         agentVars
<1>2. TypeOK'
  <2> USE DEF IInv, TypeOK
  <2>1. CASE SetExecutorRouter \/ FrontEndsLaunched \/ RunReturns
    <3>1. /\ run \notin Building /\ run' \notin Building /\ run' \in Stage
          /\ UNCHANGED <<launched, routes>> /\ executorRouter' \in BOOLEAN
      BY <2>1 DEF SetExecutorRouter, FrontEndsLaunched, RunReturns, Goes, Stage, Building
    <3> QED
      BY <1>1, <3>1 DEF Building
  <2>2. ASSUME NEW f \in FrontEnds, StartGenericCommands(f) PROVE TypeOK'
    BY <1>1, <2>2 DEF StartGenericCommands
  <2>3. ASSUME NEW id \in Bots \cup {Root}, AttachRoutes(id) PROVE TypeOK'
    BY <1>1, <2>3 DEF AttachRoutes
  <2> QED
    BY <2>1, <2>2, <2>3
<1>3. RunInv'
  BY <1>1 DEF IInv, RunInv, SetExecutorRouter, FrontEndsLaunched, RunReturns,
         StartGenericCommands, AttachRoutes, Goes
<1>4. HookInv'
  <2>1. run \in {"routes", "done"} => run' \in {"routes", "done"} /\ launched' = launched
    BY DEF SetExecutorRouter, FrontEndsLaunched, RunReturns, StartGenericCommands,
           AttachRoutes, Goes
  <2> QED
    BY <1>1, <2>1, HookIsKept DEF IInv
<1> QED
  BY <1>2, <1>3, <1>4 DEF IInv

\* The pool and the SIP events change what the registrar knows.
LEMMA PoolInv ==
  ASSUME IInv, NEW b \in Bots, PoolStep(b) \/ SipEvent(b)
  PROVE  IInv'
<1>1. UNCHANGED <<startVars, agentVars, hook>>
  BY DEF PoolStep, SipEvent, RunRegister, RunUnregister, RegisterSuccessful, RegisterFailed,
         RegisterAnswered, IncomingCall
<1>2. RunInv' /\ HookInv'
  BY <1>1, HookIsKept DEF IInv, RunInv, startVars, agentVars
<1>3. executor' \subseteq Task /\ registration' \in [Bots -> Registration]
      /\ deaf' \subseteq Bots /\ lost' \subseteq Bots
  BY DEF IInv, TypeOK, PoolStep, SipEvent, RunRegister, RunUnregister, RegisterSuccessful,
         RegisterFailed, RegisterAnswered, IncomingCall, Runs, Hears, Registration
<1>4. TypeOK'
  BY <1>1, <1>3 DEF IInv, TypeOK, startVars, agentVars
<1> QED
  BY <1>2, <1>4 DEF IInv

\* The hook goes from the plugins to the bots; an iteration that begins after
\* the last agent was put is not ended by an exception.
LEMMA HookStepInv ==
  ASSUME IInv, HookStep
  PROVE  IInv'
<1>1. UNCHANGED <<startVars, agentVars, registration, deaf, lost>>
  BY DEF HookStep, ShutdownBegins, StopPlugins, Unregister, HookReturns, Halt
<1>2. RunInv'
  BY <1>1 DEF IInv, RunInv, startVars, agentVars
<1>3. /\ run' = run /\ launched' = launched /\ botAgents' = botAgents
      /\ hook \in [at : HookAt, from : Stage, iterated : SUBSET Bots, asked : SUBSET Bots]
      /\ botAgents \subseteq Bots /\ run \in Stage /\ executor \subseteq Task
  BY <1>1 DEF IInv, TypeOK, startVars, agentVars
<1>4. /\ HookInv'
      /\ hook' \in [at : HookAt, from : Stage, iterated : SUBSET Bots, asked : SUBSET Bots]
      /\ executor' \subseteq Task
  <2>1. CASE ShutdownBegins
    BY <1>3, <2>1 DEF ShutdownBegins, IInv, RunInv, HookInv, HookAt
  <2>2. CASE StopPlugins
    BY <1>3, <2>2 DEF StopPlugins, IInv, HookInv, HookAt
  <2>3. ASSUME NEW b \in Bots, Unregister(b)
        PROVE  /\ HookInv'
               /\ hook' \in [at : HookAt, from : Stage, iterated : SUBSET Bots, asked : SUBSET Bots]
               /\ executor' \subseteq Task
    BY <1>3, <2>3 DEF Unregister, IInv, HookInv, HookAt, Task
  <2>4. CASE HookReturns \/ Halt
    BY <1>3, <2>4 DEF HookReturns, Halt, IInv, HookInv, HookAt
  <2> QED
    BY <2>1, <2>2, <2>3, <2>4 DEF HookStep
<1>5. TypeOK'
  BY <1>1, <1>4 DEF IInv, TypeOK, startVars, agentVars
<1> QED
  BY <1>2, <1>4, <1>5 DEF IInv

LEMMA NextInv == IInv /\ [Next]_vars => IInv'
<1> SUFFICES ASSUME IInv, [Next]_vars PROVE IInv'
  OBVIOUS
<1>1. CASE RunStep
  BY <1>1, LoadInv, AgentInv, LaunchInv DEF RunStep
<1>2. ASSUME NEW b \in Bots, PoolStep(b) \/ SipEvent(b) PROVE IInv'
  BY <1>2, PoolInv
<1>3. CASE HookStep
  BY <1>3, HookStepInv
<1>4. CASE UNCHANGED vars
  BY <1>4 DEF vars, startVars, agentVars, IInv, TypeOK, RunInv, HookInv
<1> QED
  BY <1>1, <1>2, <1>3, <1>4 DEF Next

-----------------------------------------------------------------------------
(* The theorems *)

\* Whatever the threads of the process do in which order, run builds one agent at
\* a time, and a script is evaluated only when it was marked as loaded.
THEOREM TypeCorrect == Spec => []TypeOK
<1>1. IInv => TypeOK
  BY DEF IInv
<1> QED
  BY <1>1, InitInv, NextInv, PTL DEF Spec

\* No agent is built, and no socket opened, before every script was evaluated:
\* loadScript and initBot run in one thread, and a script that fails ends run.
THEOREM ScriptsFirst == Spec => []ScriptsBeforeAgents
<1>1. IInv => ScriptsBeforeAgents
  BY DEF IInv, RunInv, ScriptsBeforeAgents
<1> QED
  BY <1>1, InitInv, NextInv, PTL DEF Spec

\* A shutdown that begins when the front-ends are launched reaches every bot
\* before the machine halts, whatever stage run is in by then.
THEOREM EveryBotIsAsked == Spec => []HookReachesEveryBot
<1>1. IInv => HookReachesEveryBot
  BY DEF IInv, HookInv, HookReachesEveryBot
<1> QED
  BY <1>1, InitInv, NextInv, PTL DEF Spec
-----------------------------------------------------------------------------
(* Every event is heard when run is over *)

\* An agent is put in the map when its script was created or has failed, and the
\* router is set before the front-ends are launched.
HeardInv ==
  /\ botAgents \subseteq bots \cup broken
  /\ run = "built" => building \in bots \cup broken
  /\ run \in {"launch", "routes", "done"} => executorRouter

LEMMA HeardNext == HeardInv /\ [Next]_vars => HeardInv'
<1> SUFFICES ASSUME HeardInv, [Next]_vars PROVE HeardInv'
  OBVIOUS
<1> USE DEF Goes
<1>1. CASE AgentStep
  BY <1>1 DEF AgentStep, OpenUserAgent, InitBot, InitBotFails, BotIsSet, PutAgent, HeardInv,
              agentVars
<1>2. CASE SetExecutorRouter \/ FrontEndsLaunched \/ RunReturns \/ ScriptsLoaded
  BY <1>2 DEF SetExecutorRouter, FrontEndsLaunched, RunReturns, ScriptsLoaded, HeardInv, agentVars
<1>3. ASSUME NEW s \in Scripts, LoadScript(s) PROVE HeardInv'
  BY <1>3 DEF LoadScript, HeardInv, agentVars
<1>4. CASE \/ \E f \in FrontEnds : StartGenericCommands(f)
           \/ \E id \in Bots \cup {Root} : AttachRoutes(id)
  BY <1>4 DEF StartGenericCommands, AttachRoutes, HeardInv, agentVars
<1>5. CASE UNCHANGED <<startVars, agentVars>>
  BY <1>5 DEF HeardInv, startVars, agentVars
<1>6. ASSUME NEW b \in Bots, PoolStep(b) \/ SipEvent(b) PROVE UNCHANGED <<startVars, agentVars>>
  BY <1>6 DEF PoolStep, SipEvent, RunRegister, RunUnregister, RegisterSuccessful,
              RegisterFailed, RegisterAnswered, IncomingCall
<1>7. HookStep => UNCHANGED <<startVars, agentVars>>
  BY DEF HookStep, ShutdownBegins, StopPlugins, Unregister, HookReturns, Halt
<1> QED
  BY <1>1, <1>2, <1>3, <1>4, <1>5, <1>6, <1>7 DEF Next, RunStep, vars

\* What can be lost when every bot has its entry, or none to come, and the router
\* is there.
LEMMA LosesBroken ==
  ASSUME IInv, HeardInv, run = "done", [Next]_vars
  PROVE  lost' \subseteq lost \cup broken \cup deaf /\ deaf' = deaf
<1>1. Bots \subseteq bots \cup broken /\ executorRouter
  BY DEF IInv, RunInv, HeardInv
<1>2. ASSUME NEW b \in Bots, PoolStep(b) \/ SipEvent(b)
      PROVE  lost' \subseteq lost \cup broken \cup deaf /\ deaf' = deaf
  BY <1>1, <1>2 DEF PoolStep, SipEvent, RunRegister, RunUnregister, RegisterSuccessful,
                    RegisterFailed, RegisterAnswered, IncomingCall, Hears
<1>3. RunStep \/ HookStep \/ UNCHANGED vars => lost' = lost /\ deaf' = deaf
  BY DEF RunStep, LoadScript, ScriptsLoaded, AgentStep, OpenUserAgent, InitBot, InitBotFails,
         BotIsSet, PutAgent, SetExecutorRouter, StartGenericCommands, FrontEndsLaunched,
         AttachRoutes, RunReturns, HookStep, ShutdownBegins, StopPlugins, Unregister,
         HookReturns, Halt, vars
<1> QED
  BY <1>2, <1>3 DEF Next

\* For any number of bots: once run is over, whatever the pool, the registrar and
\* the callers do, an event is lost only of a bot whose script could not be
\* created, or whose receiver thread an early call has ended; the set of the latter
\* grows no more.
THEOREM HeardAfterStart == Spec => EventsAfterStartAreHeard
<1>1. Init => HeardInv
  BY DEF Init, HeardInv
<1>2. IInv /\ HeardInv /\ [Next]_vars
        => [run = "done" => lost' \subseteq lost \cup broken \cup deaf /\ deaf' = deaf]_vars
  BY LosesBroken
<1> QED
  BY <1>1, <1>2, InitInv, NextInv, HeardNext, PTL DEF Spec, EventsAfterStartAreHeard

=============================================================================
