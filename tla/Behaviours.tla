------------------------------ MODULE Behaviours ------------------------------
(***************************************************************************)
(* The behaviour scripts (answerHangup, simpleAnswerer, theHeavyOne) over  *)
(* the call machinery of CallControl.  A script runs in two places:        *)
(*  - inside a SIP handler, on the receiver thread of its bot;             *)
(*  - in the functions it gave to setTimeout, which the one timer thread   *)
(*    of the process ("jsEventLoop") runs one after the other, for all the *)
(*    bots.                                                                *)
(* A delay is random (getRandomInt), so a timer that is set may fire at    *)
(* any later moment; the timer thread, the receiver threads and the pool   *)
(* interleave.                                                             *)
(***************************************************************************)
EXTENDS CallControl

CONSTANTS
  behaviour,    \* [Bots -> Behaviour]: the behaviour of peers.conf.json
  SharedCallIds \* TRUE: one Call-ID may reach several bots of the process

Behaviour == {"answerHangup", "simpleAnswerer", "theHeavyOne"}

ASSUME BehaviourAssumption == behaviour \in [Bots -> Behaviour]
ASSUME SharedCallIdsAssumption == SharedCallIds \in BOOLEAN

VARIABLES
  timers,   \* the timers set and not fired
  loop,     \* what the timer thread is doing
  gaveUp,   \* history: the timers of the calls an answer was cancelled for
  blind     \* history: the timers that fired while an answer they go by was
            \* still in the pool

history == <<gaveUp, blind>>
bvars == <<vars, timers, loop, history>>

\* The functions given to setTimeout: the busy and the answer of an incoming
\* call, the hangup of an answered one, the call back of theHeavyOne.
Timer == [fn : {"busy", "answer", "terminate", "callBack"}, bot : Bots, call : Calls]

At(fn, b, c) == [fn |-> fn, bot |-> b, call |-> c]

ASSUME IdleLoopAssumption == Idle \notin Timer

TypeOKB ==
  /\ TypeOK
  /\ timers \subseteq Timer
  /\ loop \in Timer \cup {Idle}
  /\ gaveUp \subseteq Timer /\ blind \subseteq Timer

InitB ==
  /\ Init
  /\ timers = {}
  /\ loop = Idle
  /\ gaveUp = {} /\ blind = {}

-----------------------------------------------------------------------------
(* What the scripts use *)

\* getActiveCall finds a conversation.
ActiveCall(b) == \E c \in Calls : InConversation(b, c)

\* acceptCallByCallId, terminateByCallId, busyByCallId: nothing is submitted
\* for a Call-ID that is no longer in the store.
Ask(op, b, c) ==
  IF GetSipRequest(c) = NoRequest
  THEN UNCHANGED executor
  ELSE Submit([op |-> op, bot |-> b, call |-> c, request |-> GetSipRequest(c)])

SetTimeout(t) == timers' = timers \cup {t}

-----------------------------------------------------------------------------
(* The scripts in the SIP handlers *)

HandlerOf(event, b, c) == callback[b] = [event |-> event, call |-> c]

Return(b) == callback' = [callback EXCEPT ![b] = Idle]

\* A bot in conversation refuses the call, the others answer it later.
AnswerHangupIncomingCall(b, c) ==
  /\ behaviour[b] = "answerHangup"
  /\ HandlerOf("incomingCall", b, c)
  /\ SetTimeout(IF ActiveCall(b) THEN At("busy", b, c) ELSE At("answer", b, c))
  /\ Return(b)
  /\ UNCHANGED <<sipRequests, role, dialog, executor, loop, history>>

\* Seeded fault: the refusing branch forgets the call.
SimpleAnswererIncomingCall_Ignores(b, c) ==
  /\ behaviour[b] = "simpleAnswerer"
  /\ HandlerOf("incomingCall", b, c)
  /\ SetTimeout(At("answer", b, c)) \/ UNCHANGED timers
  /\ Return(b)
  /\ UNCHANGED <<sipRequests, role, dialog, executor, loop, history>>

\* Most calls are answered, some refused at once (maybe(80, 100)).
SimpleAnswererIncomingCall(b, c) ==
  /\ behaviour[b] = "simpleAnswerer"
  /\ HandlerOf("incomingCall", b, c)
  /\ \/ SetTimeout(At("answer", b, c)) /\ UNCHANGED executor
     \/ Ask("busy", b, c) /\ UNCHANGED timers
  /\ Return(b)
  /\ UNCHANGED <<sipRequests, role, dialog, loop, history>>

\* The default behaviour only logs the call.
DefaultIncomingCall(b, c) ==
  /\ behaviour[b] = "theHeavyOne"
  /\ IncomingCallReturns(b, c)
  /\ UNCHANGED <<timers, loop, history>>

\* theHeavyOne calls back, when it recognises the From of the request.
HeavyOneRemoteHangup(b, c) ==
  /\ behaviour[b] = "theHeavyOne"
  /\ RemoteHangupReturns(b, c)
  /\ SetTimeout(At("callBack", b, c)) \/ UNCHANGED timers
  /\ UNCHANGED <<loop, history>>

DefaultRemoteHangup(b, c) ==
  /\ behaviour[b] # "theHeavyOne"
  /\ RemoteHangupReturns(b, c)
  /\ UNCHANGED <<timers, loop, history>>

-----------------------------------------------------------------------------
(* The timer thread *)

\* A timer fires when the thread is free, and sets another or none.
Due(t) == loop = Idle /\ t \in timers

Fires(t) == Due(t) /\ timers' = timers \ {t}

FiresAndSets(t, u) == Due(t) /\ timers' = (timers \ {t}) \cup {u}

FireBusy(b, c) ==
  /\ Fires(At("busy", b, c))
  /\ Ask("busy", b, c)
  /\ UNCHANGED <<sipRequests, role, dialog, callback, loop, history>>

\* An answer of the bot waits in the pool: no dialog tells of it yet.
AnswerPending(b, c) ==
  \E r \in Bots : Runs([op |-> "accept", bot |-> b, call |-> c, request |-> r])

\* The timer t goes by the dialogs, and an answer to one of the calls of cs is
\* still to change them.
Sees(t, b, cs) ==
  blind' = IF \E c \in cs : AnswerPending(b, c) THEN blind \cup {t} ELSE blind

\* Seeded fault: the timer answers whatever the bot is doing.
FireAnswer_Unchecked(b, c) ==
  /\ behaviour[b] = "answerHangup"
  /\ Fires(At("answer", b, c))
  /\ loop' = At("answer", b, c)
  /\ Sees(At("answer", b, c), b, Calls)
  /\ UNCHANGED <<sipRequests, role, dialog, executor, callback, gaveUp>>

\* The answer of answerHangup looks for a conversation first...
FireAnswer(b, c) ==
  /\ behaviour[b] = "answerHangup"
  /\ Fires(At("answer", b, c))
  /\ IF ActiveCall(b)
     THEN /\ gaveUp' = gaveUp \cup {At("answer", b, c)}
          /\ UNCHANGED <<loop, blind>>
     ELSE /\ loop' = At("answer", b, c)
          /\ Sees(At("answer", b, c), b, Calls)
          /\ UNCHANGED gaveUp
  /\ UNCHANGED <<sipRequests, role, dialog, executor, callback>>

\* Seeded fault: the hangup is not armed.
Answer_NoHangup(b, c) ==
  /\ loop = At("answer", b, c)
  /\ loop' = Idle
  /\ Ask("accept", b, c)
  /\ UNCHANGED <<sipRequests, role, dialog, callback, timers, history>>

\* ... and accepts after that.
Answer(b, c) ==
  /\ loop = At("answer", b, c)
  /\ loop' = Idle
  /\ Ask("accept", b, c)
  /\ SetTimeout(At("terminate", b, c))
  /\ UNCHANGED <<sipRequests, role, dialog, callback, history>>

\* simpleAnswerer accepts without looking.
FireSimpleAnswer(b, c) ==
  /\ behaviour[b] = "simpleAnswerer"
  /\ FiresAndSets(At("answer", b, c), At("terminate", b, c))
  /\ Ask("accept", b, c)
  /\ UNCHANGED <<sipRequests, role, dialog, callback, loop, history>>

FireTerminate(b, c) ==
  /\ Fires(At("terminate", b, c))
  /\ Ask("terminate", b, c)
  /\ Sees(At("terminate", b, c), b, {c})
  /\ UNCHANGED <<sipRequests, role, dialog, callback, loop, gaveUp>>

\* theHeavyOne passes a string to call, which takes CommandArgs: the call
\* throws, and the event loop prints what its functions throw.
FireCallBack(b, c) ==
  /\ Fires(At("callBack", b, c))
  /\ UNCHANGED <<vars, loop, history>>

-----------------------------------------------------------------------------
(* The specification *)

ScriptHandlerStep(b, c) ==
  \/ AnswerHangupIncomingCall(b, c)
  \/ SimpleAnswererIncomingCall(b, c)
  \/ DefaultIncomingCall(b, c)
  \/ HeavyOneRemoteHangup(b, c)
  \/ DefaultRemoteHangup(b, c)

TimerStep(b, c) ==
  \/ FireBusy(b, c)
  \/ FireAnswer(b, c)
  \/ Answer(b, c)
  \/ FireSimpleAnswer(b, c)
  \/ FireTerminate(b, c)
  \/ FireCallBack(b, c)

\* No command is given: the calls of the bots are the ones they receive.
FarEndStep(b, c) ==
  /\ \/ IncomingCall(b, c) /\ (SharedCallIds \/ Fresh(c))
     \/ RemoteHangup(b, c)
  /\ UNCHANGED <<timers, loop, history>>

PoolStep(b) == RequestTaskStep(b) /\ UNCHANGED <<timers, loop, history>>

NextB ==
  \E b \in Bots :
    \/ PoolStep(b)
    \/ \E c \in Calls : \/ ScriptHandlerStep(b, c)
                        \/ TimerStep(b, c)
                        \/ FarEndStep(b, c)

SpecB == InitB /\ [][NextB]_bvars

\* The pool runs its tasks, a handler returns, and the timer thread goes on
\* while a timer is due.  Nothing is assumed of the far end.
FairnessB ==
  /\ \A b \in Bots : /\ WF_bvars(PoolStep(b))
                    /\ WF_bvars(\E c \in Calls : ScriptHandlerStep(b, c))
  /\ WF_bvars(\E b \in Bots, c \in Calls : TimerStep(b, c))

FairSpecB == SpecB /\ FairnessB

-----------------------------------------------------------------------------
(* Properties *)

\* An answerHangup bot is not in two conversations: it refuses a call that comes
\* during one, and looks again before it answers ("cancelled, already in
\* conversation").  The answer itself is only submitted to the pool, and the one
\* way into a second conversation is to look before an answer was run.
OneConversation ==
  \A b \in Bots :
    behaviour[b] = "answerHangup"
      => \A c, d \in Calls :
           InConversation(b, c) /\ InConversation(b, d) /\ c # d
             => {At("answer", b, c), At("answer", b, d)} \cap blind # {}

\* What it rests on: a bot is engaged in a call from the test of the answer timer
\* to the end of the conversation, and looks for none while another is under way.
Engaged(b, c) ==
  \/ InConversation(b, c)
  \/ loop = At("answer", b, c)
  \/ AnswerPending(b, c)

OneEngagement ==
  \A b \in Bots :
    behaviour[b] = "answerHangup"
      => \A c, d \in Calls :
           Engaged(b, c) /\ Engaged(b, d) /\ c # d
             => {At("answer", b, c), At("answer", b, d)} \cap blind # {}

\* A call a bot answered is hung up ("will hang in", "terminate in"): the
\* request the hangup needs is still in the store when its timer fires.  Only a
\* hangup asked for before the answer was run may be run before it, and be void.
AnsweredCallEnds ==
  \A b \in Bots, c \in Calls :
    InConversation(b, c)
      ~> (~InConversation(b, c) \/ At("terminate", b, c) \in blind)

\* An answerer does not let a call ring for ever: it is answered, refused, or
\* was given up because of another conversation.
RingingCallIsDecided ==
  \A b \in Bots, c \in Calls :
    (behaviour[b] # "theHeavyOne" /\ dialog[b][c] = "early")
      ~> (dialog[b][c] # "early" \/ At("answer", b, c) \in gaveUp)

=============================================================================
