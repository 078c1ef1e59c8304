----------------------------- MODULE CallControl -----------------------------
(***************************************************************************)
(* The call machinery of one botRunner process: the BotAgents, the cached  *)
(* thread pool they submit their SIP operations to, and the request store  *)
(* of the BotsManager that all of them share.                              *)
(*                                                                         *)
(* Four kinds of threads meet here.                                        *)
(*  - The receiver thread of each bot's peers user agent delivers the SIP  *)
(*    events one at a time (incomingCall, remoteHangup, ...).  A handler   *)
(*    runs a script in the middle (JSCallback); the store is touched       *)
(*    before it (incomingCall) or after it (remoteHangup).                 *)
(*  - Scripts and commands call acceptCallByCallId, terminateByCallId,     *)
(*    busyByCallId, invite and call.  The request is looked up at once,    *)
(*    the SIP operation is only submitted.                                 *)
(*  - The pool runs every submitted task on a thread of its own, so tasks  *)
(*    run in any order, whatever the order of their submission.            *)
(*  - The far end of each call, through the peers library: it is external, *)
(*    and modelled by the state of its dialogs, which the tasks move and   *)
(*    getActiveCall reads.                                                 *)
(*                                                                         *)
(* A Call-ID is one key of the store whatever the bots it reaches: with a  *)
(* SIP proxy that keeps Call-IDs, a bot calling another bot of the process *)
(* or a group call to two of them gives two requests with one Call-ID.     *)
(*                                                                         *)
(* Left out: lastStatus, which only the printout of the list command       *)
(* reads, and lastCallId, which nothing reads.  The store is a HashMap that*)
(* is used without a lock: each put, get and remove is one step here, and  *)
(* what two of them at once may do to its buckets is left out.             *)
(***************************************************************************)
EXTENDS Naturals, FiniteSets

CONSTANTS
  Bots,        \* the BotAgents of the process
  Calls,       \* Call-IDs
  NoRequest,   \* what getSipRequest answers for an unknown Call-ID (null)
  Idle,        \* a receiver thread that is not inside a handler
  MaxPending,  \* bound: distinct tasks waiting in the pool when one is added
  MaxCopies    \* bound: copies of one task waiting in the pool

ASSUME NoRequestAssumption == NoRequest \notin Bots
ASSUME IdleAssumption == \A c \in Calls : \A e \in {"incomingCall", "remoteHangup"} :
                            Idle # [event |-> e, call |-> c]
ASSUME BoundsAssumption == MaxPending \in Nat /\ MaxCopies \in Nat

VARIABLES
  sipRequests, \* [Calls -> Bots or NoRequest]: whose request the store holds
  role,        \* [Bots -> [Calls -> Role]]: how the bot came to the call
  dialog,      \* [Bots -> [Calls -> DialogState]]: the peers dialogs
  executor,    \* [Task -> Nat]: the tasks submitted and not finished
  callback     \* [Bots -> Handler]: the handler its receiver thread is in

vars == <<sipRequests, role, dialog, executor, callback>>

-----------------------------------------------------------------------------
(* Types *)

Role == {"none", "in", "out"}

\* "hungup" and "ended" are peers' TERMINATED, kept apart by who ended it.
DialogState == {"none", "early", "confirmed", "ended", "hungup"}

Handler == [event : {"incomingCall", "remoteHangup"}, call : Calls] \cup {Idle}

\* A task is the rest of its run() method: invite and call go on, after the
\* INVITE was sent, as the task that stores the request.
InviteTask  == [op : {"invite", "call"}, bot : Bots]
StoreTask   == [op : {"storeInvite", "storeCall", "inviteCallback"}, bot : Bots, call : Calls]
RequestTask == [op : {"accept", "terminate", "busy"}, bot : Bots, call : Calls, request : Bots]
Task == InviteTask \cup StoreTask \cup RequestTask

\* Every variable keeps its type.
TypeOK ==
  /\ sipRequests \in [Calls -> Bots \cup {NoRequest}]
  /\ role \in [Bots -> [Calls -> Role]]
  /\ dialog \in [Bots -> [Calls -> DialogState]]
  /\ executor \in [Task -> Nat]
  /\ callback \in [Bots -> Handler]

Init ==
  /\ sipRequests = [c \in Calls |-> NoRequest]
  /\ role = [b \in Bots |-> [c \in Calls |-> "none"]]
  /\ dialog = [b \in Bots |-> [c \in Calls |-> "none"]]
  /\ executor = [t \in Task |-> 0]
  /\ callback = [b \in Bots |-> Idle]

-----------------------------------------------------------------------------
(* The request store *)

StoreSipRequest(c, b) ==
  IF sipRequests[c] = NoRequest
  THEN [sipRequests EXCEPT ![c] = b]
  ELSE sipRequests

\* Seeded fault: remoteHangup forgets to remove.
RemoveSipRequest_Forgets(c) == sipRequests

RemoveSipRequest(c) == [sipRequests EXCEPT ![c] = NoRequest]

GetSipRequest(c) == sipRequests[c]

(* The executor *)

Pending == {t \in Task : executor[t] > 0}

HasRoom(t) == Cardinality(Pending) < MaxPending /\ executor[t] < MaxCopies

Submit(t) == executor' = [executor EXCEPT ![t] = @ + 1]

Runs(t) == executor[t] > 0

Finish(t) == executor' = [executor EXCEPT ![t] = @ - 1]

FinishAndSubmit(t, u) == executor' = [executor EXCEPT ![t] = @ - 1, ![u] = @ + 1]

(* The peers user agent *)

SetDialog(b, c, s) == dialog' = [dialog EXCEPT ![b][c] = s]

\* The call getActiveCall finds: a dialog neither EARLY nor TERMINATED.
InConversation(b, c) == dialog[b][c] = "confirmed"

-----------------------------------------------------------------------------
(* What the scripts and the commands of a bot ask for.  They know a Call-ID  *)
(* from the events of their own bot.                                         *)

RequestOperation(op, b, c) ==
  /\ role[b][c] # "none"
  /\ GetSipRequest(c) # NoRequest
  /\ LET t == [op |-> op, bot |-> b, call |-> c, request |-> GetSipRequest(c)]
     IN  HasRoom(t) /\ Submit(t)
  /\ UNCHANGED <<sipRequests, role, dialog, callback>>

\* pickupByCallId does the same.
AcceptCallByCallId(b, c) == role[b][c] = "in" /\ RequestOperation("accept", b, c)

\* Seeded fault: the request is removed when the hangup is asked for, before
\* the task ended the call.
TerminateByCallId_Removes(b, c) ==
  /\ role[b][c] # "none"
  /\ GetSipRequest(c) # NoRequest
  /\ LET t == [op |-> "terminate", bot |-> b, call |-> c, request |-> GetSipRequest(c)]
     IN  HasRoom(t) /\ Submit(t)
  /\ sipRequests' = RemoveSipRequest(c)
  /\ UNCHANGED <<role, dialog, callback>>

TerminateByCallId(b, c) == RequestOperation("terminate", b, c)

BusyByCallId(b, c) == role[b][c] = "in" /\ RequestOperation("busy", b, c)

InviteOperation(op, b) ==
  /\ HasRoom([op |-> op, bot |-> b])
  /\ Submit([op |-> op, bot |-> b])
  /\ UNCHANGED <<sipRequests, role, dialog, callback>>

Invite(b) == InviteOperation("invite", b)

Call(b) == InviteOperation("call", b)

-----------------------------------------------------------------------------
(* The tasks *)

\* Seeded fault: the answer looks the dialog up too early and finds none.
RunAccept_NoDialog(b, c, r) ==
  LET t == [op |-> "accept", bot |-> b, call |-> c, request |-> r]
  IN  /\ Runs(t)
      /\ Finish(t)
      /\ UNCHANGED <<sipRequests, role, dialog, callback>>

\* userAgent.acceptCall finds the dialog by Call-ID when it runs, and answers
\* the INVITE transaction of the request it was given: a transaction that
\* another bot's user agent received is unknown to this one.
RunAccept(b, c, r) ==
  LET t == [op |-> "accept", bot |-> b, call |-> c, request |-> r]
  IN  /\ Runs(t)
      /\ Finish(t)
      /\ IF r = b /\ dialog[b][c] = "early"
         THEN SetDialog(b, c, "confirmed")
         ELSE UNCHANGED dialog
      /\ UNCHANGED <<sipRequests, role, callback>>

\* A BYE ends a confirmed dialog, a CANCEL one of the bot's own early calls.
RunTerminate(b, c, r) ==
  LET t == [op |-> "terminate", bot |-> b, call |-> c, request |-> r]
  IN  /\ Runs(t)
      /\ Finish(t)
      /\ IF \/ dialog[b][c] = "confirmed"
            \/ dialog[b][c] = "early" /\ role[b][c] = "out" /\ r = b
         THEN SetDialog(b, c, "ended")
         ELSE UNCHANGED dialog
      /\ UNCHANGED <<sipRequests, role, callback>>

RunBusy(b, c, r) ==
  LET t == [op |-> "busy", bot |-> b, call |-> c, request |-> r]
  IN  /\ Runs(t)
      /\ Finish(t)
      /\ IF r = b /\ dialog[b][c] = "early"
         THEN SetDialog(b, c, "ended")
         ELSE UNCHANGED dialog
      /\ UNCHANGED <<sipRequests, role, callback>>

Fresh(c) == \A o \in Bots : role[o][c] = "none"

\* userAgent.invite sends the INVITE with a new Call-ID and returns its
\* request; the task still has to store it.
SendInvite(op, next, b, c) ==
  /\ Runs([op |-> op, bot |-> b])
  /\ Fresh(c)
  /\ role' = [role EXCEPT ![b][c] = "out"]
  /\ FinishAndSubmit([op |-> op, bot |-> b], [op |-> next, bot |-> b, call |-> c])
  /\ UNCHANGED <<sipRequests, dialog, callback>>

RunInvite(b, c) == SendInvite("invite", "storeInvite", b, c)

RunCall(b, c) == SendInvite("call", "storeCall", b, c)

\* SipUriSyntaxException: logged, nothing stored.
InviteFails(op, b) ==
  /\ Runs([op |-> op, bot |-> b])
  /\ Finish([op |-> op, bot |-> b])
  /\ UNCHANGED <<sipRequests, role, dialog, callback>>

RunInviteFails(b) == InviteFails("invite", b)

RunCallFails(b) == InviteFails("call", b)

RunStoreInvite(b, c) ==
  LET t == [op |-> "storeInvite", bot |-> b, call |-> c]
  IN  /\ Runs(t)
      /\ sipRequests' = StoreSipRequest(c, b)
      /\ FinishAndSubmit(t, [op |-> "inviteCallback", bot |-> b, call |-> c])
      /\ UNCHANGED <<role, dialog, callback>>

\* Seeded fault: call drops the request invite returned.
RunStoreCall_Drops(b, c) ==
  LET t == [op |-> "storeCall", bot |-> b, call |-> c]
  IN  /\ Runs(t)
      /\ Finish(t)
      /\ UNCHANGED <<sipRequests, role, dialog, callback>>

RunStoreCall(b, c) ==
  LET t == [op |-> "storeCall", bot |-> b, call |-> c]
  IN  /\ Runs(t)
      /\ sipRequests' = StoreSipRequest(c, b)
      /\ Finish(t)
      /\ UNCHANGED <<role, dialog, callback>>

\* setInviteSipRequest tells the script the request that was sent.
RunInviteCallback(b, c) ==
  LET t == [op |-> "inviteCallback", bot |-> b, call |-> c]
  IN  /\ Runs(t)
      /\ Finish(t)
      /\ UNCHANGED <<sipRequests, role, dialog, callback>>

-----------------------------------------------------------------------------
(* The events of the receiver thread of b *)

\* An INVITE arrives: peers answers 180 and the request is stored before the
\* script hears of it.
IncomingCall(b, c) ==
  /\ callback[b] = Idle
  /\ role[b][c] = "none"
  /\ role' = [role EXCEPT ![b][c] = "in"]
  /\ SetDialog(b, c, "early")
  /\ sipRequests' = StoreSipRequest(c, b)
  /\ callback' = [callback EXCEPT ![b] = [event |-> "incomingCall", call |-> c]]
  /\ UNCHANGED executor

IncomingCallReturns(b, c) ==
  /\ callback[b] = [event |-> "incomingCall", call |-> c]
  /\ callback' = [callback EXCEPT ![b] = Idle]
  /\ UNCHANGED <<sipRequests, role, dialog, executor>>

\* The far end cancels or hangs up: the script hears of it first...
RemoteHangup(b, c) ==
  /\ callback[b] = Idle
  /\ \/ dialog[b][c] = "confirmed"
     \/ dialog[b][c] = "early" /\ role[b][c] = "in"
  /\ SetDialog(b, c, "hungup")
  /\ callback' = [callback EXCEPT ![b] = [event |-> "remoteHangup", call |-> c]]
  /\ UNCHANGED <<sipRequests, role, executor>>

\* ... and the request is removed when the script has returned.
RemoteHangupReturns(b, c) ==
  /\ callback[b] = [event |-> "remoteHangup", call |-> c]
  /\ callback' = [callback EXCEPT ![b] = Idle]
  /\ sipRequests' = RemoveSipRequest(c)
  /\ UNCHANGED <<role, dialog, executor>>

\* Answers to the bot's own INVITE.  Their handlers only tell the script.
InviteAnswered(b, c, from, to) ==
  /\ callback[b] = Idle
  /\ role[b][c] = "out"
  /\ dialog[b][c] \in from
  /\ SetDialog(b, c, to)
  /\ UNCHANGED <<sipRequests, role, executor, callback>>

Ringing(b, c) == InviteAnswered(b, c, {"none"}, "early")

CalleePickup(b, c) == InviteAnswered(b, c, {"none", "early"}, "confirmed")

Error(b, c) == InviteAnswered(b, c, {"none", "early"}, "ended")

-----------------------------------------------------------------------------
(* The specification *)

ScriptStep(b) ==
  \/ Invite(b)
  \/ Call(b)
  \/ \E c \in Calls : \/ AcceptCallByCallId(b, c)
                      \/ TerminateByCallId(b, c)
                      \/ BusyByCallId(b, c)

RequestTaskStep(b) ==
  \E c \in Calls : \E r \in Bots : \/ RunAccept(b, c, r)
                                   \/ RunTerminate(b, c, r)
                                   \/ RunBusy(b, c, r)

InviteTaskStep(b) ==
  \/ RunInviteFails(b)
  \/ RunCallFails(b)
  \/ \E c \in Calls : RunInvite(b, c) \/ RunCall(b, c)

StoreTaskStep(b) ==
  \E c \in Calls : \/ RunStoreInvite(b, c)
                   \/ RunStoreCall(b, c)
                   \/ RunInviteCallback(b, c)

HandlerReturns(b) ==
  \E c \in Calls : IncomingCallReturns(b, c) \/ RemoteHangupReturns(b, c)

ReceiverStep(b) ==
  \/ HandlerReturns(b)
  \/ \E c \in Calls : \/ IncomingCall(b, c)
                      \/ RemoteHangup(b, c)
                      \/ Ringing(b, c)
                      \/ CalleePickup(b, c)
                      \/ Error(b, c)

Next ==
  \E b \in Bots : \/ ScriptStep(b)
                  \/ RequestTaskStep(b)
                  \/ InviteTaskStep(b)
                  \/ StoreTaskStep(b)
                  \/ ReceiverStep(b)

Spec == Init /\ [][Next]_vars

\* The cached pool starts a thread for every task, and a handler returns: its
\* script never blocks.  Nothing is assumed of the far end or the scripts.
Fairness ==
  \A b \in Bots : \A c \in Calls :
    /\ \A r \in Bots : /\ WF_vars(RunAccept(b, c, r))
                       /\ WF_vars(RunTerminate(b, c, r))
                       /\ WF_vars(RunBusy(b, c, r))
    /\ WF_vars(RunStoreInvite(b, c))
    /\ WF_vars(RunStoreCall(b, c))
    /\ WF_vars(RunInviteCallback(b, c))
    /\ WF_vars(HandlerReturns(b))

FairSpec == Spec /\ Fairness

-----------------------------------------------------------------------------
(* Safety *)

\* No other bot of the process takes part in the call.
Alone(b, c) == \A o \in Bots \ {b} : role[o][c] = "none"

Ended(b, c) == dialog[b][c] = "hungup" /\ callback[b] # [event |-> "remoteHangup", call |-> c]

\* While a call that only this bot received rings or is in conversation, the
\* store holds its request, so that the bot can always answer it, refuse it or
\* hang up (storeSipRequest before the script runs, removeSipRequest only after
\* the far end hung up).  It says nothing of a Call-ID two bots share: the
\* first hangup removes the request of both.
LiveCallIsStored ==
  \A b \in Bots, c \in Calls :
    (role[b][c] = "in" /\ dialog[b][c] \in {"early", "confirmed"} /\ Alone(b, c))
      => GetSipRequest(c) = b

\* Once the remoteHangup handler of a received call is over, the store never
\* holds that bot's request again, whatever tasks are still in the pool.  It
\* does not hold of the bot's own calls: invite stores after it sent.
HungUpCallIsForgotten ==
  \A b \in Bots, c \in Calls :
    (role[b][c] = "in" /\ Ended(b, c)) => GetSipRequest(c) # b

-----------------------------------------------------------------------------
(* What the safety of the store rests on: the inductive invariant *)

StoredIsReal ==
  \A b \in Bots, c \in Calls : GetSipRequest(c) = b => role[b][c] # "none"

DialogIsReal ==
  \A b \in Bots, c \in Calls : dialog[b][c] # "none" => role[b][c] # "none"

\* The receiver thread is in remoteHangup only for a call that is over.
HangupIsReal ==
  \A b \in Bots, c \in Calls :
    callback[b] = [event |-> "remoteHangup", call |-> c] => dialog[b][c] = "hungup"

\* Only the bot's own calls are stored by a task.
StoreTasksArePlaced ==
  \A b \in Bots, c \in Calls, op \in {"storeInvite", "storeCall"} :
    Runs([op |-> op, bot |-> b, call |-> c]) => role[b][c] = "out"

StoreInv ==
  /\ TypeOK
  /\ StoredIsReal
  /\ DialogIsReal
  /\ HangupIsReal
  /\ StoreTasksArePlaced
  /\ LiveCallIsStored
  /\ HungUpCallIsForgotten

-----------------------------------------------------------------------------
(* Liveness *)

\* An answer submitted with the bot's own request is not lost: the call stops
\* ringing (acceptCallByCallId and the pool).
AcceptTakesEffect ==
  \A b \in Bots, c \in Calls :
    Runs([op |-> "accept", bot |-> b, call |-> c, request |-> b])
      ~> dialog[b][c] # "early"

\* A received call the far end hung up is eventually forgotten for good
\* (removeSipRequest at the end of remoteHangup).
HungUpCallIsCleaned ==
  \A b \in Bots, c \in Calls :
    (role[b][c] = "in" /\ dialog[b][c] = "hungup") ~> [](GetSipRequest(c) # b)

\* A conversation the bot placed itself does not stay out of the store, though
\* invite and call store its request only after the INVITE was sent: unless the
\* call ends first, terminateByCallId will find it.
PlacedCallIsStored ==
  \A b \in Bots, c \in Calls :
    (role[b][c] = "out" /\ InConversation(b, c) /\ Alone(b, c))
      ~> (GetSipRequest(c) = b \/ ~InConversation(b, c) \/ ~Alone(b, c))

=============================================================================
