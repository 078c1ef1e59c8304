------------------------- MODULE SpeechPlaybackProofs -------------------------
(***************************************************************************)
(* The bots, for any number of them and of calls.  First their calls, for  *)
(* any bound on the pool: types, and the safety of the shared request      *)
(* store.  Then their scripts, for any behaviour of each bot: they keep the*)
(* types and the store safe, and an answerHangup bot is in one conversation*)
(* at a time when the pool is faster than the next timer.  Then what they  *)
(* say, for any number of buffers: a script asks for its words once in a   *)
(* call, so that a file is written from its start by the one stream that   *)
(* created it, and is gone when the words were said.                       *)
(***************************************************************************)
EXTENDS SpeechPlayback, SequenceTheorems, TLAPS

-----------------------------------------------------------------------------
(* The executor *)

\* The task of an answer, a hangup or a refusal is a task of the pool.
LEMMA RequestTaskType ==
  ASSUME NEW op \in {"accept", "terminate", "busy"},
         NEW b \in Bots, NEW c \in Calls, NEW r \in Bots
  PROVE  [op |-> op, bot |-> b, call |-> c, request |-> r] \in Task
BY DEF Task, RequestTask

\* So is what is left of invite or call once the INVITE was sent.
LEMMA StoreTaskType ==
  ASSUME NEW op \in {"storeInvite", "storeCall", "inviteCallback"},
         NEW b \in Bots, NEW c \in Calls
  PROVE  [op |-> op, bot |-> b, call |-> c] \in Task
BY DEF Task, StoreTask

\* So is an invite or a call that was submitted.
LEMMA InviteTaskType ==
  ASSUME NEW op \in {"invite", "call"}, NEW b \in Bots
  PROVE  [op |-> op, bot |-> b] \in Task
BY DEF Task, InviteTask

\* Submitting a task adds no other.
LEMMA SubmitAddsOne ==
  ASSUME executor \in [Task -> Nat], NEW t \in Task, Submit(t)
  PROVE  /\ executor' \in [Task -> Nat]
         /\ \A u \in Task : executor'[u] > 0 => (executor[u] > 0 \/ u = t)
BY DEF Submit

\* Finishing a task adds none.
LEMMA FinishAddsNone ==
  ASSUME executor \in [Task -> Nat], NEW t \in Task, Runs(t), Finish(t)
  PROVE  /\ executor' \in [Task -> Nat]
         /\ \A u \in Task : executor'[u] > 0 => executor[u] > 0
BY DEF Finish, Runs

\* A task that goes on as another adds that one only.
LEMMA FinishAndSubmitAddsOne ==
  ASSUME executor \in [Task -> Nat], NEW t \in Task, NEW n \in Task,
         Runs(t), FinishAndSubmit(t, n)
  PROVE  /\ executor' \in [Task -> Nat]
         /\ \A u \in Task : executor'[u] > 0 => (executor[u] > 0 \/ u = n)
BY DEF FinishAndSubmit, Runs

-----------------------------------------------------------------------------
(* Type correctness *)

\* A new BotsManager is of the right type.
LEMMA InitType == Init => TypeOK
BY DEF Init, TypeOK, Role, DialogState, Handler

\* storeSipRequest and removeSipRequest leave a store of requests.
LEMMA StoreType ==
  ASSUME TypeOK, NEW c \in Calls, NEW b \in Bots
  PROVE  /\ StoreSipRequest(c, b) \in [Calls -> Bots \cup {NoRequest}]
         /\ RemoveSipRequest(c) \in [Calls -> Bots \cup {NoRequest}]
BY DEF TypeOK, StoreSipRequest, RemoveSipRequest

\* Moving one dialog leaves a table of dialogs.
LEMMA DialogType ==
  ASSUME TypeOK, NEW b \in Bots, NEW c \in Calls, NEW s \in DialogState,
         SetDialog(b, c, s)
  PROVE  dialog' \in [Bots -> [Calls -> DialogState]]
BY DEF TypeOK, SetDialog

\* What a script asks for keeps the types.
LEMMA ScriptType ==
  ASSUME TypeOK, NEW b \in Bots, ScriptStep(b)
  PROVE  TypeOK'
<1>1. CASE Invite(b)
  BY <1>1, InviteTaskType, SubmitAddsOne DEF TypeOK, Invite, InviteOperation
<1>2. CASE Call(b)
  BY <1>2, InviteTaskType, SubmitAddsOne DEF TypeOK, Call, InviteOperation
<1>3. ASSUME NEW c \in Calls, NEW op \in {"accept", "terminate", "busy"},
             RequestOperation(op, b, c)
      PROVE  TypeOK'
  <2>1. GetSipRequest(c) \in Bots
    BY <1>3 DEF TypeOK, RequestOperation, GetSipRequest
  <2>2. [op |-> op, bot |-> b, call |-> c, request |-> GetSipRequest(c)] \in Task
    BY <2>1, RequestTaskType
  <2>3. executor' \in [Task -> Nat]
    BY <1>3, <2>2, SubmitAddsOne DEF TypeOK, RequestOperation
  <2> QED
    BY <1>3, <2>3 DEF TypeOK, RequestOperation
<1> QED
  BY <1>1, <1>2, <1>3 DEF ScriptStep, AcceptCallByCallId, TerminateByCallId, BusyByCallId

\* Running an answer, a hangup or a refusal keeps the types.
LEMMA RequestTaskStepType ==
  ASSUME TypeOK, NEW b \in Bots, RequestTaskStep(b)
  PROVE  TypeOK'
<1> PICK c \in Calls, r \in Bots : RunAccept(b, c, r) \/ RunTerminate(b, c, r) \/ RunBusy(b, c, r)
  BY DEF RequestTaskStep
<1>1. executor' \in [Task -> Nat]
  BY RequestTaskType, FinishAddsNone DEF TypeOK, RunAccept, RunTerminate, RunBusy
<1>2. dialog' \in [Bots -> [Calls -> DialogState]]
  BY DialogType DEF TypeOK, RunAccept, RunTerminate, RunBusy, DialogState
<1> QED
  BY <1>1, <1>2 DEF TypeOK, RunAccept, RunTerminate, RunBusy

\* Running an invite or a call up to its INVITE keeps the types.
LEMMA InviteTaskStepType ==
  ASSUME TypeOK, NEW b \in Bots, InviteTaskStep(b)
  PROVE  TypeOK'
<1>1. CASE RunInviteFails(b) \/ RunCallFails(b)
  BY <1>1, InviteTaskType, FinishAddsNone
     DEF TypeOK, RunInviteFails, RunCallFails, InviteFails
<1>2. ASSUME NEW c \in Calls, NEW op \in {"invite", "call"},
             NEW next \in {"storeInvite", "storeCall"}, SendInvite(op, next, b, c)
      PROVE  TypeOK'
  <2>1. executor' \in [Task -> Nat]
    BY <1>2, InviteTaskType, StoreTaskType, FinishAndSubmitAddsOne DEF TypeOK, SendInvite
  <2>2. role' \in [Bots -> [Calls -> Role]]
    BY <1>2 DEF TypeOK, SendInvite, Role
  <2> QED
    BY <1>2, <2>1, <2>2 DEF TypeOK, SendInvite
<1> QED
  BY <1>1, <1>2 DEF InviteTaskStep, RunInvite, RunCall

\* Storing the request of a placed call keeps the types.
LEMMA StoreTaskStepType ==
  ASSUME TypeOK, NEW b \in Bots, StoreTaskStep(b)
  PROVE  TypeOK'
<1> PICK c \in Calls : \/ RunStoreInvite(b, c)
                       \/ RunStoreCall(b, c)
                       \/ RunInviteCallback(b, c)
  BY DEF StoreTaskStep
<1>1. executor' \in [Task -> Nat]
  BY StoreTaskType, FinishAddsNone, FinishAndSubmitAddsOne
     DEF TypeOK, RunStoreInvite, RunStoreCall, RunInviteCallback
<1>2. sipRequests' \in [Calls -> Bots \cup {NoRequest}]
  BY StoreType DEF TypeOK, RunStoreInvite, RunStoreCall, RunInviteCallback
<1> QED
  BY <1>1, <1>2 DEF TypeOK, RunStoreInvite, RunStoreCall, RunInviteCallback

\* An event of the receiver thread keeps the types.
LEMMA ReceiverType ==
  ASSUME TypeOK, NEW b \in Bots, ReceiverStep(b)
  PROVE  TypeOK'
<1>1. CASE HandlerReturns(b)
  BY <1>1, StoreType
     DEF TypeOK, HandlerReturns, IncomingCallReturns, RemoteHangupReturns, Handler
<1>2. ASSUME NEW c \in Calls, IncomingCall(b, c) PROVE TypeOK'
  <2>1. role' \in [Bots -> [Calls -> Role]]
    BY <1>2 DEF TypeOK, IncomingCall, Role
  <2>2. callback' \in [Bots -> Handler]
    BY <1>2 DEF TypeOK, IncomingCall, Handler
  <2>3. dialog' \in [Bots -> [Calls -> DialogState]]
    BY <1>2, DialogType DEF IncomingCall, DialogState
  <2> QED
    BY <1>2, <2>1, <2>2, <2>3, StoreType DEF TypeOK, IncomingCall
<1>3. ASSUME NEW c \in Calls, RemoteHangup(b, c) PROVE TypeOK'
  <2>1. dialog' \in [Bots -> [Calls -> DialogState]]
    BY <1>3, DialogType DEF RemoteHangup, DialogState
  <2>2. callback' \in [Bots -> Handler]
    BY <1>3 DEF TypeOK, RemoteHangup, Handler
  <2> QED
    BY <1>3, <2>1, <2>2 DEF TypeOK, RemoteHangup
<1>4. ASSUME NEW c \in Calls, Ringing(b, c) \/ CalleePickup(b, c) \/ Error(b, c)
      PROVE  TypeOK'
  <2>1. dialog' \in [Bots -> [Calls -> DialogState]]
    BY <1>4, DialogType DEF Ringing, CalleePickup, Error, InviteAnswered, DialogState
  <2> QED
    BY <1>4, <2>1 DEF TypeOK, Ringing, CalleePickup, Error, InviteAnswered
<1> QED
  BY <1>1, <1>2, <1>3, <1>4 DEF ReceiverStep

\* Every variable keeps its type, whatever the interleaving.
THEOREM TypeCorrect == Spec => []TypeOK
<1>1. TypeOK /\ [Next]_vars => TypeOK'
  <2> SUFFICES ASSUME TypeOK, [Next]_vars PROVE TypeOK'
    OBVIOUS
  <2>1. CASE UNCHANGED vars
    BY <2>1 DEF TypeOK, vars
  <2>2. CASE Next
    BY <2>2, ScriptType, RequestTaskStepType, InviteTaskStepType,
       StoreTaskStepType, ReceiverType DEF Next
  <2> QED
    BY <2>1, <2>2
<1> QED
  BY InitType, <1>1, PTL DEF Spec

-----------------------------------------------------------------------------
(* The request store.  StoreInv is inductive; the steps are grouped by what  *)
(* they can disturb.                                                         *)

\* The invariant holds of a new BotsManager: nothing is stored.
LEMMA InitStore == Init => StoreInv
<1> SUFFICES ASSUME Init PROVE StoreInv
  OBVIOUS
<1>1. TypeOK
  BY InitType
<1>2. \A t \in Task : ~Runs(t)
  BY DEF Init, Runs
<1>3. StoreTasksArePlaced
  BY <1>2, StoreTaskType DEF StoreTasksArePlaced
<1>5. StoredIsReal
  BY NoRequestAssumption DEF Init, StoredIsReal, GetSipRequest
<1>6. LiveCallIsStored /\ HungUpCallIsForgotten /\ DialogIsReal
  BY DEF Init, LiveCallIsStored, HungUpCallIsForgotten, Ended, DialogIsReal
<1>7. HangupIsReal
  BY IdleAssumption DEF Init, HangupIsReal
<1> QED
  BY <1>1, <1>3, <1>5, <1>6, <1>7 DEF StoreInv

\* A step that leaves the calls alone can only disturb what is said of tasks.
LEMMA CallsUnchanged ==
  ASSUME StoreInv, UNCHANGED <<sipRequests, role, dialog, callback>>
  PROVE  /\ StoredIsReal' /\ DialogIsReal' /\ HangupIsReal'
         /\ LiveCallIsStored' /\ HungUpCallIsForgotten'
BY DEF StoreInv, StoredIsReal, DialogIsReal, HangupIsReal, LiveCallIsStored,
       HungUpCallIsForgotten, Ended, Alone, GetSipRequest

\* A bot keeps the role it has in a call, and no step adds a task: what is
\* said of tasks stays true.
LEMMA NoNewTask ==
  ASSUME StoreInv,
         \A u \in Task : executor'[u] > 0 => executor[u] > 0,
         \A b \in Bots, c \in Calls : role[b][c] # "none" => role'[b][c] = role[b][c]
  PROVE  StoreTasksArePlaced'
BY StoreTaskType DEF StoreInv, StoreTasksArePlaced, Runs

\* What a script asks for keeps the store invariant: the request is looked
\* up and a task submitted, none of them a task that stores.
LEMMA ScriptInv ==
  ASSUME StoreInv, NEW b \in Bots, ScriptStep(b)
  PROVE  StoreInv'
<1>1. TypeOK'
  BY ScriptType DEF StoreInv
<1>2. UNCHANGED <<sipRequests, role, dialog, callback>>
  BY DEF ScriptStep, Invite, Call, InviteOperation, AcceptCallByCallId,
         TerminateByCallId, BusyByCallId, RequestOperation
<1>3. CASE Invite(b) \/ Call(b)
  <2>1. PICK op \in {"invite", "call"} : Submit([op |-> op, bot |-> b])
    BY <1>3 DEF Invite, Call, InviteOperation
  <2>2. \A u \in Task : executor'[u] > 0 => (executor[u] > 0 \/ u = [op |-> op, bot |-> b])
    BY <2>1, InviteTaskType, SubmitAddsOne DEF StoreInv, TypeOK
  <2>3. StoreTasksArePlaced'
    BY <1>2, <2>2, StoreTaskType DEF StoreInv, StoreTasksArePlaced, Runs
  <2> QED
    BY <1>1, <1>2, <2>3, CallsUnchanged DEF StoreInv
<1>4. ASSUME NEW c \in Calls, NEW op \in {"accept", "terminate", "busy"},
             RequestOperation(op, b, c)
      PROVE  StoreInv'
  <2> DEFINE r == GetSipRequest(c)
             t == [op |-> op, bot |-> b, call |-> c, request |-> r]
  <2>1. r \in Bots /\ Submit(t)
    BY <1>4 DEF RequestOperation, StoreInv, TypeOK, GetSipRequest
  <2>2. \A u \in Task : executor'[u] > 0 => (executor[u] > 0 \/ u = t)
    BY <2>1, RequestTaskType, SubmitAddsOne DEF StoreInv, TypeOK
  <2> HIDE DEF r
  <2>3. StoreTasksArePlaced'
    BY <1>2, <2>2, StoreTaskType DEF StoreInv, StoreTasksArePlaced, Runs
  <2> QED
    BY <1>1, <1>2, <2>3, CallsUnchanged DEF StoreInv
<1> QED
  BY <1>3, <1>4 DEF ScriptStep, AcceptCallByCallId, TerminateByCallId, BusyByCallId

\* An answer, a hangup or a refusal keeps it, whatever bot's request it
\* was given: the dialog it moves stays one the bot takes part in.
LEMMA RequestTaskInv ==
  ASSUME StoreInv, NEW b \in Bots, RequestTaskStep(b)
  PROVE  StoreInv'
<1> PICK c \in Calls, r \in Bots : RunAccept(b, c, r) \/ RunTerminate(b, c, r) \/ RunBusy(b, c, r)
  BY DEF RequestTaskStep
<1>1. TypeOK'
  BY RequestTaskStepType DEF StoreInv
<1>2. \A u \in Task : executor'[u] > 0 => executor[u] > 0
  BY RequestTaskType, FinishAddsNone DEF StoreInv, TypeOK, RunAccept, RunTerminate, RunBusy
<1>3. UNCHANGED <<sipRequests, role, callback>>
  BY DEF RunAccept, RunTerminate, RunBusy
<1>4. \/ UNCHANGED dialog
      \/ /\ dialog[b][c] \in {"early", "confirmed"}
         /\ SetDialog(b, c, "confirmed") \/ SetDialog(b, c, "ended")
  BY DEF RunAccept, RunTerminate, RunBusy
<1>5. StoreTasksArePlaced'
  BY <1>2, <1>3, NoNewTask
<1>6. CASE UNCHANGED dialog
  BY <1>1, <1>3, <1>5, <1>6, CallsUnchanged DEF StoreInv
<1>7. CASE /\ dialog[b][c] \in {"early", "confirmed"}
           /\ SetDialog(b, c, "confirmed") \/ SetDialog(b, c, "ended")
  <2>1. /\ dialog'[b][c] \in {"confirmed", "ended"}
        /\ \A o \in Bots, d \in Calls :
             (o # b \/ d # c) => dialog'[o][d] = dialog[o][d]
    BY <1>7 DEF StoreInv, TypeOK, SetDialog
  <2>2. StoredIsReal' /\ DialogIsReal'
    BY <1>3, <1>7, <2>1 DEF StoreInv, StoredIsReal, DialogIsReal, GetSipRequest
  <2>3. HangupIsReal'
    BY <1>3, <1>7, <2>1 DEF StoreInv, HangupIsReal
  <2>4. LiveCallIsStored'
    BY <1>3, <1>7, <2>1 DEF StoreInv, LiveCallIsStored, Alone, GetSipRequest
  <2>5. HungUpCallIsForgotten'
    BY <1>3, <1>7, <2>1 DEF StoreInv, HungUpCallIsForgotten, Ended, GetSipRequest
  <2> QED
    BY <1>1, <1>5, <2>2, <2>3, <2>4, <2>5 DEF StoreInv
<1> QED
  BY <1>4, <1>6, <1>7

\* Sending an INVITE keeps it: the Call-ID is new to every bot, and the
\* call is the bot's own when the task that stores its request is left.
LEMMA InviteTaskInv ==
  ASSUME StoreInv, NEW b \in Bots, InviteTaskStep(b)
  PROVE  StoreInv'
<1>1. TypeOK'
  BY InviteTaskStepType DEF StoreInv
<1>2. CASE RunInviteFails(b) \/ RunCallFails(b)
  <2>1. \A u \in Task : executor'[u] > 0 => executor[u] > 0
    BY <1>2, InviteTaskType, FinishAddsNone
       DEF StoreInv, TypeOK, RunInviteFails, RunCallFails, InviteFails
  <2>2. UNCHANGED <<sipRequests, role, dialog, callback>>
    BY <1>2 DEF RunInviteFails, RunCallFails, InviteFails
  <2> QED
    BY <1>1, <2>1, <2>2, NoNewTask, CallsUnchanged DEF StoreInv
<1>3. ASSUME NEW c \in Calls, NEW op \in {"invite", "call"},
             NEW next \in {"storeInvite", "storeCall"}, SendInvite(op, next, b, c)
      PROVE  StoreInv'
  <2> DEFINE t == [op |-> next, bot |-> b, call |-> c]
  <2>1. \A u \in Task : executor'[u] > 0 => (executor[u] > 0 \/ u = t)
    BY <1>3, InviteTaskType, StoreTaskType, FinishAndSubmitAddsOne
       DEF StoreInv, TypeOK, SendInvite
  <2>2. /\ \A o \in Bots : role[o][c] = "none"
        /\ role'[b][c] = "out"
        /\ \A o \in Bots, d \in Calls :
             (o # b \/ d # c) => role'[o][d] = role[o][d]
        /\ UNCHANGED <<sipRequests, dialog, callback>>
    BY <1>3 DEF SendInvite, Fresh, StoreInv, TypeOK
  <2>3. ASSUME NEW o \in Bots, NEW d \in Calls, NEW p \in {"storeInvite", "storeCall"},
               executor'[[op |-> p, bot |-> o, call |-> d]] > 0
        PROVE  role'[o][d] = "out"
    <3>1. CASE [op |-> p, bot |-> o, call |-> d] = t
      BY <2>2, <3>1
    <3>2. CASE [op |-> p, bot |-> o, call |-> d] # t
      <4>1. Runs([op |-> p, bot |-> o, call |-> d])
        BY <2>1, <2>3, <3>2, StoreTaskType DEF Runs
      <4>2. StoreTasksArePlaced
        BY DEF StoreInv
      <4>3. role[o][d] = "out"
        BY <4>1, <4>2, Zenon DEF StoreTasksArePlaced
      <4> QED
        BY <2>2, <4>3
    <3> QED
      BY <3>1, <3>2
  <2>6. StoredIsReal' /\ DialogIsReal' /\ HangupIsReal'
    BY <2>2 DEF StoreInv, StoredIsReal, DialogIsReal, HangupIsReal, GetSipRequest
  <2>7. LiveCallIsStored'
    BY <2>2 DEF StoreInv, LiveCallIsStored, Alone, GetSipRequest
  <2>8. HungUpCallIsForgotten'
    BY <2>2 DEF StoreInv, HungUpCallIsForgotten, Ended, GetSipRequest
  <2>9. StoreTasksArePlaced'
    BY <2>3 DEF StoreTasksArePlaced, Runs
  <2> QED
    BY <1>1, <2>6, <2>7, <2>8, <2>9 DEF StoreInv
<1> QED
  BY <1>2, <1>3 DEF InviteTaskStep, RunInvite, RunCall

\* Storing the request of a placed call keeps it: storeSipRequest does not
\* replace the request of a call that was received.
LEMMA StoreTaskInv ==
  ASSUME StoreInv, NEW b \in Bots, StoreTaskStep(b)
  PROVE  StoreInv'
<1> PICK c \in Calls : \/ RunStoreInvite(b, c)
                       \/ RunStoreCall(b, c)
                       \/ RunInviteCallback(b, c)
  BY DEF StoreTaskStep
<1>1. TypeOK'
  BY StoreTaskStepType DEF StoreInv
<1> DEFINE t == [op |-> "inviteCallback", bot |-> b, call |-> c]
<1>2. \A u \in Task : executor'[u] > 0 => (executor[u] > 0 \/ u = t)
  BY StoreTaskType, FinishAddsNone, FinishAndSubmitAddsOne
     DEF StoreInv, TypeOK, RunStoreInvite, RunStoreCall, RunInviteCallback
<1>3. UNCHANGED <<role, dialog, callback>>
  BY DEF RunStoreInvite, RunStoreCall, RunInviteCallback
<1>4. StoreTasksArePlaced'
  BY <1>2, <1>3, StoreTaskType DEF StoreInv, StoreTasksArePlaced, Runs
<1>7. \/ UNCHANGED sipRequests
      \/ /\ sipRequests' = StoreSipRequest(c, b)
         /\ role[b][c] = "out"
  BY DEF RunStoreInvite, RunStoreCall, RunInviteCallback, StoreInv, StoreTasksArePlaced
<1>8. CASE UNCHANGED sipRequests
  BY <1>1, <1>3, <1>4, <1>8, CallsUnchanged DEF StoreInv
<1>9. CASE sipRequests' = StoreSipRequest(c, b) /\ role[b][c] = "out"
  <2>1. \A d \in Calls : \/ sipRequests'[d] = sipRequests[d]
                         \/ d = c /\ sipRequests[d] = NoRequest /\ sipRequests'[d] = b
    BY <1>9 DEF StoreSipRequest, StoreInv, TypeOK
  <2>2. StoredIsReal' /\ DialogIsReal' /\ HangupIsReal'
    BY <1>3, <1>9, <2>1 DEF StoreInv, StoredIsReal, DialogIsReal, HangupIsReal, GetSipRequest
  <2>3. LiveCallIsStored'
    BY <1>3, <1>9, <2>1, NoRequestAssumption
       DEF StoreInv, LiveCallIsStored, Alone, GetSipRequest
  <2>4. HungUpCallIsForgotten'
    BY <1>3, <1>9, <2>1 DEF StoreInv, HungUpCallIsForgotten, Ended, GetSipRequest
  <2> QED
    BY <1>1, <1>4, <2>2, <2>3, <2>4 DEF StoreInv
<1> QED
  BY <1>7, <1>8, <1>9

\* The end of a handler keeps it: remoteHangup removes the request of a
\* call that is over, so no live call of a bot that is alone in it is lost.
LEMMA HandlerReturnsInv ==
  ASSUME StoreInv, NEW b \in Bots, HandlerReturns(b)
  PROVE  StoreInv'
<1> PICK c \in Calls : IncomingCallReturns(b, c) \/ RemoteHangupReturns(b, c)
  BY DEF HandlerReturns
<1>1. TypeOK'
  BY ReceiverType DEF StoreInv, ReceiverStep
<1>2. UNCHANGED <<role, dialog, executor>>
  BY DEF IncomingCallReturns, RemoteHangupReturns
<1>3. StoreTasksArePlaced'
  BY <1>2, NoNewTask
<1>4. /\ callback'[b] = Idle
      /\ \A o \in Bots : o # b => callback'[o] = callback[o]
  BY DEF IncomingCallReturns, RemoteHangupReturns, StoreInv, TypeOK
<1>5. HangupIsReal'
  BY <1>2, <1>4, IdleAssumption DEF StoreInv, HangupIsReal
<1>6. CASE IncomingCallReturns(b, c)
  <2>1. UNCHANGED sipRequests /\ callback[b] # Idle
    BY <1>6, IdleAssumption DEF IncomingCallReturns
  <2>2. \A d \in Calls : callback[b] # [event |-> "remoteHangup", call |-> d]
    BY <1>6 DEF IncomingCallReturns
  <2>3. StoredIsReal' /\ DialogIsReal' /\ LiveCallIsStored'
    BY <1>2, <2>1 DEF StoreInv, StoredIsReal, DialogIsReal, LiveCallIsStored, Alone, GetSipRequest
  <2>4. HungUpCallIsForgotten'
    BY <1>2, <1>4, <2>1, <2>2 DEF StoreInv, HungUpCallIsForgotten, Ended, GetSipRequest
  <2> QED
    BY <1>1, <1>3, <1>5, <2>3, <2>4 DEF StoreInv
<1>7. CASE RemoteHangupReturns(b, c)
  <2>1. /\ sipRequests'[c] = NoRequest
        /\ \A d \in Calls : d # c => sipRequests'[d] = sipRequests[d]
    BY <1>7 DEF RemoteHangupReturns, RemoveSipRequest, StoreInv, TypeOK
  <2>2. callback[b] = [event |-> "remoteHangup", call |-> c] /\ dialog[b][c] = "hungup"
    BY <1>7 DEF RemoteHangupReturns, StoreInv, HangupIsReal
  <2>3. role[b][c] # "none"
    BY <2>2 DEF StoreInv, DialogIsReal
  <2>4. StoredIsReal' /\ DialogIsReal'
    BY <1>2, <2>1, NoRequestAssumption DEF StoreInv, StoredIsReal, DialogIsReal, GetSipRequest
  <2>5. LiveCallIsStored'
    BY <1>2, <2>1, <2>2, <2>3 DEF StoreInv, LiveCallIsStored, Alone, GetSipRequest
  <2>6. ASSUME NEW o \in Bots, NEW d \in Calls, role'[o][d] = "in", Ended(o, d)'
        PROVE  GetSipRequest(d)' # o
    <3>1. CASE d = c
      BY <2>1, <3>1, NoRequestAssumption DEF GetSipRequest
    <3>2. CASE d # c
      <4>1. callback[o] # [event |-> "remoteHangup", call |-> d]
        BY <1>4, <2>2, <2>6, <3>2 DEF Ended
      <4> QED
        BY <1>2, <2>1, <2>6, <3>2, <4>1 DEF StoreInv, HungUpCallIsForgotten, Ended, GetSipRequest
    <3> QED
      BY <3>1, <3>2
  <2>7. HungUpCallIsForgotten'
    BY <2>6 DEF HungUpCallIsForgotten
  <2> QED
    BY <1>1, <1>3, <1>5, <2>4, <2>5, <2>7 DEF StoreInv
<1> QED
  BY <1>6, <1>7

\* Every SIP event keeps it: incomingCall stores before the script runs.
LEMMA ReceiverInv ==
  ASSUME StoreInv, NEW b \in Bots, ReceiverStep(b)
  PROVE  StoreInv'
<1>1. TypeOK'
  BY ReceiverType DEF StoreInv
<1>2. CASE HandlerReturns(b)
  BY <1>2, HandlerReturnsInv
<1>3. ASSUME NEW c \in Calls, IncomingCall(b, c) PROVE StoreInv'
  <2>1. /\ role[b][c] = "none" /\ role'[b][c] = "in" /\ dialog'[b][c] = "early"
        /\ callback[b] = Idle /\ callback'[b] = [event |-> "incomingCall", call |-> c]
        /\ \A o \in Bots : o # b => callback'[o] = callback[o]
        /\ \A o \in Bots, d \in Calls : (o # b \/ d # c) =>
             role'[o][d] = role[o][d] /\ dialog'[o][d] = dialog[o][d]
        /\ UNCHANGED executor
    BY <1>3 DEF IncomingCall, SetDialog, StoreInv, TypeOK
  <2>2. \A d \in Calls : \/ sipRequests'[d] = sipRequests[d] /\ (d = c => sipRequests[d] # NoRequest)
                         \/ d = c /\ sipRequests[d] = NoRequest /\ sipRequests'[d] = b
    BY <1>3 DEF IncomingCall, StoreSipRequest, StoreInv, TypeOK
  <2>3. StoreTasksArePlaced'
    BY <2>1, NoNewTask
  <2>4. StoredIsReal' /\ DialogIsReal'
    BY <2>1, <2>2 DEF StoreInv, StoredIsReal, DialogIsReal, GetSipRequest
  <2>5. HangupIsReal'
    BY <2>1 DEF StoreInv, HangupIsReal
  <2>6. ASSUME NEW o \in Bots, NEW d \in Calls, role'[o][d] = "in",
               dialog'[o][d] \in {"early", "confirmed"}, Alone(o, d)'
        PROVE  GetSipRequest(d)' = o
    <3>1. CASE o = b /\ d = c
      <4>1. \A a \in Bots : role[a][c] = "none"
        BY <2>1, <2>6, <3>1 DEF Alone
      <4>2. sipRequests[c] = NoRequest
        BY <4>1 DEF StoreInv, StoredIsReal, GetSipRequest, TypeOK
      <4> QED
        BY <2>2, <3>1, <4>2 DEF GetSipRequest
    <3>2. CASE o # b /\ d = c
      BY <2>1, <2>6, <3>2 DEF Alone
    <3>3. CASE d # c
      <4>1. Alone(o, d)
        BY <2>1, <2>6, <3>3 DEF Alone
      <4> QED
        BY <2>1, <2>2, <2>6, <3>3, <4>1 DEF StoreInv, LiveCallIsStored, GetSipRequest
    <3> QED
      BY <3>1, <3>2, <3>3
  <2>7. LiveCallIsStored'
    BY <2>6 DEF LiveCallIsStored
  <2>8. HungUpCallIsForgotten'
    BY <2>1, <2>2, IdleAssumption DEF StoreInv, HungUpCallIsForgotten, Ended, GetSipRequest
  <2> QED
    BY <1>1, <2>3, <2>4, <2>5, <2>7, <2>8 DEF StoreInv
<1>4. ASSUME NEW c \in Calls, RemoteHangup(b, c) PROVE StoreInv'
  <2>1. /\ dialog[b][c] # "none" /\ dialog'[b][c] = "hungup"
        /\ callback[b] = Idle /\ callback'[b] = [event |-> "remoteHangup", call |-> c]
        /\ \A o \in Bots : o # b => callback'[o] = callback[o]
        /\ \A o \in Bots, d \in Calls : (o # b \/ d # c) => dialog'[o][d] = dialog[o][d]
        /\ UNCHANGED <<sipRequests, role, executor>>
    BY <1>4 DEF RemoteHangup, SetDialog, StoreInv, TypeOK
  <2>2. StoreTasksArePlaced'
    BY <2>1, NoNewTask
  <2>3. StoredIsReal' /\ DialogIsReal'
    BY <2>1 DEF StoreInv, StoredIsReal, DialogIsReal, GetSipRequest
  <2>4. HangupIsReal'
    BY <2>1 DEF StoreInv, HangupIsReal
  <2>5. LiveCallIsStored'
    BY <2>1 DEF StoreInv, LiveCallIsStored, Alone, GetSipRequest
  <2>6. HungUpCallIsForgotten'
    BY <2>1, IdleAssumption DEF StoreInv, HungUpCallIsForgotten, Ended, GetSipRequest
  <2> QED
    BY <1>1, <2>2, <2>3, <2>4, <2>5, <2>6 DEF StoreInv
<1>5. ASSUME NEW c \in Calls, NEW s \in {"early", "confirmed", "ended"},
             NEW from, from \subseteq {"none", "early"},
             InviteAnswered(b, c, from, s)
      PROVE  StoreInv'
  <2>1. /\ dialog[b][c] \in {"none", "early"} /\ dialog'[b][c] = s /\ role[b][c] = "out"
        /\ \A o \in Bots, d \in Calls : (o # b \/ d # c) => dialog'[o][d] = dialog[o][d]
        /\ UNCHANGED <<sipRequests, role, executor, callback>>
    BY <1>5 DEF InviteAnswered, SetDialog, StoreInv, TypeOK
  <2>2. StoreTasksArePlaced'
    BY <2>1, NoNewTask
  <2>3. StoredIsReal' /\ DialogIsReal'
    BY <2>1 DEF StoreInv, StoredIsReal, DialogIsReal, GetSipRequest
  <2>4. HangupIsReal'
    BY <2>1 DEF StoreInv, HangupIsReal
  <2>5. LiveCallIsStored'
    BY <2>1 DEF StoreInv, LiveCallIsStored, Alone, GetSipRequest
  <2>6. HungUpCallIsForgotten'
    BY <2>1 DEF StoreInv, HungUpCallIsForgotten, Ended, GetSipRequest
  <2> QED
    BY <1>1, <2>2, <2>3, <2>4, <2>5, <2>6 DEF StoreInv
<1> QED
  BY <1>2, <1>3, <1>4, <1>5 DEF ReceiverStep, Ringing, CalleePickup, Error

\* The store invariant holds in every reachable state: every request the
\* store has, every dialog and every hangup is of a call its bot takes part in,
\* and only placed calls are stored by a task (storeSipRequest, remoteHangup).
THEOREM StoreInvHolds == Spec => []StoreInv
<1>1. StoreInv /\ [Next]_vars => StoreInv'
  <2> SUFFICES ASSUME StoreInv, [Next]_vars PROVE StoreInv'
    OBVIOUS
  <2>1. CASE UNCHANGED vars
    <3>1. TypeOK'
      BY <2>1 DEF StoreInv, TypeOK, vars
    <3>2. UNCHANGED <<sipRequests, role, dialog, callback>> /\ UNCHANGED executor
      BY <2>1 DEF vars
    <3>3. StoreTasksArePlaced'
      BY <3>2, NoNewTask
    <3> QED
      BY <3>1, <3>2, <3>3, CallsUnchanged DEF StoreInv
  <2>2. CASE Next
    BY <2>2, ScriptInv, RequestTaskInv, InviteTaskInv, StoreTaskInv, ReceiverInv DEF Next
  <2> QED
    BY <2>1, <2>2
<1> QED
  BY InitStore, <1>1, PTL DEF Spec

\* A call that only this bot received is in the store as long as it rings or
\* lasts, for any number of bots and calls.
THEOREM LiveCallStored == Spec => []LiveCallIsStored
<1>1. StoreInv => LiveCallIsStored
  BY DEF StoreInv
<1> QED
  BY <1>1, StoreInvHolds, PTL

\* A received call that was hung up never comes back into the store.
THEOREM HungUpCallForgotten == Spec => []HungUpCallIsForgotten
<1>1. StoreInv => HungUpCallIsForgotten
  BY DEF StoreInv
<1> QED
  BY <1>1, StoreInvHolds, PTL

-----------------------------------------------------------------------------
(* Type correctness of the scripts *)

\* What the scripts ask for is a task of the pool, or nothing.
LEMMA AskType ==
  ASSUME TypeOK, NEW op \in {"accept", "terminate", "busy"}, NEW b \in Bots, NEW c \in Calls,
         Ask(op, b, c)
  PROVE  /\ executor' \in [Task -> Nat]
         /\ \A u \in Task : executor'[u] > 0 =>
              executor[u] > 0 \/ (u.op = op /\ u.bot = b /\ u.call = c)
<1>1. CASE GetSipRequest(c) = NoRequest
  BY <1>1 DEF Ask, TypeOK
<1>2. CASE GetSipRequest(c) # NoRequest
  <2> DEFINE t == [op |-> op, bot |-> b, call |-> c, request |-> GetSipRequest(c)]
  <2>1. GetSipRequest(c) \in Bots
    BY <1>2 DEF TypeOK, GetSipRequest
  <2>2. t \in Task /\ t.op = op /\ t.bot = b /\ t.call = c
    BY <2>1, RequestTaskType
  <2>3. Submit(t)
    BY <1>2 DEF Ask
  <2> HIDE DEF t
  <2> QED
    BY <2>2, <2>3, SubmitAddsOne DEF TypeOK
<1> QED
  BY <1>1, <1>2

\* The functions of the scripts are functions of setTimeout.
LEMMA TimerType ==
  ASSUME NEW fn \in {"busy", "answer", "terminate", "callBack"}, NEW b \in Bots, NEW c \in Calls
  PROVE  At(fn, b, c) \in Timer
BY DEF At, Timer

\* A handler of a script sets at most a timer, and returns.
LEMMA ScriptHandlerType ==
  ASSUME TypeOKB, NEW b \in Bots, NEW c \in Calls, ScriptHandlerStep(b, c)
  PROVE  TypeOKB'
<1>1. CASE DefaultIncomingCall(b, c) \/ HeavyOneRemoteHangup(b, c) \/ DefaultRemoteHangup(b, c)
  <2>1. ReceiverStep(b)
    BY <1>1 DEF DefaultIncomingCall, HeavyOneRemoteHangup, DefaultRemoteHangup, ReceiverStep,
                HandlerReturns
  <2>2. TypeOK'
    BY <2>1, ReceiverType DEF TypeOKB
  <2> QED
    BY <1>1, <2>2, TimerType
       DEF TypeOKB, DefaultIncomingCall, HeavyOneRemoteHangup, DefaultRemoteHangup, SetTimeout,
           history
<1>2. CASE AnswerHangupIncomingCall(b, c) \/ SimpleAnswererIncomingCall(b, c)
  <2>1. UNCHANGED <<sipRequests, role, dialog, loop, gaveUp, blind>> /\ Return(b)
    BY <1>2 DEF AnswerHangupIncomingCall, SimpleAnswererIncomingCall, history
  <2>2. UNCHANGED executor \/ Ask("busy", b, c)
    BY <1>2 DEF AnswerHangupIncomingCall, SimpleAnswererIncomingCall
  <2>3. \/ UNCHANGED timers
        \/ \E fn \in {"busy", "answer"} : timers' = timers \cup {At(fn, b, c)}
    BY <1>2 DEF AnswerHangupIncomingCall, SimpleAnswererIncomingCall, SetTimeout
  <2>4. executor' \in [Task -> Nat]
    BY <2>2, AskType DEF TypeOKB, TypeOK
  <2>5. callback' \in [Bots -> Handler]
    BY <2>1 DEF TypeOKB, TypeOK, Return, Handler
  <2>6. TypeOK'
    BY <2>1, <2>4, <2>5 DEF TypeOKB, TypeOK
  <2> QED
    BY <2>1, <2>3, <2>6, TimerType DEF TypeOKB
<1> QED
  BY <1>1, <1>2 DEF ScriptHandlerStep

\* So does a function of the timer thread.
LEMMA TimerStepType ==
  ASSUME TypeOKB, NEW b \in Bots, NEW c \in Calls, TimerStep(b, c)
  PROVE  TypeOKB'
<1> USE DEF TimerStep, FireBusy, FireAnswer, Answer, FireSimpleAnswer, FireTerminate, FireCallBack
<1>1. UNCHANGED <<sipRequests, role, dialog, callback>>
  BY DEF vars
<1>2. UNCHANGED executor \/ \E op \in {"accept", "terminate", "busy"} : Ask(op, b, c)
  BY DEF vars
<1>3. executor' \in [Task -> Nat]
  BY <1>2, AskType DEF TypeOKB, TypeOK
<1>4. TypeOK'
  BY <1>1, <1>3 DEF TypeOKB, TypeOK
<1>5. timers' \subseteq timers \cup {At("terminate", b, c)}
  BY DEF Fires, FiresAndSets, SetTimeout
<1>6. loop' \in {loop, Idle, At("answer", b, c)}
  OBVIOUS
<1>7. /\ gaveUp' \subseteq gaveUp \cup {At("answer", b, c)}
      /\ blind' \subseteq blind \cup {At("answer", b, c), At("terminate", b, c)}
  BY DEF Sees, history
<1> QED
  BY <1>4, <1>5, <1>6, <1>7, TimerType DEF TypeOKB

\* Every variable keeps its type, whatever the scripts, the far ends and the
\* pool do.
LEMMA TypeNext == TypeOKB /\ [NextB]_bvars => TypeOKB'
<1> SUFFICES ASSUME TypeOKB, [NextB]_bvars PROVE TypeOKB'
  OBVIOUS
<1>1. ASSUME NEW b \in Bots, PoolStep(b) PROVE TypeOKB'
  BY <1>1, RequestTaskStepType DEF PoolStep, TypeOKB, history
<1>2. ASSUME NEW b \in Bots, NEW c \in Calls, FarEndStep(b, c) PROVE TypeOKB'
  <2>1. ReceiverStep(b)
    BY <1>2 DEF FarEndStep, ReceiverStep
  <2> QED
    BY <1>2, <2>1, ReceiverType DEF FarEndStep, TypeOKB, history
<1>3. CASE UNCHANGED bvars
  BY <1>3 DEF bvars, vars, history, TypeOKB, TypeOK
<1> QED
  BY <1>1, <1>2, <1>3, ScriptHandlerType, TimerStepType DEF NextB

\* Every variable keeps its type for any bots, behaviours and calls, whatever the
\* pool and the assumptions of the runs.
THEOREM TypesCorrect == SpecB => []TypeOKB
<1>1. InitB => TypeOKB
  BY InitType DEF InitB, TypeOKB
<1> QED
  BY <1>1, TypeNext, PTL DEF SpecB

-----------------------------------------------------------------------------
(* One conversation at a time *)

\* The timer thread stands between test and answer only for an answerHangup bot.
LoopInv ==
  loop # Idle => \E b \in Bots, c \in Calls :
                   loop = At("answer", b, c) /\ behaviour[b] = "answerHangup"

EngagedInv == TypeOKB /\ LoopInv /\ OneEngagement

\* A step that engages no answerHangup bot in a call it was not engaged in.
LEMMA EngagedKept ==
  ASSUME OneEngagement, blind \subseteq blind',
         \A b \in Bots, c \in Calls :
           behaviour[b] = "answerHangup" /\ Engaged(b, c)' => Engaged(b, c)
  PROVE  OneEngagement'
BY DEF OneEngagement

\* A step that neither begins a conversation, nor takes the timer thread to an
\* answer, nor submits one for an answerHangup bot, keeps the invariant.
LEMMA EngagesNone ==
  ASSUME OneEngagement, blind \subseteq blind',
         \A b \in Bots, c \in Calls : InConversation(b, c)' => InConversation(b, c),
         loop' \in {loop, Idle},
         \A u \in Task : executor'[u] > 0 =>
           executor[u] > 0 \/ u.op # "accept" \/ behaviour[u.bot] # "answerHangup"
  PROVE  OneEngagement'
<1>1. ASSUME NEW b \in Bots, NEW c \in Calls, behaviour[b] = "answerHangup", Engaged(b, c)'
      PROVE  Engaged(b, c)
  <2>1. CASE InConversation(b, c)'
    BY <2>1 DEF Engaged, AnswerPending
  <2>2. CASE loop' = At("answer", b, c)
    BY <2>2, TimerType, IdleLoopAssumption DEF Engaged, AnswerPending
  <2>3. ASSUME NEW r \in Bots, Runs([op |-> "accept", bot |-> b, call |-> c, request |-> r])'
        PROVE  Engaged(b, c)
    <3> DEFINE u == [op |-> "accept", bot |-> b, call |-> c, request |-> r]
    <3>1. u \in Task /\ u.op = "accept" /\ u.bot = b
      BY RequestTaskType
    <3>2. executor'[u] > 0
      BY <2>3 DEF Runs
    <3>3. executor[u] > 0
      BY <1>1, <3>1, <3>2
    <3> QED
      BY <3>3 DEF Engaged, AnswerPending, Runs
  <2> QED
    BY <1>1, <2>1, <2>2, <2>3 DEF Engaged, AnswerPending
<1> QED
  BY <1>1, EngagedKept

\* The far end ends conversations, and begins none that it received.
LEMMA FarEndEngages ==
  ASSUME EngagedInv, NEW b \in Bots, NEW c \in Calls, FarEndStep(b, c)
  PROVE  OneEngagement' /\ LoopInv'
<1>1. \E s \in {"early", "hungup"} : SetDialog(b, c, s)
  BY DEF FarEndStep, IncomingCall, RemoteHangup
<1>2. UNCHANGED <<executor, loop, blind>>
  BY DEF FarEndStep, IncomingCall, RemoteHangup, history
<1>3. \A o \in Bots, d \in Calls : InConversation(o, d)' => InConversation(o, d)
  BY <1>1 DEF EngagedInv, TypeOKB, TypeOK, SetDialog, InConversation
<1> QED
  BY <1>2, <1>3, EngagesNone DEF EngagedInv, LoopInv

\* The pool answers the call the bot is engaged in, and ends others.
LEMMA PoolEngages ==
  ASSUME EngagedInv, NEW b \in Bots, PoolStep(b)
  PROVE  OneEngagement' /\ LoopInv'
<1> PICK c \in Calls, r \in Bots : RunAccept(b, c, r) \/ RunTerminate(b, c, r) \/ RunBusy(b, c, r)
  BY DEF PoolStep, RequestTaskStep
<1>1. loop' = loop /\ blind' = blind /\ OneEngagement /\ TypeOK
  BY DEF PoolStep, EngagedInv, TypeOKB, history
<1>2. LoopInv'
  BY <1>1 DEF EngagedInv, LoopInv
<1>3. \A u \in Task : executor'[u] > 0 => executor[u] > 0
  BY <1>1, RequestTaskType, FinishAddsNone DEF TypeOK, RunAccept, RunTerminate, RunBusy
<1>4. CASE RunTerminate(b, c, r) \/ RunBusy(b, c, r)
  <2>1. UNCHANGED dialog \/ SetDialog(b, c, "ended")
    BY <1>4 DEF RunTerminate, RunBusy
  <2>2. \A o \in Bots, d \in Calls : InConversation(o, d)' => InConversation(o, d)
    BY <1>1, <2>1 DEF TypeOK, SetDialog, InConversation
  <2> QED
    BY <1>1, <1>2, <1>3, <2>2, EngagesNone
<1>5. CASE RunAccept(b, c, r)
  <2>1. Engaged(b, c)
    BY <1>5 DEF RunAccept, Engaged, AnswerPending
  <2>2. UNCHANGED dialog \/ SetDialog(b, c, "confirmed")
    BY <1>5 DEF RunAccept
  <2>3. \A o \in Bots, d \in Calls :
          InConversation(o, d)' => InConversation(o, d) \/ (o = b /\ d = c)
    BY <1>1, <2>2 DEF TypeOK, SetDialog, InConversation
  <2>4. \A o \in Bots, d \in Calls : Engaged(o, d)' => Engaged(o, d)
    BY <1>1, <1>3, <2>1, <2>3, RequestTaskType DEF Engaged, AnswerPending, Runs
  <2> QED
    BY <1>1, <1>2, <2>4, EngagedKept
<1> QED
  BY <1>4, <1>5

\* The handlers of the scripts set timers and refuse calls.
LEMMA HandlerEngages ==
  ASSUME EngagedInv, NEW b \in Bots, NEW c \in Calls, ScriptHandlerStep(b, c)
  PROVE  OneEngagement' /\ LoopInv'
<1> USE DEF ScriptHandlerStep, AnswerHangupIncomingCall, SimpleAnswererIncomingCall,
            DefaultIncomingCall, HeavyOneRemoteHangup, DefaultRemoteHangup,
            IncomingCallReturns, RemoteHangupReturns
<1>1. UNCHANGED <<dialog, loop, blind>>
  BY DEF history
<1>2. UNCHANGED executor \/ Ask("busy", b, c)
  OBVIOUS
<1>3. \A u \in Task : executor'[u] > 0 => executor[u] > 0 \/ u.op # "accept"
  BY <1>2, AskType DEF EngagedInv, TypeOKB
<1> QED
  BY <1>1, <1>3, EngagesNone DEF EngagedInv, LoopInv, InConversation

\* A timer of answerHangup engages its bot only when no conversation is under
\* way; when the bot is engaged all the same, by an answer still in the pool, the
\* timer is blind.
LEMMA TimerEngages ==
  ASSUME EngagedInv, NEW b \in Bots, NEW c \in Calls, TimerStep(b, c)
  PROVE  OneEngagement' /\ LoopInv'
<1>1. OneEngagement /\ TypeOKB /\ TypeOK /\ LoopInv
  BY DEF EngagedInv, TypeOKB
<1>0. blind \subseteq blind'
  BY DEF TimerStep, FireBusy, FireAnswer, Answer, FireSimpleAnswer, FireTerminate, FireCallBack,
         Sees, history
<1>2. CASE FireBusy(b, c) \/ FireTerminate(b, c) \/ FireCallBack(b, c)
  <2>1. UNCHANGED <<dialog, loop>>
    BY <1>2 DEF FireBusy, FireTerminate, FireCallBack, vars
  <2>2. UNCHANGED executor \/ \E op \in {"busy", "terminate"} : Ask(op, b, c)
    BY <1>2 DEF FireBusy, FireTerminate, FireCallBack, vars
  <2>3. \A u \in Task : executor'[u] > 0 => executor[u] > 0 \/ u.op # "accept"
    BY <1>1, <2>2, AskType
  <2> QED
    BY <1>0, <1>1, <2>1, <2>3, EngagesNone DEF LoopInv, InConversation
<1>3. CASE FireSimpleAnswer(b, c)
  <2>1. UNCHANGED <<dialog, loop>> /\ Ask("accept", b, c) /\ behaviour[b] # "answerHangup"
    BY <1>3 DEF FireSimpleAnswer
  <2>2. \A u \in Task : executor'[u] > 0 => executor[u] > 0 \/ behaviour[u.bot] # "answerHangup"
    BY <1>1, <2>1, AskType
  <2> QED
    BY <1>0, <1>1, <2>1, <2>2, EngagesNone DEF LoopInv, InConversation
<1>4. CASE Answer(b, c)
  <2>1. loop = At("answer", b, c) /\ loop' = Idle /\ UNCHANGED dialog /\ Ask("accept", b, c)
    BY <1>4 DEF Answer
  <2>2. Engaged(b, c)
    BY <2>1 DEF Engaged
  <2>3. \A u \in Task : executor'[u] > 0 =>
          executor[u] > 0 \/ (u.op = "accept" /\ u.bot = b /\ u.call = c)
    BY <1>1, <2>1, AskType
  <2>4. ASSUME NEW o \in Bots, NEW d \in Calls, Engaged(o, d)'
        PROVE  Engaged(o, d)
    <3>1. CASE InConversation(o, d)'
      BY <2>1, <3>1 DEF InConversation, Engaged
    <3>2. CASE loop' = At("answer", o, d)
      BY <2>1, <3>2, TimerType, IdleLoopAssumption
    <3>3. ASSUME NEW r \in Bots, Runs([op |-> "accept", bot |-> o, call |-> d, request |-> r])'
          PROVE  Engaged(o, d)
      <4> DEFINE u == [op |-> "accept", bot |-> o, call |-> d, request |-> r]
      <4>1. u \in Task /\ executor'[u] > 0 /\ u.bot = o /\ u.call = d
        BY <3>3, RequestTaskType DEF Runs
      <4>2. executor[u] > 0 \/ (o = b /\ d = c)
        BY <2>3, <4>1
      <4> QED
        BY <2>2, <4>2 DEF Engaged, AnswerPending, Runs
    <3> QED
      BY <2>4, <3>1, <3>2, <3>3 DEF Engaged, AnswerPending
  <2> QED
    BY <1>0, <1>1, <2>1, <2>4, EngagedKept DEF LoopInv
<1>5. CASE FireAnswer(b, c) /\ ActiveCall(b)
  <2>1. UNCHANGED <<dialog, loop, executor>>
    BY <1>5 DEF FireAnswer
  <2> QED
    BY <1>0, <1>1, <2>1, EngagesNone DEF LoopInv, InConversation
<1>6. CASE FireAnswer(b, c) /\ ~ActiveCall(b)
  <2>1. /\ behaviour[b] = "answerHangup" /\ loop = Idle
        /\ loop' = At("answer", b, c) /\ UNCHANGED <<dialog, executor>>
        /\ \A d \in Calls : ~InConversation(b, d)
        /\ Sees(At("answer", b, c), b, Calls)
    BY <1>6 DEF FireAnswer, Fires, Due, ActiveCall
  <2>2. ASSUME NEW o \in Bots, NEW d \in Calls, Engaged(o, d)'
        PROVE  (o = b /\ d = c) \/ Engaged(o, d)
    <3>1. CASE InConversation(o, d)'
      BY <2>1, <3>1 DEF InConversation, Engaged
    <3>2. CASE loop' = At("answer", o, d)
      BY <2>1, <3>2 DEF At
    <3>3. CASE AnswerPending(o, d)'
      BY <2>1, <3>3 DEF Engaged, AnswerPending, Runs
    <3> QED
      BY <2>2, <3>1, <3>2, <3>3 DEF Engaged
  <2>3. ASSUME NEW d \in Calls, Engaged(b, d)
        PROVE  At("answer", b, c) \in blind'
    <3>1. AnswerPending(b, d)
      BY <2>1, <2>3, TimerType, IdleLoopAssumption DEF Engaged
    <3> QED
      BY <2>1, <3>1 DEF Sees
  <2>4. SUFFICES ASSUME NEW o \in Bots, behaviour[o] = "answerHangup",
                        NEW d \in Calls, NEW f \in Calls,
                        Engaged(o, d)', Engaged(o, f)', d # f
                 PROVE  {At("answer", o, d), At("answer", o, f)} \cap blind' # {}
    BY <1>1, <2>1 DEF OneEngagement, LoopInv
  <2>5. CASE Engaged(o, d) /\ Engaged(o, f)
    BY <1>0, <1>1, <2>4, <2>5 DEF OneEngagement
  <2>6. CASE ~Engaged(o, d)
    BY <2>2, <2>3, <2>4, <2>6
  <2>7. CASE ~Engaged(o, f)
    BY <2>2, <2>3, <2>4, <2>7
  <2> QED
    BY <2>5, <2>6, <2>7
<1> QED
  BY <1>2, <1>3, <1>4, <1>5, <1>6 DEF TimerStep

LEMMA EngagedInit == InitB => EngagedInv
<1> SUFFICES ASSUME InitB PROVE EngagedInv
  OBVIOUS
<1>1. TypeOKB
  BY InitType DEF InitB, TypeOKB
<1>2. \A b \in Bots, c \in Calls : ~InConversation(b, c) /\ loop # At("answer", b, c)
  BY TimerType, IdleLoopAssumption DEF InitB, Init, InConversation
<1>3. \A u \in Task : ~(executor[u] > 0)
  BY DEF InitB, Init
<1>4. \A b \in Bots, c \in Calls : ~Engaged(b, c)
  BY <1>2, <1>3, RequestTaskType DEF Engaged, AnswerPending, Runs
<1> QED
  BY <1>1, <1>4 DEF EngagedInv, LoopInv, OneEngagement, InitB

LEMMA EngagedNext ==
  ASSUME EngagedInv, [NextB]_bvars
  PROVE  EngagedInv'
<1>1. TypeOKB'
  BY TypeNext DEF EngagedInv
<1>2. CASE UNCHANGED bvars
  BY <1>1, <1>2 DEF EngagedInv, bvars, vars, history, LoopInv, OneEngagement, Engaged,
                    AnswerPending, Runs, InConversation
<1>3. CASE NextB
  BY <1>1, <1>3, PoolEngages, HandlerEngages, TimerEngages, FarEndEngages
     DEF NextB, EngagedInv
<1> QED
  BY <1>2, <1>3

\* What is read of it: one engagement, one conversation.
LEMMA EngagedOnce == EngagedInv => OneConversation
BY DEF EngagedInv, OneEngagement, OneConversation, Engaged

\* An answerHangup bot comes to be in two conversations in one way only, for any
\* bots, calls and behaviours: an answer timer of its looked for a conversation
\* while an answer it had asked for was still in the pool.
THEOREM OneAtATime == SpecB => []OneConversation
<1>1. EngagedInv /\ [NextB]_bvars => EngagedInv'
  BY EngagedNext
<1> QED
  BY EngagedInit, EngagedOnce, <1>1, PTL DEF SpecB

-----------------------------------------------------------------------------
(* The store under the scripts *)

\* A handler of an incoming call that returns, and has submitted at most what a
\* script asks for.
LEMMA ReturnsStore ==
  ASSUME StoreInv, TypeOK', NEW b \in Bots, NEW c \in Calls, HandlerOf("incomingCall", b, c),
         Return(b), UNCHANGED <<sipRequests, role, dialog>>,
         \A u \in Task : executor'[u] > 0 => executor[u] > 0 \/ u.op = "busy"
  PROVE  StoreInv'
<1>1. /\ callback'[b] = Idle /\ \A d \in Calls : callback[b] # [event |-> "remoteHangup", call |-> d]
      /\ \A o \in Bots : o # b => callback'[o] = callback[o]
  BY DEF StoreInv, TypeOK, HandlerOf, Return
<1>2. StoredIsReal' /\ DialogIsReal' /\ LiveCallIsStored'
  BY DEF StoreInv, StoredIsReal, DialogIsReal, LiveCallIsStored, Alone, GetSipRequest
<1>3. HangupIsReal'
  BY <1>1, IdleAssumption DEF StoreInv, HangupIsReal
<1>4. HungUpCallIsForgotten'
  BY <1>1 DEF StoreInv, HungUpCallIsForgotten, Ended, GetSipRequest
<1>5. ASSUME NEW o \in Bots, NEW d \in Calls, NEW op \in {"storeInvite", "storeCall"},
             executor'[[op |-> op, bot |-> o, call |-> d]] > 0
      PROVE  role'[o][d] = "out"
  <2> DEFINE task == [op |-> op, bot |-> o, call |-> d]
  <2>1. task \in Task /\ task.op # "busy"
    BY StoreTaskType
  <2>2. StoreTasksArePlaced
    BY DEF StoreInv
  <2>3. executor[task] > 0
    BY <1>5, <2>1
  <2> QED
    BY <2>2, <2>3 DEF StoreTasksArePlaced, Runs
<1>6. StoreTasksArePlaced'
  BY <1>5 DEF StoreTasksArePlaced, Runs
<1> QED
  BY <1>2, <1>3, <1>4, <1>6 DEF StoreInv

\* A script that asks for something leaves the calls alone.
LEMMA AskStore ==
  ASSUME StoreInv, TypeOK', NEW b \in Bots, NEW c \in Calls, NEW op \in {"accept", "terminate", "busy"},
         UNCHANGED executor \/ Ask(op, b, c), UNCHANGED <<sipRequests, role, dialog, callback>>
  PROVE  StoreInv'
<1>1. \A u \in Task : executor'[u] > 0 => executor[u] > 0 \/ u.op = op
  BY AskType DEF StoreInv
<1>2. StoreTasksArePlaced'
  <2> SUFFICES ASSUME NEW o \in Bots, NEW d \in Calls, NEW k \in {"storeInvite", "storeCall"},
                      executor'[[op |-> k, bot |-> o, call |-> d]] > 0
               PROVE  role[o][d] = "out"
    BY DEF StoreTasksArePlaced, Runs
  <2> DEFINE task == [op |-> k, bot |-> o, call |-> d]
  <2>1. task \in Task /\ task.op # op
    BY StoreTaskType
  <2>2. executor[task] > 0
    BY <1>1, <2>1
  <2> QED
    BY <2>2 DEF StoreInv, StoreTasksArePlaced, Runs
<1> QED
  BY <1>2, CallsUnchanged DEF StoreInv

LEMMA ScriptHandlerStore ==
  ASSUME StoreInv, TypeOK', NEW b \in Bots, NEW c \in Calls, ScriptHandlerStep(b, c)
  PROVE  StoreInv'
<1>1. CASE DefaultIncomingCall(b, c) \/ HeavyOneRemoteHangup(b, c) \/ DefaultRemoteHangup(b, c)
  BY <1>1, HandlerReturnsInv
     DEF DefaultIncomingCall, HeavyOneRemoteHangup, DefaultRemoteHangup, HandlerReturns
<1>2. CASE AnswerHangupIncomingCall(b, c) \/ SimpleAnswererIncomingCall(b, c)
  <2>1. /\ UNCHANGED <<sipRequests, role, dialog>> /\ Return(b)
        /\ HandlerOf("incomingCall", b, c)
        /\ UNCHANGED executor \/ Ask("busy", b, c)
    BY <1>2 DEF AnswerHangupIncomingCall, SimpleAnswererIncomingCall
  <2>2. \A u \in Task : executor'[u] > 0 => executor[u] > 0 \/ u.op = "busy"
    BY <2>1, AskType DEF StoreInv
  <2> QED
    BY <2>1, <2>2, ReturnsStore
<1> QED
  BY <1>1, <1>2 DEF ScriptHandlerStep

LEMMA TimerStore ==
  ASSUME StoreInv, TypeOK', NEW b \in Bots, NEW c \in Calls, TimerStep(b, c)
  PROVE  StoreInv'
<1> USE DEF TimerStep, FireBusy, FireAnswer, Answer, FireSimpleAnswer, FireTerminate, FireCallBack
<1>1. UNCHANGED <<sipRequests, role, dialog, callback>>
  BY DEF vars
<1>2. \E op \in {"accept", "terminate", "busy"} : UNCHANGED executor \/ Ask(op, b, c)
  BY DEF vars
<1> QED
  BY <1>1, <1>2, AskStore

LEMMA StoreNextB ==
  ASSUME StoreInv, TypeOKB, [NextB]_bvars
  PROVE  StoreInv'
<1>1. TypeOK'
  BY TypeNext DEF TypeOKB
<1>2. ASSUME NEW b \in Bots, PoolStep(b) PROVE StoreInv'
  BY <1>2, RequestTaskInv DEF PoolStep
<1>3. ASSUME NEW b \in Bots, NEW c \in Calls, FarEndStep(b, c) PROVE StoreInv'
  BY <1>3, ReceiverInv DEF FarEndStep, ReceiverStep
<1>4. CASE UNCHANGED bvars
  <2>1. UNCHANGED <<sipRequests, role, dialog, callback>> /\ UNCHANGED executor
    BY <1>4 DEF bvars, vars
  <2>2. StoreTasksArePlaced'
    BY <2>1, NoNewTask
  <2> QED
    BY <1>1, <2>1, <2>2, CallsUnchanged DEF StoreInv
<1> QED
  BY <1>1, <1>2, <1>3, <1>4, ScriptHandlerStore, TimerStore DEF NextB

\* Whatever the scripts ask for and whenever their timers fire, a call that only
\* one bot received is in the store while it lasts, and not after its hangup.
THEOREM ScriptsKeepStore == SpecB => [](LiveCallIsStored /\ HungUpCallIsForgotten)
<1> DEFINE Inv == StoreInv /\ TypeOKB
<1>1. InitB => Inv
  BY InitStore, InitType DEF InitB, TypeOKB
<1>2. Inv /\ [NextB]_bvars => Inv'
  BY StoreNextB, TypeNext
<1>3. Inv => LiveCallIsStored /\ HungUpCallIsForgotten
  BY DEF StoreInv
<1> QED
  BY <1>1, <1>2, <1>3, PTL DEF SpecB

-----------------------------------------------------------------------------
(* The invariants *)

\* The four places an answer goes through, one after the other and once.
IsReported(s) == callback[s.bot] = [event |-> "incomingCall", call |-> s.call]
IsArmed(s) == At("answer", s.bot, s.call) \in timers
IsAnswering(s) == loop = At("answer", s.bot, s.call)
IsAsked(s) == saying[s] # "none"

AskedOnce ==
  \A s \in Sayings :
    /\ IsReported(s) => ~IsArmed(s)
    /\ IsReported(s) \/ IsArmed(s) => ~IsAnswering(s)
    /\ IsReported(s) \/ IsArmed(s) \/ IsAnswering(s) => ~IsAsked(s)
    /\ IsReported(s) \/ IsArmed(s) \/ IsAnswering(s) \/ IsAsked(s) => role[s.bot][s.call] # "none"

\* A stream starts at the beginning and has something to write until it is closed.
OutputInv ==
  \A s \in Sayings :
    /\ saying[s] \in {"none", "scheduled", "generated"} => output[s].written = 0
    /\ saying[s] = "saving" => output[s].written < Chunks

\* A file is named after the call of the words that created it.
FileInv == \A n \in Calls : file[n] # Nothing => file[n].call = n

SayInv == TypeOKS /\ AskedOnce /\ OutputInv /\ FileInv /\ FileIsDeleted

-----------------------------------------------------------------------------
(* The words are asked for once *)

\* Words are told apart by their bot and their call.
LEMMA SayingIsPair ==
  ASSUME NEW s \in Sayings
  PROVE  /\ s.bot \in Bots /\ s.call \in Calls
         /\ \A t \in Sayings : s.bot = t.bot /\ s.call = t.call => s = t
BY DEF Sayings

\* A step that takes no answer further.
LEMMA AskedKept ==
  ASSUME AskedOnce,
         \A s \in Sayings :
           /\ IsReported(s)' => IsReported(s)
           /\ IsArmed(s)' => IsArmed(s)
           /\ IsAnswering(s)' => IsAnswering(s)
           /\ IsAsked(s)' <=> IsAsked(s)
           /\ role[s.bot][s.call] # "none" => role'[s.bot][s.call] # "none"
  PROVE  AskedOnce'
BY DEF AskedOnce

\* A step of the words themselves asks for none.
LEMMA SpeechAsked ==
  ASSUME TypeOKS, AskedOnce, NEW s \in Sayings, SpeechStep(s)
  PROVE  AskedOnce'
<1>1. UNCHANGED <<callback, timers, loop, role>>
  BY DEF SpeechStep, Generate, GenerateFails, OpenFile, WriteChunk, SaveFails, RequestIsGone,
         PlayAudioFile, DeleteFile, SendChunk, bvars, vars
<1>2. \/ UNCHANGED saying
      \/ \E from, to \in SayingState \ {"none"} : Goes(s, from, to)
  BY DEF SpeechStep, Generate, GenerateFails, OpenFile, WriteChunk, SaveFails, RequestIsGone,
         PlayAudioFile, DeleteFile, SendChunk, SayingState
<1>3. \A t \in Sayings : IsAsked(t)' <=> IsAsked(t)
  BY <1>2 DEF Goes, IsAsked, TypeOKS
<1>4. \A t \in Sayings : /\ IsReported(t)' = IsReported(t) /\ IsArmed(t)' = IsArmed(t)
                         /\ IsAnswering(t)' = IsAnswering(t)
  BY <1>1 DEF IsReported, IsArmed, IsAnswering
<1> QED
  BY <1>1, <1>3, <1>4, AskedKept

\* What a step of the scripts and the calls does to the words.
Says == saying' = [s \in Sayings |-> IF SayWords(s) THEN "scheduled" ELSE saying[s]]

\* The timer thread asks for words only when it leaves an answer.
LEMMA SaysNothing ==
  ASSUME TypeOKS, Says, loop' = loop \/ loop' # Idle
  PROVE  saying' = saying
<1>1. \A s \in Sayings : ~SayWords(s)
  BY SayingIsPair, TimerType, IdleLoopAssumption DEF SayWords
<1> QED
  BY <1>1 DEF Says, TypeOKS

\* A call that comes is reported once: the bot had no part in it before.
LEMMA FarEndAsked ==
  ASSUME TypeOKS, AskedOnce, Says, NEW b \in Bots, NEW c \in Calls, FarEndStep(b, c)
  PROVE  AskedOnce'
<1>1. UNCHANGED <<timers, loop>> /\ saying' = saying
  BY SaysNothing DEF FarEndStep
<1>2. role \in [Bots -> [Calls -> Role]] /\ callback \in [Bots -> Handler]
  BY DEF TypeOKS, TypeOKB, TypeOK
<1>3. CASE IncomingCall(b, c)
  <2>1. /\ role[b][c] = "none" /\ role' = [role EXCEPT ![b][c] = "in"]
        /\ callback' = [callback EXCEPT ![b] = [event |-> "incomingCall", call |-> c]]
    BY <1>3 DEF IncomingCall
  <2>2. ASSUME NEW s \in Sayings
        PROVE  /\ IsReported(s)' => IsReported(s) \/ (s.bot = b /\ s.call = c)
               /\ role[s.bot][s.call] # "none" => role'[s.bot][s.call] # "none"
               /\ s.bot = b /\ s.call = c => role[s.bot][s.call] = "none" /\ role'[s.bot][s.call] = "in"
    BY <1>2, <2>1, SayingIsPair DEF IsReported
  <2>3. \A s \in Sayings : /\ IsArmed(s)' = IsArmed(s) /\ IsAnswering(s)' = IsAnswering(s)
                           /\ IsAsked(s)' = IsAsked(s)
    BY <1>1 DEF IsArmed, IsAnswering, IsAsked
  <2> QED
    BY <2>2, <2>3 DEF AskedOnce
<1>4. CASE RemoteHangup(b, c)
  <2>1. role' = role /\ callback' = [callback EXCEPT ![b] = [event |-> "remoteHangup", call |-> c]]
    BY <1>4 DEF RemoteHangup
  <2>2. \A s \in Sayings : IsReported(s)' => IsReported(s)
    BY <1>2, <2>1, SayingIsPair DEF IsReported
  <2> QED
    BY <1>1, <2>1, <2>2, AskedKept DEF IsArmed, IsAnswering, IsAsked
<1> QED
  BY <1>3, <1>4 DEF FarEndStep

\* A handler that returns has set the one timer of an answer, or none.
LEMMA HandlerAsked ==
  ASSUME TypeOKS, AskedOnce, Says, NEW b \in Bots, NEW c \in Calls, ScriptHandlerStep(b, c)
  PROVE  AskedOnce'
<1> USE DEF ScriptHandlerStep, AnswerHangupIncomingCall, SimpleAnswererIncomingCall,
            DefaultIncomingCall, HeavyOneRemoteHangup, DefaultRemoteHangup,
            IncomingCallReturns, RemoteHangupReturns, HandlerOf, Return, SetTimeout
<1>1. /\ UNCHANGED <<role, loop>>
      /\ callback' = [callback EXCEPT ![b] = Idle]
  OBVIOUS
<1>2. saying' = saying
  BY <1>1, SaysNothing
<1>3. callback \in [Bots -> Handler]
  BY DEF TypeOKS, TypeOKB, TypeOK
<1>4. \A s \in Sayings : /\ IsReported(s)' => IsReported(s)
                         /\ s.bot = b => ~IsReported(s)'
  BY <1>1, <1>3, IdleAssumption, SayingIsPair DEF IsReported
<1>5. \A s \in Sayings : IsAnswering(s)' = IsAnswering(s) /\ IsAsked(s)' = IsAsked(s)
  BY <1>1, <1>2 DEF IsAnswering, IsAsked
<1>6. CASE \E fn \in {"busy", "callBack"} : timers' \subseteq timers \cup {At(fn, b, c)}
  <2>1. \A s \in Sayings : IsArmed(s)' => IsArmed(s)
    BY <1>6 DEF IsArmed, At
  <2> QED
    BY <1>1, <1>4, <1>5, <2>1, AskedKept
<1>7. CASE /\ callback[b] = [event |-> "incomingCall", call |-> c]
           /\ timers' = timers \cup {At("answer", b, c)}
  <2>1. \A s \in Sayings : /\ s.bot = b /\ s.call = c => IsReported(s)
                           /\ IsArmed(s)' => IsArmed(s) \/ (s.bot = b /\ s.call = c)
    BY <1>7 DEF IsReported, IsArmed, At
  <2> QED
    BY <1>1, <1>4, <1>5, <2>1 DEF AskedOnce
<1>8. \/ \E fn \in {"busy", "callBack"} : timers' \subseteq timers \cup {At(fn, b, c)}
      \/ /\ callback[b] = [event |-> "incomingCall", call |-> c]
         /\ timers' = timers \cup {At("answer", b, c)}
  OBVIOUS
<1> QED
  BY <1>6, <1>7, <1>8

\* The timer thread takes an answer from its timer, and leaves it with the words
\* asked for.
LEMMA TimerAsked ==
  ASSUME TypeOKS, AskedOnce, Says, NEW b \in Bots, NEW c \in Calls, TimerStep(b, c)
  PROVE  AskedOnce'
<1>1. UNCHANGED <<role, callback>>
  BY DEF TimerStep, FireBusy, FireAnswer, Answer, FireSimpleAnswer, FireTerminate,
         FireCallBack, vars
<1>2. \A s \in Sayings : IsReported(s)' = IsReported(s)
  BY <1>1 DEF IsReported
<1>3. timers' \subseteq timers \cup {At("terminate", b, c)}
  BY DEF TimerStep, FireBusy, FireAnswer, Answer, FireSimpleAnswer, FireTerminate,
         FireCallBack, Fires, FiresAndSets, SetTimeout
<1>4. \A s \in Sayings : IsArmed(s)' => IsArmed(s)
  BY <1>3 DEF IsArmed, At
<1>5. CASE UNCHANGED loop
  <2>1. saying' = saying
    BY <1>5, SaysNothing
  <2> QED
    BY <1>1, <1>2, <1>4, <1>5, <2>1, AskedKept DEF IsAnswering, IsAsked
<1>6. CASE FireAnswer(b, c) /\ loop' = At("answer", b, c)
  <2>1. saying' = saying
    BY <1>6, TimerType, IdleLoopAssumption, SaysNothing
  <2>2. /\ At("answer", b, c) \in timers
        /\ timers' = timers \ {At("answer", b, c)}
    BY <1>6 DEF FireAnswer, Fires, Due
  <2>3. \A s \in Sayings :
          /\ s.bot = b /\ s.call = c => IsArmed(s) /\ ~IsArmed(s)'
          /\ IsAnswering(s)' => s.bot = b /\ s.call = c
    BY <1>6, <2>2 DEF IsArmed, IsAnswering, At
  <2>4. \A s \in Sayings : IsAsked(s)' = IsAsked(s)
    BY <2>1 DEF IsAsked
  <2> QED
    BY <1>1, <1>2, <1>4, <2>3, <2>4 DEF AskedOnce
<1>7. CASE Answer(b, c)
  <2>1. loop = At("answer", b, c) /\ loop' = Idle
    BY <1>7 DEF Answer
  <2>2. \A s \in Sayings : ~IsAnswering(s)'
    BY <2>1, SayingIsPair, TimerType, IdleLoopAssumption DEF IsAnswering
  <2>3. \A s \in Sayings : IsAsked(s)' => IsAsked(s) \/ IsAnswering(s)
    BY DEF Says, SayWords, IsAsked, IsAnswering
  <2> QED
    BY <1>1, <1>2, <1>4, <2>2, <2>3 DEF AskedOnce
<1>8. \/ UNCHANGED loop
      \/ FireAnswer(b, c) /\ loop' = At("answer", b, c)
      \/ Answer(b, c)
  BY DEF TimerStep, FireBusy, FireAnswer, FireSimpleAnswer, FireTerminate, FireCallBack
<1> QED
  BY <1>5, <1>6, <1>7, <1>8

\* No step of the scripts, the calls and the pool asks for words twice.
LEMMA CallAsked ==
  ASSUME TypeOKS, AskedOnce, Says, NextB
  PROVE  AskedOnce'
<1>1. ASSUME NEW b \in Bots, PoolStep(b) PROVE AskedOnce'
  <2>1. UNCHANGED <<timers, loop>> /\ saying' = saying
    BY <1>1, SaysNothing DEF PoolStep
  <2>2. UNCHANGED <<role, callback>>
    BY <1>1 DEF PoolStep, RequestTaskStep, RunAccept, RunTerminate, RunBusy
  <2> QED
    BY <2>1, <2>2, AskedKept DEF IsReported, IsArmed, IsAnswering, IsAsked
<1> QED
  BY <1>1, FarEndAsked, HandlerAsked, TimerAsked DEF NextB

-----------------------------------------------------------------------------
(* Types, streams and files *)

LEMMA SayInit == InitS => SayInv
<1> SUFFICES ASSUME InitS PROVE SayInv
  OBVIOUS
<1>1. TypeOKB
  BY InitType DEF InitS, InitB, TypeOKB
<1>2. <<>> \in Seq(File) /\ 0 \in 0..Chunks
  BY ChunksAssumption, EmptySeq
<1>3. [at |-> "none", session |-> Nothing, file |-> Nothing, sent |-> <<>>] \in Sender
  BY <1>2 DEF Sender, File
<1>4. [file |-> Nothing, written |-> 0] \in [file : File, written : 0..Chunks]
  BY <1>2 DEF File
<1>5. TypeOKS
  BY <1>1, <1>2, <1>3, <1>4 DEF InitS, TypeOKS, SayingState, File
<1>6. AskedOnce
  BY SayingIsPair, IdleAssumption, TimerType, IdleLoopAssumption
     DEF InitS, InitB, Init, AskedOnce, IsReported, IsArmed, IsAnswering, IsAsked
<1>7. OutputInv /\ FileInv /\ FileIsDeleted
  BY DEF InitS, OutputInv, FileInv, FileIsDeleted
<1> QED
  BY <1>5, <1>6, <1>7 DEF SayInv

\* The scripts and the calls leave the streams and the files alone: words that
\* are asked for have none yet.
LEMMA CallStepInv ==
  ASSUME SayInv, CallStep
  PROVE  SayInv'
<1>1. /\ TypeOKS /\ TypeOKB /\ AskedOnce /\ NextB /\ Says
      /\ UNCHANGED <<file, content, output, sender, spoiled>>
  BY DEF SayInv, TypeOKS, CallStep, Says
<1>2. AskedOnce'
  BY <1>1, CallAsked
<1>3. \A s \in Sayings : \/ saying'[s] = saying[s]
                         \/ saying'[s] = "scheduled" /\ saying[s] = "none"
  BY <1>1 DEF Says, SayWords, AskedOnce, IsAnswering, IsAsked
<1>4. saying' \in [Sayings -> SayingState]
  BY <1>1 DEF Says, TypeOKS, SayingState
<1>5. session' \in [Bots -> Calls \cup {Nothing}]
  BY <1>1 DEF CallStep, MediaFollowDialogs, TypeOKS
<1>6. TypeOKS'
  BY <1>1, <1>4, <1>5, TypeNext DEF TypeOKS
<1>7. OutputInv'
  BY <1>1, <1>3 DEF SayInv, OutputInv
<1>8. FileInv'
  BY <1>1 DEF SayInv, FileInv
<1>9. FileIsDeleted'
  <2>1. ASSUME NEW n \in Calls, file[n] # Nothing
        PROVE  file[n] \in Sayings /\ saying[file[n]] \in {"saving", "saved", "played", "failed"}
    BY <1>1, <2>1 DEF SayInv, TypeOKS, File, FileIsDeleted
  <2> QED
    BY <1>1, <1>3, <2>1 DEF FileIsDeleted
<1> QED
  BY <1>2, <1>6, <1>7, <1>8, <1>9 DEF SayInv

\* A step of some words from one place to the next.
LEMMA GoesTo ==
  ASSUME TypeOKS, NEW s \in Sayings, NEW from, NEW to \in SayingState, Goes(s, from, to)
  PROVE  /\ saying' \in [Sayings -> SayingState]
         /\ saying[s] = from /\ saying'[s] = to
         /\ \A t \in Sayings : t # s => saying'[t] = saying[t]
BY DEF Goes, TypeOKS

\* A step that leaves files and streams alone, and moves some words onwards.
LEMMA OnwardsInv ==
  ASSUME SayInv, AskedOnce', NEW s \in Sayings, NEW from, NEW to \in SayingState,
         Goes(s, from, to),
         <<from, to>> \in {<<"scheduled", "generated">>, <<"scheduled", "failed">>,
                           <<"generated", "saved">>, <<"saving", "saved">>,
                           <<"saved", "failed">>, <<"saved", "played">>},
         UNCHANGED <<bvars, file, content, output, session>>,
         sender' \in [Sayings -> Sender], spoiled' \subseteq Sayings
  PROVE  SayInv'
<1>1. /\ saying' \in [Sayings -> SayingState]
      /\ saying[s] = from /\ saying'[s] = to
      /\ \A t \in Sayings : t # s => saying'[t] = saying[t]
  BY GoesTo DEF SayInv
<1>2. TypeOKB'
  BY TypeNext DEF SayInv, TypeOKS
<1>3. TypeOKS'
  BY <1>1, <1>2 DEF SayInv, TypeOKS
<1>4. OutputInv'
  BY <1>1 DEF SayInv, OutputInv
<1>5. FileInv'
  BY DEF SayInv, FileInv
<1>6. FileIsDeleted'
  <2>1. ASSUME NEW n \in Calls, file[n] # Nothing
        PROVE  file[n] \in Sayings /\ saying[file[n]] \in {"saving", "saved", "played", "failed"}
    BY <2>1 DEF SayInv, TypeOKS, File, FileIsDeleted
  <2> QED
    BY <1>1, <2>1 DEF FileIsDeleted
<1> QED
  BY <1>3, <1>4, <1>5, <1>6 DEF SayInv

\* Some bytes at a place of a file leave a file.
LEMMA WrittenType ==
  ASSUME NEW chunks \in Seq(File), NEW k \in Nat \ {0}, NEW x \in File
  PROVE  WrittenAt(chunks, k, x) \in Seq(File)
<1> DEFINE n == IF k > Len(chunks) THEN k ELSE Len(chunks)
<1>1. n \in Nat
  BY LenProperties
<1>2. \A i \in 1..n : (IF i = k THEN x ELSE IF i <= Len(chunks) THEN chunks[i] ELSE Nothing) \in File
  <2>1. \A i \in 1..n : i <= Len(chunks) => i \in 1..Len(chunks)
    BY <1>1, LenProperties
  <2> QED
    BY <2>1, ElementOfSeq DEF File
<1>3. WrittenAt(chunks, k, x) \in [1..n -> File]
  BY <1>2 DEF WrittenAt
<1> QED
  BY <1>1, <1>3, SeqDef

\* The file of some words is created by them, or is the one another bot of the
\* call has created.
LEMMA OpenFileInv ==
  ASSUME SayInv, AskedOnce', NEW s \in Sayings, OpenFile(s)
  PROVE  SayInv'
<1> DEFINE n == s.call
           f == IF file[n] = Nothing THEN s ELSE file[n]
<1>1. n \in Calls /\ n = FileName(s.call)
  BY SayingIsPair DEF FileName
<1>2. /\ file' = [file EXCEPT ![n] = f] /\ content' = [content EXCEPT ![f] = <<>>]
      /\ output' = [output EXCEPT ![s].file = f]
      /\ Goes(s, "generated", "saving") /\ UNCHANGED <<bvars, sender, session, spoiled>>
  BY <1>1 DEF OpenFile
<1>3. /\ saying' \in [Sayings -> SayingState]
      /\ saying[s] = "generated" /\ saying'[s] = "saving"
      /\ \A t \in Sayings : t # s => saying'[t] = saying[t]
  BY <1>2, GoesTo DEF SayInv, SayingState
<1>4. f \in File /\ (f # s => f = file[n])
  BY <1>1 DEF SayInv, TypeOKS, File
<1>5. file[n] # Nothing => file[n].call = n /\ file[n] # s
  BY <1>1, <1>3 DEF SayInv, FileInv, FileIsDeleted
<1> HIDE DEF f
<1>6. TypeOKB'
  BY <1>2, TypeNext DEF SayInv, TypeOKS
<1>7. TypeOKS'
  BY <1>1, <1>2, <1>3, <1>4, <1>6, EmptySeq DEF SayInv, TypeOKS
<1>8. /\ output'[s].written = output[s].written
      /\ \A t \in Sayings : t # s => output'[t] = output[t]
  BY <1>2 DEF SayInv, TypeOKS
<1>9. OutputInv'
  BY <1>3, <1>8, ChunksAssumption DEF SayInv, OutputInv
<1>10. FileInv'
  BY <1>1, <1>2, <1>4, <1>5 DEF SayInv, TypeOKS, FileInv, f
<1>11. FileIsDeleted'
  <2>1. ASSUME NEW m \in Calls, file'[m] # Nothing
        PROVE  saying'[file'[m]] \in {"saving", "saved", "played", "failed"}
    <3>1. CASE m = n /\ f = s
      BY <1>1, <1>2, <1>3, <3>1 DEF SayInv, TypeOKS
    <3>2. CASE m # n \/ f # s
      <4>1. file'[m] = file[m]
        BY <1>1, <1>2, <1>4, <3>2 DEF SayInv, TypeOKS
      <4>2. file[m] \in Sayings /\ saying[file[m]] \in {"saving", "saved", "played", "failed"}
        BY <2>1, <4>1 DEF SayInv, TypeOKS, File, FileIsDeleted
      <4> QED
        BY <1>3, <4>1, <4>2
    <3> QED
      BY <3>1, <3>2
  <2> QED
    BY <2>1 DEF FileIsDeleted
<1> QED
  BY <1>7, <1>9, <1>10, <1>11 DEF SayInv

\* A stream writes its next buffer, and closes after the last.
LEMMA WriteChunkInv ==
  ASSUME SayInv, AskedOnce', NEW s \in Sayings, WriteChunk(s)
  PROVE  SayInv'
<1> DEFINE k == output[s].written + 1
           to == IF k = Chunks THEN "saved" ELSE "saving"
<1>1. /\ Goes(s, "saving", to)
      /\ content' = [content EXCEPT ![output[s].file] = WrittenAt(@, k, s)]
      /\ output' = [output EXCEPT ![s].written = k]
      /\ UNCHANGED <<bvars, file, sender, session, spoiled>>
  BY DEF WriteChunk
<1>2. /\ saying' \in [Sayings -> SayingState]
      /\ saying[s] = "saving" /\ saying'[s] = to
      /\ \A t \in Sayings : t # s => saying'[t] = saying[t]
  BY <1>1, GoesTo DEF SayInv, SayingState
<1>3. /\ output[s] \in [file : File, written : 0..Chunks]
      /\ output[s].written < Chunks
  BY <1>2 DEF SayInv, TypeOKS, OutputInv
<1>4. k \in Nat \ {0} /\ k \in 0..Chunks /\ (k # Chunks => k < Chunks)
  BY <1>3, ChunksAssumption
<1> HIDE DEF k
<1>5. content' \in [Sayings -> Seq(File)]
  <2>1. \A t \in Sayings : WrittenAt(content[t], k, s) \in Seq(File)
    BY <1>4, WrittenType DEF SayInv, TypeOKS, File
  <2> QED
    BY <1>1, <2>1 DEF SayInv, TypeOKS
<1>6. /\ output' \in [Sayings -> [file : File, written : 0..Chunks]]
      /\ output'[s].written = k
      /\ \A t \in Sayings : t # s => output'[t] = output[t]
  BY <1>1, <1>4 DEF SayInv, TypeOKS
<1>7. TypeOKB'
  BY <1>1, TypeNext DEF SayInv, TypeOKS
<1>8. TypeOKS'
  BY <1>1, <1>2, <1>5, <1>6, <1>7 DEF SayInv, TypeOKS
<1>9. OutputInv'
  BY <1>2, <1>4, <1>6 DEF SayInv, OutputInv
<1>10. FileInv'
  BY <1>1 DEF SayInv, FileInv
<1>11. FileIsDeleted'
  <2>1. ASSUME NEW n \in Calls, file[n] # Nothing
        PROVE  file[n] \in Sayings /\ saying[file[n]] \in {"saving", "saved", "played", "failed"}
    BY <2>1 DEF SayInv, TypeOKS, File, FileIsDeleted
  <2> QED
    BY <1>1, <1>2, <2>1 DEF FileIsDeleted
<1> QED
  BY <1>8, <1>9, <1>10, <1>11 DEF SayInv

\* The file is deleted when the words were said: it is the one of their call.
LEMMA DeleteFileInv ==
  ASSUME SayInv, AskedOnce', NEW s \in Sayings, DeleteFile(s)
  PROVE  SayInv'
<1>1. /\ s.call \in Calls /\ file' = [file EXCEPT ![s.call] = Nothing]
      /\ Goes(s, "played", "over")
      /\ UNCHANGED <<bvars, content, output, sender, session, spoiled>>
  BY SayingIsPair DEF DeleteFile, FileName
<1>2. /\ saying' \in [Sayings -> SayingState]
      /\ saying[s] = "played" /\ saying'[s] = "over"
      /\ \A t \in Sayings : t # s => saying'[t] = saying[t]
  BY <1>1, GoesTo DEF SayInv, SayingState
<1>3. /\ file' \in [Calls -> File] /\ file'[s.call] = Nothing
      /\ \A n \in Calls : n # s.call => file'[n] = file[n]
  BY <1>1 DEF SayInv, TypeOKS, File
<1>4. TypeOKB'
  BY <1>1, TypeNext DEF SayInv, TypeOKS
<1>5. TypeOKS'
  BY <1>1, <1>2, <1>3, <1>4 DEF SayInv, TypeOKS
<1>6. OutputInv'
  BY <1>1, <1>2 DEF SayInv, OutputInv
<1>7. FileInv'
  BY <1>3 DEF SayInv, FileInv
<1>8. ASSUME NEW n \in Calls, file'[n] # Nothing
      PROVE  saying'[file'[n]] \in {"saving", "saved", "played", "failed"}
  <2>1. n # s.call /\ file'[n] = file[n] /\ file[n] \in Sayings
    BY <1>3, <1>8 DEF SayInv, TypeOKS, File
  <2>2. file[n] # s
    BY <1>8, <2>1 DEF SayInv, FileInv
  <2>3. saying'[file[n]] = saying[file[n]]
    BY <1>2, <2>1, <2>2
  <2> QED
    BY <1>8, <2>1, <2>3 DEF SayInv, FileIsDeleted
<1> QED
  BY <1>5, <1>6, <1>7, <1>8 DEF SayInv, FileIsDeleted

\* A sender reads the file it was given, whatever becomes of its name.
LEMMA SendChunkInv ==
  ASSUME SayInv, AskedOnce', NEW s \in Sayings, SendChunk(s)
  PROVE  SayInv'
<1> DEFINE r == sender[s]
           chunks == IF r.file = Nothing THEN <<>> ELSE content[r.file]
           k == Len(r.sent) + 1
<1>1. /\ UNCHANGED <<bvars, saying, file, content, output, session, spoiled>>
      /\ sender' = [sender EXCEPT ![s] = IF k <= Len(chunks)
                                         THEN [r EXCEPT !.sent = Append(@, chunks[k])]
                                         ELSE [r EXCEPT !.at = "done"]]
  BY DEF SendChunk
<1>2. r \in Sender /\ r.sent \in Seq(File) /\ r.file \in File
  BY DEF SayInv, TypeOKS, Sender
<1>3. chunks \in Seq(File)
  BY <1>2, EmptySeq DEF SayInv, TypeOKS, File
<1>4. k \in Nat \ {0} /\ (k <= Len(chunks) => k \in 1..Len(chunks))
  BY <1>2, <1>3, LenProperties
<1> HIDE DEF chunks, k
<1>5. k <= Len(chunks) => Append(r.sent, chunks[k]) \in Seq(File)
  BY <1>2, <1>3, <1>4, ElementOfSeq, AppendProperties
<1>6. /\ k <= Len(chunks) => [r EXCEPT !.sent = Append(@, chunks[k])] \in Sender
      /\ [r EXCEPT !.at = "done"] \in Sender
  BY <1>2, <1>5 DEF Sender
<1>7. sender' \in [Sayings -> Sender]
  BY <1>1, <1>6 DEF SayInv, TypeOKS
<1>8. TypeOKB'
  BY <1>1, TypeNext DEF SayInv, TypeOKS
<1>9. TypeOKS'
  BY <1>1, <1>7, <1>8 DEF SayInv, TypeOKS
<1> QED
  BY <1>1, <1>9 DEF SayInv, OutputInv, FileInv, FileIsDeleted

LEMMA SpeechStepInv ==
  ASSUME SayInv, NEW s \in Sayings, SpeechStep(s)
  PROVE  SayInv'
<1>1. AskedOnce'
  BY SpeechAsked DEF SayInv
<1>2. sender \in [Sayings -> Sender] /\ spoiled \subseteq Sayings
  BY DEF SayInv, TypeOKS
<1>3. CASE Generate(s) \/ GenerateFails(s) \/ SaveFails(s) \/ RequestIsGone(s)
  <2>1. sender' = sender /\ spoiled' \subseteq Sayings
        /\ UNCHANGED <<bvars, file, content, output, session>>
    BY <1>2, <1>3 DEF Generate, GenerateFails, SaveFails, RequestIsGone
  <2>2. \E from, to \in SayingState :
          /\ Goes(s, from, to)
          /\ <<from, to>> \in {<<"scheduled", "generated">>, <<"scheduled", "failed">>,
                               <<"generated", "saved">>, <<"saving", "saved">>,
                               <<"saved", "failed">>, <<"saved", "played">>}
    BY <1>3 DEF Generate, GenerateFails, SaveFails, RequestIsGone, SayingState
  <2> QED
    BY <1>1, <1>2, <2>1, <2>2, OnwardsInv
<1>4. CASE PlayAudioFile(s)
  <2>1. /\ Goes(s, "saved", "played")
        /\ UNCHANGED <<bvars, file, content, output, session, spoiled>>
        /\ sender' = [sender EXCEPT ![s] = [at |-> "sending", session |-> session[s.bot],
                                            file |-> file[FileName(s.call)], sent |-> <<>>]]
    BY <1>4 DEF PlayAudioFile
  <2>2. [at |-> "sending", session |-> session[s.bot],
         file |-> file[FileName(s.call)], sent |-> <<>>] \in Sender
    BY SayingIsPair, EmptySeq DEF SayInv, TypeOKS, Sender, FileName
  <2>3. sender' \in [Sayings -> Sender]
    BY <1>2, <2>1, <2>2
  <2> QED
    BY <1>1, <1>2, <2>1, <2>3, OnwardsInv DEF SayingState
<1> QED
  BY <1>1, <1>3, <1>4, OpenFileInv, WriteChunkInv, DeleteFileInv, SendChunkInv DEF SpeechStep

LEMMA SayNext == SayInv /\ [NextS]_svars => SayInv'
<1> SUFFICES ASSUME SayInv, [NextS]_svars PROVE SayInv'
  OBVIOUS
<1>1. CASE UNCHANGED svars
  <2>1. TypeOKB'
    BY <1>1, TypeNext DEF svars, SayInv, TypeOKS
  <2>2. AskedOnce'
    BY <1>1 DEF SayInv, AskedOnce, IsReported, IsArmed, IsAnswering, IsAsked, svars, bvars, vars,
                speechVars
  <2> QED
    BY <1>1, <2>1, <2>2 DEF SayInv, TypeOKS, OutputInv, FileInv, FileIsDeleted, svars, speechVars
<1> QED
  BY <1>1, CallStepInv, SpeechStepInv DEF NextS

\* Every variable keeps its type: no stream writes more than its words take.
THEOREM SpeechTypesCorrect == SpecS => []TypeOKS
<1>1. SayInv => TypeOKS
  BY DEF SayInv
<1> QED
  BY <1>1, SayInit, SayNext, PTL DEF SpecS

\* The file of some words is gone when they were said, whatever the pool, the
\* far ends and the other bots of the call do meanwhile; it stays only when the
\* thread that says them has failed.
THEOREM FileDeleted == SpecS => []FileIsDeleted
<1>1. SayInv => FileIsDeleted
  BY DEF SayInv
<1> QED
  BY <1>1, SayInit, SayNext, PTL DEF SpecS

-----------------------------------------------------------------------------
(* The words that are heard *)

\* A stream writes a file of its own call.
StreamInv ==
  \A t \in Sayings : saying[t] = "saving" => output[t].file # Nothing /\ output[t].file.call = t.call

\* The file s created holds n buffers, all of them its own.
Holds(s, n) == Len(content[s]) = n /\ \A i \in 1..n : content[s][i] = s

\* What a sender has sent of a file that is whole.
SendsAll(s) ==
  LET r == sender[s]
  IN /\ saying[s] \in {"played", "over"} /\ r.file = s /\ Holds(s, Chunks)
     /\ Len(r.sent) <= Chunks /\ \A i \in 1..Len(r.sent) : r.sent[i] = s
     /\ r.at = "done" => Len(r.sent) = Chunks

\* The file of a bot that is alone in its call is its own from the moment it is
\* opened, is whole when it is closed, and is what the sender was given.
Whole(s) ==
  IsAlone(s) /\ s \notin spoiled =>
    /\ saying[s] = "saving" => file[s.call] = s /\ output[s].file = s /\ Holds(s, output[s].written)
    /\ saying[s] = "saved" => file[s.call] = s /\ Holds(s, Chunks)
    /\ IF IsPlayed(s) THEN SendsAll(s) ELSE sender[s].sent = <<>>

WholeInv == SayInv /\ StreamInv /\ \A s \in Sayings : Whole(s)

\* The words of a bot that is alone in its call are the only ones of that call.
LEMMA AloneInCall ==
  ASSUME SayInv, NEW s \in Sayings, IsAlone(s), NEW t \in Sayings, IsAsked(t), t.call = s.call
  PROVE  t = s
<1>1. role[t.bot][t.call] # "none"
  BY DEF SayInv, AskedOnce
<1>2. t.bot = s.bot
  BY <1>1, SayingIsPair DEF IsAlone
<1> QED
  BY <1>2, SayingIsPair

\* A step that does not touch the file, the stream and the sender of some words
\* leaves them whole.
LEMMA WholeKept ==
  ASSUME NEW s \in Sayings, Whole(s), IsAlone(s)' => IsAlone(s), spoiled \subseteq spoiled',
         saying'[s] = saying[s], sender'[s] = sender[s], output'[s] = output[s],
         content'[s] = content[s],
         saying[s] \in {"saving", "saved"} => file'[s.call] = file[s.call]
  PROVE  Whole(s)'
BY DEF Whole, Holds, SendsAll, IsPlayed

\* A bot that has a part in a call keeps one.
LEMMA RolesStay ==
  ASSUME TypeOKB, NextB, NEW s \in Sayings, IsAlone(s)'
  PROVE  IsAlone(s)
<1>1. \/ UNCHANGED role
      \/ \E b \in Bots, c \in Calls : role' = [role EXCEPT ![b][c] = "in"]
  <2>1. ASSUME NEW b \in Bots, NEW c \in Calls, FarEndStep(b, c)
        PROVE  UNCHANGED role \/ role' = [role EXCEPT ![b][c] = "in"]
    BY <2>1 DEF FarEndStep, IncomingCall, RemoteHangup
  <2>2. ASSUME NEW b \in Bots, NEW c \in Calls, ScriptHandlerStep(b, c)
        PROVE  UNCHANGED role
    BY <2>2 DEF ScriptHandlerStep, AnswerHangupIncomingCall, SimpleAnswererIncomingCall,
                DefaultIncomingCall, HeavyOneRemoteHangup, DefaultRemoteHangup,
                IncomingCallReturns, RemoteHangupReturns
  <2>3. ASSUME NEW b \in Bots, NEW c \in Calls, TimerStep(b, c)
        PROVE  UNCHANGED role
    BY <2>3 DEF TimerStep, FireBusy, FireAnswer, Answer, FireSimpleAnswer, FireTerminate,
                FireCallBack, vars
  <2>4. ASSUME NEW b \in Bots, PoolStep(b)
        PROVE  UNCHANGED role
    BY <2>4 DEF PoolStep, RequestTaskStep, RunAccept, RunTerminate, RunBusy
  <2> QED
    BY <2>1, <2>2, <2>3, <2>4 DEF NextB
<1>2. role \in [Bots -> [Calls -> Role]] /\ s.call \in Calls
  BY SayingIsPair DEF TypeOKB, TypeOK
<1>3. \A b \in Bots : role'[b][s.call] = "none" => role[b][s.call] = "none"
  BY <1>1, <1>2
<1> QED
  BY <1>3 DEF IsAlone

\* The scripts and the calls touch no file; words they ask for have none yet.
LEMMA CallStepWhole ==
  ASSUME WholeInv, CallStep
  PROVE  StreamInv' /\ \A s \in Sayings : Whole(s)'
<1>1. /\ NextB /\ Says /\ TypeOKS /\ TypeOKB /\ AskedOnce
      /\ UNCHANGED <<file, content, output, sender, spoiled>>
  BY DEF WholeInv, SayInv, TypeOKS, CallStep, Says
<1>2. \A s \in Sayings : \/ saying'[s] = saying[s]
                         \/ saying'[s] = "scheduled" /\ saying[s] = "none"
  BY <1>1 DEF Says, SayWords, AskedOnce, IsAnswering, IsAsked
<1>3. StreamInv'
  BY <1>1, <1>2 DEF WholeInv, StreamInv
<1>4. ASSUME NEW s \in Sayings
      PROVE  Whole(s)'
  <2>1. Whole(s) /\ (IsAlone(s)' => IsAlone(s))
    BY <1>1, RolesStay DEF WholeInv
  <2>2. CASE saying'[s] = saying[s]
    BY <1>1, <2>1, <2>2, WholeKept
  <2>3. CASE saying'[s] = "scheduled" /\ saying[s] = "none"
    BY <1>1, <2>1, <2>3 DEF Whole, SendsAll, IsPlayed
  <2> QED
    BY <1>2, <2>2, <2>3
<1> QED
  BY <1>3, <1>4

\* Buffers written one after the other.
LEMMA WrittenNext ==
  ASSUME NEW chunks \in Seq(File), NEW k \in Nat, NEW x \in File,
         Len(chunks) = k, \A i \in 1..k : chunks[i] = x
  PROVE  /\ Len(WrittenAt(chunks, k + 1, x)) = k + 1
         /\ \A i \in 1..(k + 1) : WrittenAt(chunks, k + 1, x)[i] = x
<1>1. WrittenAt(chunks, k + 1, x) =
        [i \in 1..(k + 1) |-> IF i = k + 1 THEN x ELSE IF i <= k THEN chunks[i] ELSE Nothing]
  BY DEF WrittenAt
<1>2. WrittenAt(chunks, k + 1, x) \in Seq(File)
  BY WrittenType
<1>3. DOMAIN WrittenAt(chunks, k + 1, x) = 1..(k + 1)
  BY <1>1
<1>4. Len(WrittenAt(chunks, k + 1, x)) = k + 1
  BY <1>2, <1>3, LenProperties
<1> QED
  BY <1>1, <1>4

\* Words that go on without a file, a stream or a sender of theirs being touched.
LEMMA OnwardsWhole ==
  ASSUME WholeInv, SayInv', NEW s \in Sayings,
         Generate(s) \/ GenerateFails(s) \/ SaveFails(s) \/ RequestIsGone(s)
  PROVE  StreamInv' /\ \A t \in Sayings : Whole(t)'
<1>1. /\ UNCHANGED <<bvars, file, content, output, sender>>
      /\ spoiled' \in {spoiled, spoiled \cup {s}}
  BY DEF Generate, GenerateFails, SaveFails, RequestIsGone
<1>2. /\ saying[s] \in {"scheduled", "generated", "saving", "saved"}
      /\ saying'[s] \in {"generated", "failed", "saved"}
      /\ saying'[s] = "saved" => s \in spoiled'
      /\ \A t \in Sayings : t # s => saying'[t] = saying[t]
  BY GoesTo DEF WholeInv, SayInv, Generate, GenerateFails, SaveFails, RequestIsGone, Goes, SayingState,
                TypeOKS
<1>3. \A t \in Sayings : IsAlone(t)' => IsAlone(t)
  BY <1>1 DEF bvars, vars, IsAlone
<1>4. StreamInv'
  BY <1>1, <1>2 DEF WholeInv, StreamInv
<1>5. ASSUME NEW t \in Sayings
      PROVE  Whole(t)'
  <2>1. CASE t = s
    BY <1>1, <1>2, <1>3, <2>1 DEF WholeInv, Whole, IsPlayed, SendsAll
  <2>2. CASE t # s
    BY <1>1, <1>2, <1>3, <2>2, WholeKept DEF WholeInv
  <2> QED
    BY <2>1, <2>2
<1> QED
  BY <1>4, <1>5

\* The file of a bot that is alone in its call does not exist when it is opened.
LEMMA OpenFileWhole ==
  ASSUME WholeInv, NEW s \in Sayings, OpenFile(s)
  PROVE  StreamInv' /\ \A t \in Sayings : Whole(t)'
<1> DEFINE n == s.call
           f == IF file[n] = Nothing THEN s ELSE file[n]
<1>1. SayInv /\ TypeOKS /\ n \in Calls
  BY SayingIsPair DEF WholeInv, SayInv
<1>2. /\ file' = [file EXCEPT ![n] = f] /\ content' = [content EXCEPT ![f] = <<>>]
      /\ output' = [output EXCEPT ![s].file = f]
      /\ Goes(s, "generated", "saving") /\ UNCHANGED <<bvars, sender, session, spoiled>>
  BY DEF OpenFile, FileName
<1>3. /\ saying[s] = "generated" /\ saying'[s] = "saving"
      /\ \A t \in Sayings : t # s => saying'[t] = saying[t]
  BY <1>1, <1>2, GoesTo DEF SayingState
<1>4. file[n] # Nothing =>
        /\ file[n] \in Sayings /\ file[n].call = n
        /\ saying[file[n]] \in {"saving", "saved", "played", "failed"}
  BY <1>1 DEF TypeOKS, File, SayInv, FileInv, FileIsDeleted
<1>5. f \in Sayings /\ f.call = n /\ saying'[f] \notin {"none", "scheduled", "generated"} /\ saying[f] # "none"
  BY <1>3, <1>4
<1>6. IsAlone(s) => file[n] = Nothing
  BY <1>1, <1>3, <1>4, AloneInCall DEF IsAsked
<1>7. \A t \in Sayings : IsAlone(t) /\ t.call = n => t = s
  BY <1>1, <1>3, AloneInCall DEF IsAsked
<1> HIDE DEF f
<1>8. /\ output'[s].file = f /\ output'[s].written = output[s].written
      /\ \A t \in Sayings : t # s => output'[t] = output[t]
  BY <1>1, <1>2 DEF TypeOKS
<1>9. StreamInv'
  <2>1. f # Nothing
    BY <1>5, NothingAssumption
  <2> QED
    BY <1>3, <1>5, <1>8, <2>1 DEF WholeInv, StreamInv
<1>10. \A t \in Sayings : IsAlone(t)' => IsAlone(t)
  BY <1>2 DEF bvars, vars, IsAlone
<1>11. \A t \in Sayings : t # f => content'[t] = content[t]
  BY <1>1, <1>2 DEF TypeOKS
<1>12. content'[f] = <<>>
  BY <1>1, <1>2, <1>5 DEF TypeOKS
<1>13. ASSUME NEW t \in Sayings
       PROVE  Whole(t)'
  <2>1. t.call \in Calls
    BY SayingIsPair
  <2>2. CASE t = s
    <3>1. ASSUME IsAlone(s)
          PROVE  f = s /\ file'[n] = s /\ content'[s] = <<>> /\ output'[s].written = 0 /\ output'[s].file = s
      BY <1>1, <1>2, <1>3, <1>6, <1>8, <1>12, <3>1 DEF TypeOKS, SayInv, OutputInv, f
    <3>2. ASSUME IsAlone(s), s \notin spoiled'
          PROVE  ~IsPlayed(s)' /\ sender'[s].sent = <<>>
      BY <1>2, <1>3, <3>2 DEF WholeInv, Whole, IsPlayed, SendsAll
    <3>3. Len(<<>>) = 0 /\ 1..0 = {}
      BY EmptySeq
    <3>4. IsAlone(s)' /\ s \notin spoiled' => Holds(s, output[s].written)'
      BY <1>10, <3>1, <3>3 DEF Holds
    <3> QED
      BY <1>3, <1>10, <2>2, <3>1, <3>2, <3>4 DEF Whole
  <2>3. CASE t # s /\ t.call = n
    BY <1>7, <1>10, <2>3 DEF Whole
  <2>4. CASE t.call # n
    <3>1. t # f /\ t # s /\ file'[t.call] = file[t.call]
      BY <1>1, <1>2, <1>5, <2>1, <2>4 DEF TypeOKS
    <3> QED
      BY <1>2, <1>3, <1>8, <1>10, <1>11, <3>1, WholeKept DEF WholeInv
  <2> QED
    BY <2>2, <2>3, <2>4
<1> QED
  BY <1>9, <1>13

\* A stream fills its file, and closes it when all the words are in it.
LEMMA WriteChunkWhole ==
  ASSUME WholeInv, NEW s \in Sayings, WriteChunk(s)
  PROVE  StreamInv' /\ \A t \in Sayings : Whole(t)'
<1> DEFINE k == output[s].written
           to == IF k + 1 = Chunks THEN "saved" ELSE "saving"
           f == output[s].file
<1>1. SayInv /\ TypeOKS
  BY DEF WholeInv, SayInv
<1>2. /\ Goes(s, "saving", to)
      /\ content' = [content EXCEPT ![f] = WrittenAt(@, k + 1, s)]
      /\ output' = [output EXCEPT ![s].written = k + 1]
      /\ UNCHANGED <<bvars, file, sender, session, spoiled>>
  BY DEF WriteChunk
<1>3. /\ saying[s] = "saving" /\ saying'[s] = to
      /\ \A t \in Sayings : t # s => saying'[t] = saying[t]
  BY <1>1, <1>2, GoesTo DEF SayingState
<1>4. f \in Sayings /\ f.call = s.call /\ k \in Nat
  BY <1>1, <1>3, ChunksAssumption DEF WholeInv, StreamInv, TypeOKS, File
<1> HIDE DEF f, k
<1>5. /\ output'[s].file = output[s].file /\ output'[s].written = k + 1
      /\ \A t \in Sayings : t # s => output'[t] = output[t]
  BY <1>1, <1>2 DEF TypeOKS
<1>6. StreamInv'
  BY <1>3, <1>5 DEF WholeInv, StreamInv
<1>7. \A t \in Sayings : IsAlone(t)' => IsAlone(t)
  BY <1>2 DEF bvars, vars, IsAlone
<1>8. \A t \in Sayings : t # f => content'[t] = content[t]
  BY <1>1, <1>2 DEF TypeOKS
<1>9. ASSUME NEW t \in Sayings
      PROVE  Whole(t)'
  <2>1. CASE t = s
    <3>1. ASSUME IsAlone(s), s \notin spoiled
          PROVE  /\ file'[s.call] = s /\ output'[s].file = s
                 /\ Len(content'[s]) = k + 1 /\ \A i \in 1..(k + 1) : content'[s][i] = s
                 /\ ~IsPlayed(s)' /\ sender'[s].sent = <<>>
      <4>1. /\ file[s.call] = s /\ f = s /\ Len(content[s]) = k
            /\ \A i \in 1..k : content[s][i] = s
            /\ ~IsPlayed(s) /\ sender[s].sent = <<>>
        BY <1>3, <3>1 DEF WholeInv, Whole, Holds, SendsAll, f, k
      <4>2. content[s] \in Seq(File) /\ s \in File
        BY <1>1 DEF TypeOKS, File
      <4>3. content'[s] = WrittenAt(content[s], k + 1, s)
        BY <1>1, <1>2, <4>1 DEF TypeOKS
      <4>4. /\ Len(content'[s]) = k + 1
            /\ \A i \in 1..(k + 1) : content'[s][i] = s
        <5> DEFINE chunks == content[s]
        <5>1. chunks \in Seq(File) /\ Len(chunks) = k /\ \A i \in 1..k : chunks[i] = s
          BY <4>1, <4>2
        <5> HIDE DEF chunks
        <5>2. /\ Len(WrittenAt(chunks, k + 1, s)) = k + 1
              /\ \A i \in 1..(k + 1) : WrittenAt(chunks, k + 1, s)[i] = s
          BY <1>4, <4>2, <5>1, WrittenNext
        <5> QED
          BY <4>3, <5>2 DEF chunks
      <4> QED
        BY <1>2, <1>5, <4>1, <4>4 DEF f, IsPlayed
    <3>2. spoiled' = spoiled
      BY <1>2
    <3>3. IsAlone(s)' /\ s \notin spoiled'
            => Holds(s, output[s].written)' /\ (k + 1 = Chunks => Holds(s, Chunks)')
      BY <1>5, <1>7, <3>1, <3>2 DEF Holds
    <3> QED
      BY <1>3, <1>5, <1>7, <2>1, <3>1, <3>2, <3>3 DEF Whole
  <2>2. CASE t # s /\ t = f
    <3>1. ~IsAlone(t)
      BY <1>1, <1>3, <1>4, <2>2, AloneInCall DEF IsAsked
    <3> QED
      BY <1>7, <3>1 DEF Whole
  <2>3. CASE t # s /\ t # f
    BY <1>2, <1>3, <1>5, <1>7, <1>8, <2>3, WholeKept DEF WholeInv
  <2> QED
    BY <2>1, <2>2, <2>3
<1> QED
  BY <1>6, <1>9

\* A sender is given a whole file.
LEMMA PlayWhole ==
  ASSUME WholeInv, NEW s \in Sayings, PlayAudioFile(s)
  PROVE  StreamInv' /\ \A t \in Sayings : Whole(t)'
<1>1. SayInv /\ TypeOKS
  BY DEF WholeInv, SayInv
<1>2. /\ Goes(s, "saved", "played")
      /\ UNCHANGED <<bvars, file, content, output, session, spoiled>>
      /\ sender' = [sender EXCEPT ![s] = [at |-> "sending", session |-> session[s.bot],
                                          file |-> file[s.call], sent |-> <<>>]]
  BY DEF PlayAudioFile, FileName
<1>3. /\ saying[s] = "saved" /\ saying'[s] = "played"
      /\ \A t \in Sayings : t # s => saying'[t] = saying[t]
  BY <1>1, <1>2, GoesTo DEF SayingState
<1>4. /\ sender'[s].at = "sending" /\ sender'[s].file = file[s.call] /\ sender'[s].sent = <<>>
      /\ \A t \in Sayings : t # s => sender'[t] = sender[t]
  BY <1>1, <1>2 DEF TypeOKS
<1>5. \A t \in Sayings : IsAlone(t)' => IsAlone(t)
  BY <1>2 DEF bvars, vars, IsAlone
<1>6. StreamInv'
  BY <1>2, <1>3 DEF WholeInv, StreamInv
<1>7. ASSUME NEW t \in Sayings
      PROVE  Whole(t)'
  <2>1. CASE t = s
    <3>1. Len(<<>>) = 0 /\ 1..0 = {}
      BY EmptySeq
    <3>2. IsAlone(s) /\ s \notin spoiled => file[s.call] = s /\ Holds(s, Chunks)
      BY <1>3 DEF WholeInv, Whole
    <3>3. IsAlone(s)' /\ s \notin spoiled' => SendsAll(s)'
      BY <1>2, <1>3, <1>4, <1>5, <3>1, <3>2, ChunksAssumption DEF SendsAll, Holds
    <3>4. IsPlayed(s)'
      BY <1>4 DEF IsPlayed
    <3> QED
      BY <1>3, <2>1, <3>3, <3>4 DEF Whole
  <2>2. CASE t # s
    BY <1>2, <1>3, <1>4, <1>5, <2>2, WholeKept DEF WholeInv
  <2> QED
    BY <2>1, <2>2
<1> QED
  BY <1>6, <1>7

\* The file that is deleted is the one of words that were played.
LEMMA DeleteWhole ==
  ASSUME WholeInv, NEW s \in Sayings, DeleteFile(s)
  PROVE  StreamInv' /\ \A t \in Sayings : Whole(t)'
<1>1. SayInv /\ TypeOKS
  BY DEF WholeInv, SayInv
<1>2. /\ Goes(s, "played", "over") /\ file' = [file EXCEPT ![s.call] = Nothing]
      /\ UNCHANGED <<bvars, content, output, sender, session, spoiled>>
  BY DEF DeleteFile, FileName
<1>3. /\ saying[s] = "played" /\ saying'[s] = "over"
      /\ \A t \in Sayings : t # s => saying'[t] = saying[t]
  BY <1>1, <1>2, GoesTo DEF SayingState
<1>4. \A t \in Sayings : IsAlone(t)' => IsAlone(t)
  BY <1>2 DEF bvars, vars, IsAlone
<1>5. StreamInv'
  BY <1>2, <1>3 DEF WholeInv, StreamInv
<1>6. ASSUME NEW t \in Sayings
      PROVE  Whole(t)'
  <2>1. CASE t = s
    BY <1>2, <1>3, <1>4, <2>1 DEF WholeInv, Whole, IsPlayed, SendsAll, Holds
  <2>2. CASE t # s /\ t.call = s.call
    <3>1. ~IsAlone(t)
      BY <1>1, <1>3, <2>2, AloneInCall DEF IsAsked
    <3> QED
      BY <1>4, <3>1 DEF Whole
  <2>3. CASE t.call # s.call
    <3>1. t # s /\ file'[t.call] = file[t.call]
      BY <1>1, <1>2, <2>3, SayingIsPair DEF TypeOKS
    <3> QED
      BY <1>2, <1>3, <1>4, <3>1, WholeKept DEF WholeInv
  <2> QED
    BY <2>1, <2>2, <2>3
<1> QED
  BY <1>5, <1>6

\* A sender sends the file it was given up to its end.
LEMMA SendChunkWhole ==
  ASSUME WholeInv, NEW s \in Sayings, SendChunk(s)
  PROVE  StreamInv' /\ \A t \in Sayings : Whole(t)'
<1> DEFINE r == sender[s]
           chunks == IF r.file = Nothing THEN <<>> ELSE content[r.file]
           k == Len(r.sent) + 1
<1>1. SayInv /\ TypeOKS
  BY DEF WholeInv, SayInv
<1>2. /\ UNCHANGED <<bvars, saying, file, content, output, session, spoiled>>
      /\ r.at = "sending"
      /\ sender' = [sender EXCEPT ![s] = IF k <= Len(chunks)
                                         THEN [r EXCEPT !.sent = Append(@, chunks[k])]
                                         ELSE [r EXCEPT !.at = "done"]]
  BY DEF SendChunk
<1>3. r \in Sender /\ r.sent \in Seq(File) /\ Len(r.sent) \in Nat
  BY <1>1, LenProperties DEF TypeOKS, Sender
<1>4. \A t \in Sayings : t # s => sender'[t] = sender[t]
  BY <1>1, <1>2 DEF TypeOKS
<1>5. \A t \in Sayings : IsAlone(t)' => IsAlone(t)
  BY <1>2 DEF bvars, vars, IsAlone
<1>6. ASSUME IsAlone(s), s \notin spoiled
      PROVE  SendsAll(s)'
  <2>1. /\ saying[s] \in {"played", "over"} /\ r.file = s /\ Holds(s, Chunks)
        /\ Len(r.sent) <= Chunks /\ \A i \in 1..Len(r.sent) : r.sent[i] = s
    BY <1>2, <1>6 DEF WholeInv, Whole, IsPlayed, SendsAll
  <2>2. chunks = content[s] /\ Len(chunks) = Chunks /\ \A i \in 1..Chunks : chunks[i] = s
    BY <2>1, NothingAssumption DEF Holds
  <2> HIDE DEF chunks
  <2>3. CASE k <= Chunks
    <3>1. chunks[k] = s
      BY <1>3, <2>2, <2>3, ChunksAssumption
    <3>2. sender'[s] = [r EXCEPT !.sent = Append(r.sent, s)]
      BY <1>1, <1>2, <2>2, <2>3, <3>1 DEF TypeOKS
    <3>3. /\ Len(Append(r.sent, s)) = k
          /\ \A i \in 1..k : Append(r.sent, s)[i] = s
      BY <1>3, <2>1, AppendProperties DEF File
    <3>4. sender'[s].sent = Append(r.sent, s) /\ sender'[s].file = s /\ sender'[s].at = "sending"
      BY <1>2, <1>3, <2>1, <3>2 DEF Sender
    <3> QED
      BY <1>2, <2>1, <2>3, <3>3, <3>4 DEF SendsAll, Holds
  <2>4. CASE ~(k <= Chunks)
    <3>1. sender'[s] = [r EXCEPT !.at = "done"]
      BY <1>1, <1>2, <2>2, <2>4 DEF TypeOKS
    <3>2. sender'[s].sent = r.sent /\ sender'[s].file = s /\ Len(r.sent) = Chunks
      BY <1>3, <2>1, <2>4, <3>1, ChunksAssumption DEF Sender
    <3> QED
      BY <1>2, <2>1, <3>2 DEF SendsAll, Holds
  <2> QED
    BY <2>3, <2>4
<1>7. ASSUME NEW t \in Sayings
      PROVE  Whole(t)'
  <2>1. CASE t = s
    BY <1>2, <1>5, <1>6, <2>1 DEF WholeInv, Whole, Holds, IsPlayed, SendsAll
  <2>2. CASE t # s
    BY <1>2, <1>4, <1>5, <2>2, WholeKept DEF WholeInv
  <2> QED
    BY <2>1, <2>2
<1> QED
  BY <1>2, <1>7 DEF WholeInv, StreamInv

LEMMA WholeInit == InitS => WholeInv
<1> SUFFICES ASSUME InitS PROVE WholeInv
  OBVIOUS
<1>1. StreamInv /\ \A s \in Sayings : Whole(s)
  BY DEF InitS, StreamInv, Whole, IsPlayed
<1> QED
  BY <1>1, SayInit DEF WholeInv

LEMMA WholeNext == WholeInv /\ [NextS]_svars => WholeInv'
<1> SUFFICES ASSUME WholeInv, [NextS]_svars PROVE WholeInv'
  OBVIOUS
<1>1. SayInv'
  BY SayNext DEF WholeInv
<1>2. CASE UNCHANGED svars
  BY <1>1, <1>2 DEF WholeInv, StreamInv, Whole, Holds, SendsAll, IsPlayed, IsAlone, svars, bvars,
                    vars, speechVars
<1>3. CASE CallStep
  BY <1>1, <1>3, CallStepWhole DEF WholeInv
<1>4. ASSUME NEW s \in Sayings, SpeechStep(s)
      PROVE  WholeInv'
  BY <1>1, <1>4, OnwardsWhole, OpenFileWhole, WriteChunkWhole, PlayWhole, DeleteWhole,
     SendChunkWhole DEF SpeechStep, WholeInv
<1> QED
  BY <1>2, <1>3, <1>4 DEF NextS

\* A bot that is alone in its call, and whose stream did not fail, sends all it
\* was asked to say and nothing else, whatever the other bots say in their calls:
\* sendAudioFile is given a whole file, and neither its deletion nor the files
\* of other calls reach the sender.
THEOREM WordsSaidAsAsked == SpecS => []SaidAsAsked
<1>1. WholeInv => SaidAsAsked
  <2> SUFFICES ASSUME WholeInv, NEW s \in Sayings, IsAlone(s), s \notin spoiled
               PROVE  LET sent == sender[s].sent
                      IN /\ \A i \in 1..Len(sent) : sent[i] = s
                         /\ sender[s].at = "done" => Len(sent) = Chunks
    BY DEF SaidAsAsked
  <2>1. CASE IsPlayed(s)
    BY <2>1 DEF WholeInv, Whole, SendsAll
  <2>2. CASE ~IsPlayed(s)
    BY <2>2, EmptySeq DEF WholeInv, Whole, IsPlayed
  <2> QED
    BY <2>1, <2>2
<1> QED
  BY <1>1, WholeInit, WholeNext, PTL DEF SpecS

-----------------------------------------------------------------------------
(* The session the words are sent on *)

\* A bot that received a call of its own is alone in it.
AloneInv ==
  \A b \in Bots, c \in Calls : role[b][c] # "none" => role[b][c] = "in" /\ Alone(b, c)

\* The session of an answerHangup bot is the one of its conversation, and none when
\* there is none.
SessionInv ==
  \A b \in Bots :
    behaviour[b] = "answerHangup" /\ AnsweredSeeing(b)
      => \A c \in Calls : session[b] = c <=> InConversation(b, c)

TaskOf(op, s, r) == [op |-> op, bot |-> s.bot, call |-> s.call, request |-> r]

Dialog(s) == dialog[s.bot][s.call]

\* Words are asked for by answerHangup; until the call is answered, or over, the
\* answer is in the pool.
Heard(s) ==
  IsAsked(s) => /\ behaviour[s.bot] = "answerHangup"
                /\ Dialog(s) = "early" => Runs(TaskOf("accept", s, s.bot))

HeardInv ==
  /\ SayInv /\ EngagedInv /\ StoreInv /\ AloneInv /\ SessionInv
  /\ \A s \in Sayings : Heard(s)

\* What a script asks for is one task more, of its own bot and call.
LEMMA AskAddsOne ==
  ASSUME TypeOK, NEW op \in {"accept", "terminate", "busy"}, NEW b \in Bots, NEW c \in Calls,
         UNCHANGED executor \/ Ask(op, b, c)
  PROVE  \A u \in Task : /\ Runs(u) => Runs(u)'
                         /\ Runs(u)' => Runs(u) \/ (u.op = op /\ u.bot = b /\ u.call = c)
<1>1. \A u \in Task : Runs(u)' => Runs(u) \/ (u.op = op /\ u.bot = b /\ u.call = c)
  BY AskType DEF Runs
<1>2. \A u \in Task : Runs(u) => Runs(u)'
  <2>1. CASE UNCHANGED executor
    BY <2>1 DEF Runs
  <2>2. CASE Ask(op, b, c) /\ ~UNCHANGED executor
    <3> DEFINE t == [op |-> op, bot |-> b, call |-> c, request |-> GetSipRequest(c)]
    <3>1. Submit(t)
      BY <2>2 DEF Ask
    <3> HIDE DEF t
    <3> QED
      BY <3>1 DEF Submit, Runs, TypeOK
  <2> QED
    BY <2>1, <2>2
<1> QED
  BY <1>1, <1>2

\* The tasks of some words are tasks of their bot and their call.
LEMMA TaskOfType ==
  ASSUME NEW s \in Sayings, NEW op \in {"accept", "terminate", "busy"}, NEW r \in Bots
  PROVE  /\ TaskOf(op, s, r) \in Task /\ TaskOf(op, s, r).op = op
         /\ TaskOf(op, s, r).bot = s.bot /\ TaskOf(op, s, r).call = s.call
BY SayingIsPair, RequestTaskType DEF TaskOf

\* The answer that goes with some words is submitted: the request of a call that
\* is live is in the store.
LEMMA AnswerIsSubmitted ==
  ASSUME HeardInv, NEW s \in Sayings, Ask("accept", s.bot, s.call), Dialog(s) = "early"
  PROVE  Runs(TaskOf("accept", s, s.bot))'
<1> DEFINE b == s.bot
           c == s.call
<1>1. /\ role[b][c] # "none" /\ dialog[b][c] = "early" /\ LiveCallIsStored
      /\ executor \in [Task -> Nat]
  BY SayingIsPair DEF HeardInv, StoreInv, DialogIsReal, Dialog, TypeOK
<1>2. role[b][c] = "in" /\ Alone(b, c)
  BY <1>1, SayingIsPair DEF HeardInv, AloneInv
<1>3. GetSipRequest(c) = b
  BY <1>1, <1>2, SayingIsPair DEF LiveCallIsStored
<1>4. Submit(TaskOf("accept", s, b))
  BY <1>3, NoRequestAssumption, SayingIsPair DEF Ask, TaskOf
<1>5. TaskOf("accept", s, b) \in Task
  BY TaskOfType, SayingIsPair
<1> QED
  BY <1>1, <1>4, <1>5 DEF Submit, Runs

\* A step that asks for no words keeps what is heard of them, if it neither makes
\* a call the bot had a part in ring, nor takes its answer out of the pool while
\* it rings.
LEMMA HeardKept ==
  ASSUME NEW s \in Sayings, Heard(s), saying'[s] = saying[s],
         IsAsked(s) /\ Dialog(s)' = "early"
           => /\ Dialog(s) = "early"
              /\ Runs(TaskOf("accept", s, s.bot)) => Runs(TaskOf("accept", s, s.bot))'
  PROVE  Heard(s)'
BY DEF Heard, IsAsked

\* A call that comes is new to the bot.
LEMMA FarEndHeard ==
  ASSUME HeardInv, NEW b \in Bots, NEW c \in Calls, FarEndStep(b, c), UNCHANGED saying,
         NEW s \in Sayings
  PROVE  Heard(s)'
<1>1. /\ Heard(s) /\ dialog \in [Bots -> [Calls -> DialogState]] /\ s.bot \in Bots /\ s.call \in Calls
      /\ IsAsked(s) => role[s.bot][s.call] # "none"
  BY SayingIsPair DEF HeardInv, SayInv, TypeOKS, TypeOKB, TypeOK, AskedOnce
<1>2. UNCHANGED executor
  BY DEF FarEndStep, IncomingCall, RemoteHangup
<1>3. IsAsked(s) /\ Dialog(s)' = "early" => Dialog(s) = "early"
  <2>1. CASE IncomingCall(b, c)
    BY <1>1, <2>1 DEF IncomingCall, SetDialog, Dialog
  <2>2. CASE RemoteHangup(b, c)
    BY <1>1, <2>2 DEF RemoteHangup, SetDialog, Dialog
  <2> QED
    BY <2>1, <2>2 DEF FarEndStep
<1> QED
  BY <1>1, <1>2, <1>3, HeardKept DEF Runs

\* The answer leaves the pool when the call is answered, or was over.
LEMMA PoolHeard ==
  ASSUME HeardInv, NEW b \in Bots, PoolStep(b), UNCHANGED saying, NEW s \in Sayings
  PROVE  Heard(s)'
<1>1. /\ Heard(s) /\ dialog \in [Bots -> [Calls -> DialogState]] /\ executor \in [Task -> Nat]
      /\ s.bot \in Bots /\ s.call \in Calls
  BY SayingIsPair DEF HeardInv, SayInv, TypeOKS, TypeOKB, TypeOK
<1> PICK c \in Calls, r \in Bots : RunAccept(b, c, r) \/ RunTerminate(b, c, r) \/ RunBusy(b, c, r)
  BY DEF PoolStep, RequestTaskStep
<1>2. Dialog(s)' = "early" => Dialog(s) = "early"
  BY <1>1 DEF RunAccept, RunTerminate, RunBusy, SetDialog, Dialog
<1>3. ASSUME Dialog(s)' = "early", Runs(TaskOf("accept", s, s.bot))
      PROVE  Runs(TaskOf("accept", s, s.bot))'
  <2>1. PICK op \in {"accept", "terminate", "busy"} :
          /\ Finish([op |-> op, bot |-> b, call |-> c, request |-> r])
          /\ op = "accept" => RunAccept(b, c, r)
    BY DEF RunAccept, RunTerminate, RunBusy
  <2> DEFINE t == [op |-> op, bot |-> b, call |-> c, request |-> r]
  <2>2. TaskOf("accept", s, s.bot) # t
    <3> SUFFICES ASSUME TaskOf("accept", s, s.bot) = t PROVE FALSE
      OBVIOUS
    <3>1. op = "accept" /\ s.bot = b /\ s.call = c /\ r = b
      BY DEF TaskOf
    <3>2. RunAccept(b, c, b) /\ dialog[b][c] = "early"
      BY <1>2, <1>3, <2>1, <3>1 DEF Dialog
    <3> QED
      BY <1>1, <1>3, <3>1, <3>2 DEF RunAccept, SetDialog, Dialog
  <2>3. TaskOf("accept", s, s.bot) \in Task
    BY <1>1, TaskOfType
  <2> HIDE DEF t
  <2> QED
    BY <1>1, <1>3, <2>1, <2>2, <2>3 DEF Finish, Runs, t
<1> QED
  BY <1>1, <1>2, <1>3, HeardKept

\* The scripts ask for more of the pool, and change no dialog.
LEMMA ScriptHeard ==
  ASSUME HeardInv, NEW b \in Bots, NEW c \in Calls, ScriptHandlerStep(b, c) \/ TimerStep(b, c),
         NEW s \in Sayings, saying'[s] = saying[s]
  PROVE  Heard(s)'
<1>1. Heard(s) /\ s.bot \in Bots /\ TypeOK
  BY SayingIsPair DEF HeardInv, SayInv, TypeOKS, TypeOKB
<1>2. UNCHANGED dialog /\ \E op \in {"accept", "terminate", "busy"} : UNCHANGED executor \/ Ask(op, b, c)
  <2>1. CASE ScriptHandlerStep(b, c)
    BY <2>1 DEF ScriptHandlerStep, AnswerHangupIncomingCall, SimpleAnswererIncomingCall,
                DefaultIncomingCall, HeavyOneRemoteHangup, DefaultRemoteHangup,
                IncomingCallReturns, RemoteHangupReturns
  <2>2. CASE TimerStep(b, c)
    BY <2>2 DEF TimerStep, FireBusy, FireAnswer, Answer, FireSimpleAnswer, FireTerminate,
                FireCallBack, vars
  <2> QED
    BY <2>1, <2>2
<1>3. \A u \in Task : Runs(u) => Runs(u)'
  BY <1>1, <1>2, AskAddsOne
<1> QED
  BY <1>1, <1>2, <1>3, TaskOfType, HeardKept DEF Dialog

\* Words are asked for with the answer.
LEMMA AskingHeard ==
  ASSUME HeardInv, NEW b \in Bots, NEW c \in Calls, TimerStep(b, c), NEW s \in Sayings, SayWords(s)
  PROVE  Heard(s)'
<1>1. LoopInv /\ s.bot \in Bots /\ s.call \in Calls
  BY SayingIsPair DEF HeardInv, EngagedInv
<1>2. loop = At("answer", s.bot, s.call) /\ loop' = Idle /\ loop # Idle
  BY <1>1, TimerType, IdleLoopAssumption DEF SayWords
<1>3. behaviour[s.bot] = "answerHangup"
  BY <1>1, <1>2 DEF LoopInv, At
<1>4. Answer(b, c)
  BY <1>2 DEF TimerStep, FireBusy, FireAnswer, FireSimpleAnswer, FireTerminate, FireCallBack,
              Fires, FiresAndSets, Due
<1>5. s.bot = b /\ s.call = c /\ Ask("accept", s.bot, s.call) /\ UNCHANGED dialog
  BY <1>2, <1>4 DEF Answer, At
<1> QED
  BY <1>3, <1>5, AnswerIsSubmitted DEF Heard, Dialog

\* A call that comes is new to all the bots.
LEMMA AloneNext ==
  ASSUME SharedCallIds = FALSE, TypeOKB, AloneInv, NextB
  PROVE  AloneInv'
<1>1. role \in [Bots -> [Calls -> Role]]
  BY DEF TypeOKB, TypeOK
<1>2. ASSUME NEW b \in Bots, NEW c \in Calls, IncomingCall(b, c), Fresh(c)
      PROVE  AloneInv'
  <2>1. /\ \A o \in Bots : role[o][c] = "none"
        /\ role' = [role EXCEPT ![b][c] = "in"]
    BY <1>2 DEF Fresh, IncomingCall
  <2>2. /\ role'[b][c] = "in"
        /\ \A o \in Bots, d \in Calls : o # b \/ d # c => role'[o][d] = role[o][d]
    BY <1>1, <2>1
  <2> QED
    BY <2>1, <2>2 DEF AloneInv, Alone
<1>3. CASE UNCHANGED role
  BY <1>3 DEF AloneInv, Alone
<1>4. ASSUME NEW b \in Bots, NEW c \in Calls, FarEndStep(b, c)
      PROVE  UNCHANGED role \/ (IncomingCall(b, c) /\ Fresh(c))
  BY <1>4 DEF FarEndStep, RemoteHangup
<1>5. ASSUME NEW b \in Bots, NEW c \in Calls, ScriptHandlerStep(b, c)
      PROVE  UNCHANGED role
  BY <1>5 DEF ScriptHandlerStep, AnswerHangupIncomingCall, SimpleAnswererIncomingCall,
              DefaultIncomingCall, HeavyOneRemoteHangup, DefaultRemoteHangup,
              IncomingCallReturns, RemoteHangupReturns
<1>6. ASSUME NEW b \in Bots, NEW c \in Calls, TimerStep(b, c)
      PROVE  UNCHANGED role
  BY <1>6 DEF TimerStep, FireBusy, FireAnswer, Answer, FireSimpleAnswer, FireTerminate,
              FireCallBack, vars
<1>7. ASSUME NEW b \in Bots, PoolStep(b)
      PROVE  UNCHANGED role
  BY <1>7 DEF PoolStep, RequestTaskStep, RunAccept, RunTerminate, RunBusy
<1> QED
  BY <1>2, <1>3, <1>4, <1>5, <1>6, <1>7 DEF NextB

\* The session follows the one conversation of the bot.
LEMMA SessionNext ==
  ASSUME SessionInv, OneConversation, OneConversation', blind \subseteq blind', MediaFollowDialogs
  PROVE  SessionInv'
<1> SUFFICES ASSUME NEW b \in Bots, behaviour[b] = "answerHangup", AnsweredSeeing(b)',
                    NEW c \in Calls
             PROVE  session'[b] = c <=> InConversation(b, c)'
  BY DEF SessionInv
<1> DEFINE starts == {d \in Calls : ~InConversation(b, d) /\ dialog'[b][d] = "confirmed"}
           stops == {d \in Calls : InConversation(b, d) /\ dialog'[b][d] # "confirmed"}
<1>1. session'[b] = IF starts # {} THEN CHOOSE d \in starts : TRUE
                    ELSE IF stops # {} THEN Nothing ELSE session[b]
  BY DEF MediaFollowDialogs
<1>2. AnsweredSeeing(b)
  BY DEF AnsweredSeeing
<1>3. /\ \A d, f \in Calls : InConversation(b, d) /\ InConversation(b, f) => d = f
      /\ \A d, f \in Calls : InConversation(b, d)' /\ InConversation(b, f)' => d = f
  BY <1>2 DEF OneConversation, AnsweredSeeing
<1>4. \A d \in Calls : session[b] = d <=> InConversation(b, d)
  BY <1>2 DEF SessionInv
<1>5. CASE starts # {}
  <2>1. PICK d \in starts : session'[b] = d
    BY <1>1, <1>5
  <2> QED
    BY <1>3, <2>1 DEF InConversation
<1>6. CASE starts = {} /\ stops # {}
  <2>1. PICK d \in stops : TRUE
    BY <1>6
  <2>2. ~InConversation(b, c)'
    BY <1>3, <1>6, <2>1 DEF InConversation
  <2> QED
    BY <1>1, <1>6, <2>2, NothingAssumption
<1>7. CASE starts = {} /\ stops = {}
  BY <1>1, <1>4, <1>7 DEF InConversation
<1> QED
  BY <1>5, <1>6, <1>7

\* A timer that was blind stays one that was.
LEMMA BlindGrows ==
  ASSUME NextB
  PROVE  blind \subseteq blind'
BY DEF NextB, PoolStep, FarEndStep, ScriptHandlerStep, AnswerHangupIncomingCall,
       SimpleAnswererIncomingCall, DefaultIncomingCall, HeavyOneRemoteHangup, DefaultRemoteHangup,
       TimerStep, FireBusy, FireAnswer, Answer, FireSimpleAnswer, FireTerminate, FireCallBack,
       Sees, history

\* A step of the scripts, the calls and the pool.
LEMMA CallStepHeard ==
  ASSUME SharedCallIds = FALSE, HeardInv, CallStep
  PROVE  HeardInv'
<1>1. /\ SayInv /\ TypeOKS /\ TypeOKB /\ NextB /\ Says /\ EngagedInv /\ StoreInv /\ MediaFollowDialogs
  BY DEF HeardInv, SayInv, TypeOKS, CallStep, Says
<1>2. SayInv'
  BY <1>1, CallStepInv DEF SayInv
<1>3. EngagedInv' /\ StoreInv'
  BY <1>1, EngagedNext, StoreNextB
<1>4. AloneInv'
  BY <1>1, AloneNext DEF HeardInv
<1>5. SessionInv'
  <2>1. OneConversation /\ OneConversation'
    BY <1>1, <1>3, EngagedOnce
       DEF EngagedInv, OneEngagement, OneConversation, Engaged
  <2> QED
    BY <1>1, <2>1, SessionNext, BlindGrows DEF HeardInv
<1>6. ASSUME NEW s \in Sayings
      PROVE  Heard(s)'
  <2>1. ASSUME NEW b \in Bots, NEW c \in Calls, FarEndStep(b, c)
        PROVE  Heard(s)'
    <3>1. saying' = saying
      BY <1>1, <2>1, SaysNothing DEF FarEndStep
    <3> QED
      BY <2>1, <3>1, FarEndHeard
  <2>2. ASSUME NEW b \in Bots, PoolStep(b)
        PROVE  Heard(s)'
    <3>1. saying' = saying
      BY <1>1, <2>2, SaysNothing DEF PoolStep
    <3> QED
      BY <2>2, <3>1, PoolHeard
  <2>3. ASSUME NEW b \in Bots, NEW c \in Calls, ScriptHandlerStep(b, c)
        PROVE  Heard(s)'
    <3>1. loop' = loop
      BY <2>3 DEF ScriptHandlerStep, AnswerHangupIncomingCall, SimpleAnswererIncomingCall,
                  DefaultIncomingCall, HeavyOneRemoteHangup, DefaultRemoteHangup
    <3>2. saying' = saying
      BY <1>1, <3>1, SaysNothing
    <3> QED
      BY <2>3, <3>2, ScriptHeard
  <2>4. ASSUME NEW b \in Bots, NEW c \in Calls, TimerStep(b, c)
        PROVE  Heard(s)'
    <3>1. CASE SayWords(s)
      BY <2>4, <3>1, AskingHeard
    <3>2. CASE ~SayWords(s)
      <4>1. saying'[s] = saying[s]
        BY <1>1, <3>2 DEF Says
      <4> QED
        BY <2>4, <4>1, ScriptHeard
    <3> QED
      BY <3>1, <3>2
  <2> QED
    BY <1>1, <2>1, <2>2, <2>3, <2>4 DEF NextB
<1> QED
  BY <1>2, <1>3, <1>4, <1>5, <1>6 DEF HeardInv

\* A step of the words themselves, or of nobody, asks for none and leaves the
\* calls alone.
LEMMA ElsewhereHeard ==
  ASSUME HeardInv, SayInv', UNCHANGED <<bvars, session>>,
         \A s \in Sayings : IsAsked(s)' = IsAsked(s)
  PROVE  HeardInv'
<1>1. EngagedInv' /\ StoreInv'
  BY EngagedNext, StoreNextB DEF HeardInv, EngagedInv
<1>2. AloneInv' /\ SessionInv' /\ \A s \in Sayings : Heard(s)'
  BY DEF HeardInv, AloneInv, Alone, SessionInv, AnsweredSeeing, InConversation, Heard, Dialog,
         Runs, bvars, vars, history
<1> QED
  BY <1>1, <1>2 DEF HeardInv

LEMMA HeardNext == SharedCallIds = FALSE /\ HeardInv /\ [NextS]_svars => HeardInv'
<1> SUFFICES ASSUME SharedCallIds = FALSE, HeardInv, [NextS]_svars PROVE HeardInv'
  OBVIOUS
<1>1. SayInv /\ SayInv' /\ TypeOKS
  BY SayNext DEF HeardInv, SayInv
<1>2. ASSUME NEW s \in Sayings, SpeechStep(s)
      PROVE  HeardInv'
  <2>1. UNCHANGED <<bvars, session>>
    BY <1>2 DEF SpeechStep, Generate, GenerateFails, OpenFile, WriteChunk, SaveFails, RequestIsGone,
                PlayAudioFile, DeleteFile, SendChunk
  <2>2. \/ UNCHANGED saying
        \/ \E from, to \in SayingState \ {"none"} : Goes(s, from, to)
    BY <1>2 DEF SpeechStep, Generate, GenerateFails, OpenFile, WriteChunk, SaveFails, RequestIsGone,
                PlayAudioFile, DeleteFile, SendChunk, SayingState
  <2>3. \A t \in Sayings : IsAsked(t)' = IsAsked(t)
    BY <1>1, <2>2 DEF Goes, IsAsked, TypeOKS
  <2> QED
    BY <1>1, <2>1, <2>3, ElsewhereHeard
<1>3. CASE UNCHANGED svars
  BY <1>1, <1>3, ElsewhereHeard DEF svars, speechVars, IsAsked
<1> QED
  BY <1>2, <1>3, CallStepHeard DEF NextS

LEMMA HeardInit == InitS => HeardInv
<1> SUFFICES ASSUME InitS PROVE HeardInv
  OBVIOUS
<1>1. SayInv /\ EngagedInv /\ StoreInv
  BY SayInit, EngagedInit, InitStore DEF InitS, InitB
<1>2. AloneInv /\ SessionInv
  BY NothingAssumption DEF InitS, InitB, Init, AloneInv, SessionInv, InConversation
<1>3. \A s \in Sayings : Heard(s)
  BY DEF InitS, Heard, IsAsked
<1> QED
  BY <1>1, <1>2, <1>3 DEF HeardInv

\* When their sender is made, the words of a bot whose answers saw one another find
\* its session: that of their call while it lasts, none while its answer is in the
\* pool, since that answer keeps the bot from any other call.
LEMMA PlayedWhereMeant ==
  ASSUME HeardInv, NEW s \in Sayings, PlayAudioFile(s), AnsweredSeeing(s.bot)
  PROVE  /\ Dialog(s) = "confirmed" => session[s.bot] = s.call
         /\ Dialog(s) = "early" => session[s.bot] = Nothing
<1>1. /\ s.bot \in Bots /\ s.call \in Calls /\ session[s.bot] \in Calls \cup {Nothing}
      /\ OneEngagement /\ SessionInv
  BY SayingIsPair DEF HeardInv, SayInv, TypeOKS, EngagedInv
<1>2. behaviour[s.bot] = "answerHangup"
      /\ (Dialog(s) = "early" => Runs(TaskOf("accept", s, s.bot)))
  BY DEF HeardInv, Heard, PlayAudioFile, Goes, IsAsked
<1>3. \A c \in Calls : session[s.bot] = c <=> InConversation(s.bot, c)
  BY <1>1, <1>2 DEF SessionInv
<1>4. Dialog(s) = "confirmed" => session[s.bot] = s.call
  BY <1>1, <1>3 DEF InConversation, Dialog
<1>5. ASSUME Dialog(s) = "early", session[s.bot] # Nothing
      PROVE  FALSE
  <2>1. PICK c \in Calls : InConversation(s.bot, c)
    BY <1>1, <1>3, <1>5
  <2>2. c # s.call
    BY <1>5, <2>1 DEF InConversation, Dialog
  <2>3. Engaged(s.bot, s.call) /\ Engaged(s.bot, c)
    BY <1>1, <1>2, <1>5, <2>1 DEF Engaged, AnswerPending, TaskOf
  <2> QED
    BY <1>1, <1>2, <2>2, <2>3 DEF OneEngagement, AnsweredSeeing
<1> QED
  BY <1>4, <1>5

\* Words are sent on the session of their own call while it lasts, and on none
\* before it is answered, when each call reaches one bot and the answers of the bot
\* saw one another: however slow the pool, the synthesis and the disk are, and
\* whenever either end hangs up.
THEOREM WordsSentInTheirCall == SharedCallIds = FALSE => (SpecS => SentInItsCall)
<1> SUFFICES ASSUME SharedCallIds = FALSE PROVE SpecS => SentInItsCall
  OBVIOUS
<1> DEFINE InCall ==
      \A s \in Sayings :
        StartsSending(s) /\ AnsweredSeeing(s.bot)
          => /\ dialog[s.bot][s.call] = "confirmed" => sender'[s].session = s.call
             /\ dialog[s.bot][s.call] = "early" => sender'[s].session = Nothing
<1>1. HeardInv /\ [NextS]_svars => [InCall]_svars
  <2> SUFFICES ASSUME HeardInv, NextS, NEW s \in Sayings, StartsSending(s), AnsweredSeeing(s.bot)
               PROVE  /\ dialog[s.bot][s.call] = "confirmed" => sender'[s].session = s.call
                      /\ dialog[s.bot][s.call] = "early" => sender'[s].session = Nothing
    OBVIOUS
  <2>1. sender \in [Sayings -> Sender]
    BY DEF HeardInv, SayInv, TypeOKS
  <2>2. PlayAudioFile(s)
    <3>1. PICK t \in Sayings : SpeechStep(t)
      BY DEF NextS, CallStep, StartsSending
    <3>2. PlayAudioFile(t) \/ SendChunk(t)
      BY <3>1 DEF StartsSending, SpeechStep, Generate, GenerateFails, OpenFile, WriteChunk,
                  SaveFails, RequestIsGone, DeleteFile
    <3>3. ~SendChunk(t)
      BY <2>1 DEF SendChunk, StartsSending
    <3>4. t = s
      BY <2>1, <3>2, <3>3 DEF PlayAudioFile, StartsSending
    <3> QED
      BY <3>2, <3>3, <3>4
  <2>3. sender'[s].session = session[s.bot]
    BY <2>1, <2>2 DEF PlayAudioFile
  <2> QED
    BY <2>2, <2>3, PlayedWhereMeant DEF Dialog
<1>2. HeardInv /\ [NextS]_svars => HeardInv'
  BY HeardNext
<1> QED
  BY <1>1, <1>2, HeardInit, PTL DEF SpecS, SentInItsCall

=============================================================================
