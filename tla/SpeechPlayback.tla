---------------------------- MODULE SpeechPlayback ----------------------------
(***************************************************************************)
(* What answerHangup says in a call (sayWords of SoundTTSPlugin, then      *)
(* playAudioFile and sendAudioFile), over the scripts of Behaviours.       *)
(*                                                                         *)
(* sayWords starts a java.util.Timer of its own: 200 ms later its thread   *)
(* generates the sound, saves it to a file named after the Call-ID, has it *)
(* played, and deletes the file.  Playing is not waiting: a sender thread  *)
(* of peers reads the file it was given on its own.  The request of the    *)
(* call and the RTP session of the bot are read when the sound is ready,   *)
(* long after the words were asked for.                                    *)
(*                                                                         *)
(* marytts, the RTP session and the sender are libraries: they are         *)
(* external.  A bot has one session, the one of the call answered last.    *)
(* Left out: the voice and the locale of marytts.                          *)
(***************************************************************************)
EXTENDS Behaviours, Sequences

CONSTANTS
  Nothing,  \* no file, no session, or bytes never written
  Chunks    \* bound: buffers the sound of some words takes

\* A script says something once in a call it answered.
Sayings == [bot : Bots, call : Calls]

ASSUME NothingAssumption == Nothing \notin Calls \cup Sayings
ASSUME ChunksAssumption == Chunks \in Nat \ {0}

VARIABLES
  saying,   \* [Sayings -> SayingState]: where the timer thread of sayWords is
  file,     \* [names -> the saying that created the file, or Nothing]
  content,  \* [Sayings -> Seq(chunks)]: what the file it created holds
  output,   \* [Sayings -> the file its stream writes, and how much it has]
  sender,   \* [Sayings -> Sender]: the thread that sends what it reads
  session,  \* [Bots -> the call of its RTP session, or Nothing]
  spoiled   \* history: sayings with an IOException

speechVars == <<saying, file, content, output, sender, spoiled>>
svars == <<bvars, speechVars, session>>

SayingState ==
  {"none", "scheduled", "generated", "saving", "saved", "played", "over", "failed"}

File == Sayings \cup {Nothing}

\* A sender has the session and the file it was made with.
Sender == [at : {"none", "sending", "done"}, session : Calls \cup {Nothing},
           file : File, sent : Seq(File)]

TypeOKS ==
  /\ TypeOKB
  /\ saying \in [Sayings -> SayingState]
  /\ file \in [Calls -> File]
  /\ content \in [Sayings -> Seq(File)]
  /\ output \in [Sayings -> [file : File, written : 0..Chunks]]
  /\ sender \in [Sayings -> Sender]
  /\ session \in [Bots -> Calls \cup {Nothing}]
  /\ spoiled \subseteq Sayings

InitS ==
  /\ InitB
  /\ saying = [s \in Sayings |-> "none"]
  /\ file = [n \in Calls |-> Nothing]
  /\ content = [s \in Sayings |-> <<>>]
  /\ output = [s \in Sayings |-> [file |-> Nothing, written |-> 0]]
  /\ sender = [s \in Sayings |->
                 [at |-> "none", session |-> Nothing, file |-> Nothing, sent |-> <<>>]]
  /\ session = [b \in Bots |-> Nothing]
  /\ spoiled = {}

-----------------------------------------------------------------------------
(* The scripts and the calls *)

\* The answer of answerHangup asks for its words, which schedules a timer.
SayWords(s) == loop = At("answer", s.bot, s.call) /\ loop' = Idle

\* The media of a bot start with a call that is answered, and stop with one
\* that ends.
MediaFollowDialogs ==
  LET starts(b) == {c \in Calls : ~InConversation(b, c) /\ dialog'[b][c] = "confirmed"}
      stops(b) == {c \in Calls : InConversation(b, c) /\ dialog'[b][c] # "confirmed"}
  IN session' = [b \in Bots |-> IF starts(b) # {} THEN CHOOSE c \in starts(b) : TRUE
                                ELSE IF stops(b) # {} THEN Nothing
                                ELSE session[b]]

CallStep ==
  /\ NextB
  /\ saying' = [s \in Sayings |-> IF SayWords(s) THEN "scheduled" ELSE saying[s]]
  /\ MediaFollowDialogs
  /\ UNCHANGED <<file, content, output, sender, spoiled>>

-----------------------------------------------------------------------------
(* The timer thread of sayWords *)

Goes(s, from, to) == saying[s] = from /\ saying' = [saying EXCEPT ![s] = to]

\* Seeded fault: one file for all the calls.
FileName_Fixed(c) == CHOOSE d \in Calls : TRUE

\* The MD5 of the Call-ID names the file.
FileName(c) == c

\* The synthesis takes its time: the call may be hung up meanwhile.
Generate(s) ==
  /\ Goes(s, "scheduled", "generated")
  /\ UNCHANGED <<bvars, file, content, output, sender, session, spoiled>>

\* marytts refuses the words, or no format fits: the thread ends.
GenerateFails(s) ==
  /\ Goes(s, "scheduled", "failed")
  /\ UNCHANGED <<bvars, file, content, output, sender, session, spoiled>>

\* createNewFile and FileOutputStream: the file is created, or emptied.
OpenFile(s) ==
  LET n == FileName(s.call)
      f == IF file[n] = Nothing THEN s ELSE file[n]
  IN /\ Goes(s, "generated", "saving")
     /\ file' = [file EXCEPT ![n] = f]
     /\ content' = [content EXCEPT ![f] = <<>>]
     /\ output' = [output EXCEPT ![s].file = f]
     /\ UNCHANGED <<bvars, sender, session, spoiled>>

\* What a file holds after x is written at position k.
WrittenAt(chunks, k, x) ==
  [i \in 1..(IF k > Len(chunks) THEN k ELSE Len(chunks)) |->
     IF i = k THEN x ELSE IF i <= Len(chunks) THEN chunks[i] ELSE Nothing]

\* Every stream writes at its own position; the last buffer closes the file.
WriteChunk(s) ==
  LET o == output[s]
  IN /\ Goes(s, "saving", IF o.written + 1 = Chunks THEN "saved" ELSE "saving")
     /\ content' = [content EXCEPT ![o.file] = WrittenAt(@, o.written + 1, s)]
     /\ output' = [output EXCEPT ![s].written = @ + 1]
     /\ UNCHANGED <<bvars, file, sender, session, spoiled>>

\* saveToFile prints an IOException, and what there is gets played.
SaveFails(s) ==
  /\ Goes(s, "generated", "saved") \/ Goes(s, "saving", "saved")
  /\ spoiled' = spoiled \cup {s}
  /\ UNCHANGED <<bvars, file, content, output, sender, session>>

\* playAudioFile: without a request sendAudioFile throws, and the file stays.
RequestIsGone(s) ==
  /\ GetSipRequest(s.call) = NoRequest
  /\ Goes(s, "saved", "failed")
  /\ UNCHANGED <<bvars, file, content, output, sender, session, spoiled>>

\* sendAudioFile opens the file and starts a sender on the session of the bot.
PlayAudioFile(s) ==
  /\ GetSipRequest(s.call) # NoRequest
  /\ Goes(s, "saved", "played")
  /\ sender' = [sender EXCEPT ![s] =
                  [at |-> "sending", session |-> session[s.bot],
                   file |-> file[FileName(s.call)], sent |-> <<>>]]
  /\ UNCHANGED <<bvars, file, content, output, session, spoiled>>

\* Seeded fault: the file is not deleted.
DeleteFile_Not(s) ==
  /\ Goes(s, "played", "over")
  /\ UNCHANGED <<bvars, file, content, output, sender, session, spoiled>>

\* An open stream goes on with a file that is deleted.
DeleteFile(s) ==
  /\ Goes(s, "played", "over")
  /\ file' = [file EXCEPT ![FileName(s.call)] = Nothing]
  /\ UNCHANGED <<bvars, content, output, sender, session, spoiled>>

(* The sender *)

\* It reads and sends, a buffer after the other, up to the end of the file.
SendChunk(s) ==
  LET r == sender[s]
      chunks == IF r.file = Nothing THEN <<>> ELSE content[r.file]
      n == Len(r.sent) + 1
  IN /\ r.at = "sending"
     /\ sender' = [sender EXCEPT ![s] =
                     IF n <= Len(chunks) THEN [r EXCEPT !.sent = Append(@, chunks[n])]
                     ELSE [r EXCEPT !.at = "done"]]
     /\ UNCHANGED <<bvars, saying, file, content, output, session, spoiled>>

-----------------------------------------------------------------------------
(* The specification *)

SpeechStep(s) ==
  \/ Generate(s)
  \/ GenerateFails(s)
  \/ OpenFile(s)
  \/ WriteChunk(s)
  \/ SaveFails(s)
  \/ RequestIsGone(s)
  \/ PlayAudioFile(s)
  \/ DeleteFile(s)
  \/ SendChunk(s)

NextS == CallStep \/ \E s \in Sayings : SpeechStep(s)

SpecS == InitS /\ [][NextS]_svars

-----------------------------------------------------------------------------
(* Properties *)

IsPlayed(s) == sender[s].at # "none"

\* The only bot of the process in its call.
IsAlone(s) == \A b \in Bots \ {s.bot} : role[b][s.call] = "none"

\* A bot says what it was asked to, all of it and nothing else, whatever the
\* other bots say at the same time: the file is whole when it is played, and
\* neither its deletion nor the files of other calls reach the sender.
SaidAsAsked ==
  \A s \in Sayings :
    IsAlone(s) /\ s \notin spoiled
      => LET sent == sender[s].sent
         IN /\ \A i \in 1..Len(sent) : sent[i] = s
            /\ sender[s].at = "done" => Len(sent) = Chunks

\* The sender of some words is made.
StartsSending(s) == sender[s].at = "none" /\ sender'[s].at # "none"

\* Every answer of the bot saw the answers before it.
AnsweredSeeing(b) == \A c \in Calls : At("answer", b, c) \notin blind

\* Words are sent on the session of their own call ("Generating %s for callId")
\* while it lasts, and on none before the answer was run: however long they took,
\* they reach another call only when their own is over, by a hangup of either end.
SentInItsCall ==
  [][ \A s \in Sayings :
        StartsSending(s) /\ AnsweredSeeing(s.bot)
          => /\ dialog[s.bot][s.call] = "confirmed" => sender'[s].session = s.call
             /\ dialog[s.bot][s.call] = "early" => sender'[s].session = Nothing ]_svars

\* The file of some words is gone when they were said; it stays only when the
\* request was gone, and the exception left the task before delete.
FileIsDeleted ==
  \A n \in Calls :
    file[n] # Nothing => saying[file[n]] \in {"saving", "saved", "played", "failed"}

=============================================================================
