--------------------------- MODULE MCSpeechPlayback ---------------------------
(* Bots of the behaviour answerHangup, the one that speaks; any two calls are *)
(* alike.                                                                     *)
EXTENDS SpeechPlayback, TLC

AnswerHangupOnly == [b \in Bots |-> "answerHangup"]

Symmetry == Permutations(Calls)

=============================================================================
