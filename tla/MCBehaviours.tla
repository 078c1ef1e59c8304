----------------------------- MODULE MCBehaviours -----------------------------
(* The bots of the runs of Behaviours: peers.conf.json gives every bot the    *)
(* behaviour answerHangup; the other scripts are run beside it.               *)
EXTENDS Behaviours, TLC

CONSTANTS b1, b2, b3

EveryBehaviour ==
  b1 :> "answerHangup" @@ b2 :> "simpleAnswerer" @@ b3 :> "theHeavyOne"

AnswerHangupOnly == [b \in Bots |-> "answerHangup"]

=============================================================================
