----------------------------- MODULE MCLifecycle -----------------------------
(* Two bots with one behaviour script, as in peers.conf.json. *)
EXTENDS Lifecycle

CONSTANTS answerHangup

OneBehaviour == [b \in Bots |-> answerHangup]

=============================================================================
