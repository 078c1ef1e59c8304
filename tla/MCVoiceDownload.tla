--------------------------- MODULE MCVoiceDownload ---------------------------
(* A site with three voices, one of them without a location, and two languages. *)
EXTENDS VoiceDownload

CONSTANTS va, vb, vc, la, lb

TheVoices == <<va, vb, vc>>
TheLanguages == <<la, lb>>

=============================================================================
