--------------------------- MODULE MCTtsPlayback ---------------------------
(* TtsPlayback has only numeric parameters: the configurations give them. *)
EXTENDS TtsPlayback
=============================================================================
