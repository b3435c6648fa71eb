--------------------------- MODULE MCIdeationRunner ---------------------------
(***************************************************************************)
(* Small instances of IdeationRunner: two runs of one or of two businesses *)
(* over a registry of one and an executor of two threads, and one or two   *)
(* streams.                                                                *)
(***************************************************************************)
EXTENDS IdeationRunner

CONSTANTS acme, beta, s1, s2
==============================================================================
