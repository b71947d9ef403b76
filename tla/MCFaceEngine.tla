---------------------------- MODULE MCFaceEngine ----------------------------
(* FaceEngine has only numeric and Boolean parameters.                      *)
EXTENDS FaceEngine
=============================================================================
