--------------------------- MODULE MCVisionUpload ---------------------------
(* VisionUpload has only numeric and Boolean parameters.                    *)
EXTENDS VisionUpload
=============================================================================
