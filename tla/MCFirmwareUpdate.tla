--------------------------- MODULE MCFirmwareUpdate ---------------------------
(* FirmwareUpdate for TLC.  A cfg chooses the PPBs, the image, the bounds.  *)
EXTENDS FirmwareUpdate
=============================================================================
