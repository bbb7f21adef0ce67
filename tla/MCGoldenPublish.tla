--------------------------- MODULE MCGoldenPublish ---------------------------
(* GoldenPublish with constants given by the .cfg file.                     *)
EXTENDS GoldenPublish
=============================================================================
