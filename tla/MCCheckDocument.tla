--------------------------- MODULE MCCheckDocument ---------------------------
(* Two runs over one document, the second the more recent.                  *)
EXTENDS CheckDocument
==============================================================================
