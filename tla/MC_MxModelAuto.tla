--------------------------- MODULE MC_MxModelAuto ---------------------------
(* Instantiation of MxModelAuto for TLC; the cfg files bind the constants. *)
EXTENDS MxModelAuto
=============================================================================
