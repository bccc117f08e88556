------------------------- MODULE MC_MxModelManual -------------------------
(* Instantiation of MxModelManual for TLC; the constants are given in each *)
(* MxModelManual_*.cfg.                                                    *)
EXTENDS MxModelManual
====
