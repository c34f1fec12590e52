----------------------------- MODULE MCCorrelator -----------------------------
(* Model-checking instance of Correlator: ottercat's single main thread.    *)
EXTENDS Correlator, TLC
=============================================================================
