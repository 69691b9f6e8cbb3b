------------------------- MODULE MC_ListerInformer -------------------------
(* Model-checking instance of ListerInformer: two objects, two callers.    *)
EXTENDS ListerInformer

CONSTANTS o1, o2, c1, c2

MCObj == {o1, o2}
MCCallers == {c1, c2}
MCOneCaller == {c1}
=============================================================================
