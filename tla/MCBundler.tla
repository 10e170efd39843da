----------------------------- MODULE MCBundler -----------------------------
(* Clock changes that skip a frame and that repeat one.                    *)
EXTENDS BundlerTicker

SomeDeltas == {-3, 4}
=============================================================================
