------------------------------ MODULE MCBitmap ------------------------------
(* Two flushes without the lock, which are interchangeable.                *)
EXTENDS Bitmap, TLC

Interchangeable == Permutations(Flushers)
=============================================================================
