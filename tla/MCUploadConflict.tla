-------------------------- MODULE MCUploadConflict --------------------------
(* Instances of UploadConflict for TLC: contents are model values, and may   *)
(* be permuted where no liveness is checked.                                 *)
EXTENDS UploadConflict, TLC

Contents == Permutations(Content)

\* Bounds: nobody cancels the group or disposes of the bridge, and the local file changes
\* only while a choice waits to be taken.
Quiet == /\ ~cancelRequested /\ ~expired
         /\ choice = None => local = rec.local \/ stored = None
==============================================================================
