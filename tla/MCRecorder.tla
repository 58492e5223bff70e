----------------------------- MODULE MCRecorder -----------------------------
(***************************************************************************)
(* An instance of Recorder.  Rows are interchangeable, so the run takes    *)
(* them up to permutation.                                                 *)
(***************************************************************************)
EXTENDS Recorder, TLC

RowSymmetry == Permutations(Rows)

=============================================================================
