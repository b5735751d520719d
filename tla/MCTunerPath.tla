---------------------------- MODULE MCTunerPath -----------------------------
(* TunerPath on a few requests.                                             *)
EXTENDS TunerPath

MCSubmits == 0..MaxSubmit
=============================================================================
