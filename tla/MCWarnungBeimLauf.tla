--------------------------- MODULE MCWarnungBeimLauf ---------------------------
(* The inductive invariant of the proof, on the job's small instances. *)
EXTENDS MCUnternehmensscoringJob, UnternehmensscoringJob_proofs
==============================================================================
