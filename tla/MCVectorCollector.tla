-------------------------- MODULE MCVectorCollector --------------------------
(***************************************************************************)
(* Model values for TLC: one place, since vectors of different places      *)
(* share nothing but the lock; two jobs, so that mu is free between two    *)
(* records of one answer.                                                  *)
(***************************************************************************)
EXTENDS VectorCollector

CONSTANTS p1, main

OneProject == {<<p1, main>>}

Jobs == <<"build", "test">>
NoJobs == <<>>
=============================================================================
