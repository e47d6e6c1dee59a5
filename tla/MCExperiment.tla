---------------------------- MODULE MCExperiment ----------------------------
(* Experiment on small instances. *)
EXTENDS Experiment, TLC

\* Every alternative of the script, taken and not taken.
Tested ==
  {<<"M1", "steady">>, <<"M2", "steady">>, <<"M2", "establishment">>, <<"M3", "combined">>}

\* The shortest script there is.
Baseline == {<<"M1", "steady">>}
=============================================================================
