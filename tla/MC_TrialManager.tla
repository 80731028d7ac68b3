-------------------------- MODULE MC_TrialManager --------------------------
EXTENDS TrialManager, TLC

(* Three stages: the dataset at 0.0; the first library at 0.0, 0.1 or    *)
(* at the next api version 1.0; the second library at 0.0 or 0.1.        *)
MCStageVers == (1 :> {<<0, 0>>}) @@ (2 :> {<<0, 0>>, <<0, 1>>, <<1, 0>>}) @@ (3 :> {<<0, 0>>, <<0, 1>>})

=============================================================================
