----------------------------- MODULE MCCampaign -----------------------------
(***************************************************************************)
(* Campaign on small instances.                                            *)
(***************************************************************************)
EXTENDS Campaign

(* Two tasks on one host, and one on each of two, up to the platforms' names. *)
MCPlans == {<<"linux", "linux">>, <<"linux", "windows">>}
=============================================================================
