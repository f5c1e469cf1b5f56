--------------------------- MODULE MCAzureCollect ---------------------------
(***************************************************************************)
(* The Azure collection, and the cloud posture taken from it, over the     *)
(* subscriptions of MCAzureEstates.  Two runs have two of them, so one     *)
(* that cannot be read may come before one that can.                       *)
(***************************************************************************)
EXTENDS CloudPosture, MCAzureEstates
=============================================================================
