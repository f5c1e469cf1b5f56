--------------------------- MODULE MCEntraCollect ---------------------------
(***************************************************************************)
(* The Entra collection and the posture taken from it, over an ordinary    *)
(* tenant, those that lack what several handlers need, those that differ   *)
(* in facts one handler weighs together, and those that differ in facts no *)
(* two of which one handler sees.  The proofs of EntraCollectProofs and    *)
(* IDPPostureProofs are about every tenant.   Three failed reads are the   *)
(* fewest that leave no posture to emit.                                   *)
(***************************************************************************)
EXTENDS IDPPosture, MCEntraTenants

Weighed == {<<"coverage_unknown", "defaults_on", "none">>,
            <<"no_policies", "defaults_on", "none">>,
            <<"no_assignments", "no_eligible", "none">>,
            <<"group_held", "no_eligible", "none">>,
            <<"no_privileged", "global_admin_group", "none">>}
Apart == {<<"none_listed", "no_apps", "unrated">>,
          <<"none_active", "no_score", "policies_omitted">>,
          <<"no_active_guests", "no_credentials", "none">>}
MCTenants ==
  {Differ(Ordinary, a) : a \in {"none", "no_users", "no_members", "no_policies",
                                "no_assignments"}}
    \cup {Differ(Differ(Differ(Ordinary, f[1]), f[2]), f[3]) : f \in Weighed \cup Apart}
=============================================================================
