-------------------------------- MODULE MCRun -------------------------------
(* Tenants whose groups hold a role, another or none, or whose members the *)
(* report has not listed, with a subscription that holds a server, a       *)
(* machine and a vault, and one that holds nothing.                        *)
EXTENDS Run, MCEntraTenants, MCAzureEstates

mcTenants ==
  {Differ(Ordinary, f) : f \in {"none", "none_listed", "group_held", "global_admin_group"}}
mcConfigurations == {<<MCBetween, MCEmpty>>}
=============================================================================
