--------------------------- MODULE MCResourceNames --------------------------
(* Names that are words of a path, and one that is not.                    *)
EXTENDS ResourceNames

mcGroups == {"prod", "servers", "vaults", "providers", "subscriptions", "resourcegroups"}
mcNames == {"ledger", "servers", "providers", "subscriptions", "databases", "vaults"}
=============================================================================
