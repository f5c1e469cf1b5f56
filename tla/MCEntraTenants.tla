--------------------------- MODULE MCEntraTenants ---------------------------
(***************************************************************************)
(* The tenants the TLC runs start from: an ordinary one, and the facts in  *)
(* which another may differ from it.                                       *)
(***************************************************************************)
EXTENDS Naturals

Ordinary ==
  [users |-> 3, members |-> 2, listed |-> 1, active |-> 2, activeGuests |-> 1,
   policies |-> 1, coverageUnknown |-> FALSE, defaultsOn |-> FALSE,
   privileged |-> 1, standing |-> 1, eligible |-> 1,
   groupHeld |-> FALSE, groupHeldGlobalAdmin |-> FALSE,
   apps |-> 1, credentials |-> 1, scored |-> TRUE,
   unrated |-> FALSE, policiesOmitted |-> FALSE]

Differ(t, fact) ==
  CASE fact = "no_users"        -> [t EXCEPT !.users = 0, !.members = 0,
                                     !.listed = 0, !.coverageUnknown = FALSE]
    [] fact = "no_members"      -> [t EXCEPT !.members = 0, !.listed = 0,
                                     !.coverageUnknown = FALSE]
    [] fact = "none_listed"     -> [t EXCEPT !.listed = 0]
    [] fact = "none_active"     -> [t EXCEPT !.active = 0, !.activeGuests = 0]
    [] fact = "no_active_guests" -> [t EXCEPT !.activeGuests = 0]
    [] fact = "no_policies"     -> [t EXCEPT !.policies = 0]
    [] fact = "coverage_unknown" -> [t EXCEPT !.coverageUnknown = t.members > 0]
    [] fact = "defaults_on"     -> [t EXCEPT !.defaultsOn = TRUE]
    [] fact = "no_privileged"   -> [t EXCEPT !.privileged = 0]
    [] fact = "no_assignments"  -> [t EXCEPT !.privileged = 0, !.standing = 0]
    [] fact = "no_eligible"     -> [t EXCEPT !.eligible = 0]
    [] fact = "group_held"      -> [t EXCEPT !.groupHeld = TRUE]
    [] fact = "global_admin_group" -> [t EXCEPT !.groupHeld = TRUE,
                                         !.groupHeldGlobalAdmin = TRUE]
    [] fact = "no_apps"         -> [t EXCEPT !.apps = 0]
    [] fact = "no_credentials"  -> [t EXCEPT !.credentials = 0]
    [] fact = "no_score"        -> [t EXCEPT !.scored = FALSE]
    [] fact = "unrated"         -> [t EXCEPT !.unrated = TRUE]
    [] fact = "policies_omitted" -> [t EXCEPT !.policiesOmitted = TRUE]
    [] OTHER                    -> t
=============================================================================
