------------------------- MODULE MCConditionalAccess -------------------------
(* Two members, a stranger, a group, a role and one app beside the admin     *)
(* portals.  Each policy departs from Microsoft's MFA policy, or from its    *)
(* block of legacy clients, in one part: its users, apps, clients,           *)
(* conditions or grant.  A tenant has up to two policies, the second among   *)
(* the ones that differ in users, so that what one leaves uncovered another  *)
(* may cover.                                                                *)
EXTENDS ConditionalAccess, FiniteSetsExt

MCMembers == {"u1", "u2"}
MCStrangers == {"guest"}
MCGroups == {"g"}
MCDirRoles == {"r"}
MCOtherApps == {"app"}

Unset == [include |-> {}, exclude |-> {}]
RequireMFA ==
  [enabled |-> TRUE, includeUsers |-> {Everyone}, excludeUsers |-> {},
   includeGroups |-> {}, includeRoles |-> {}, excludeCircles |-> {},
   includeApps |-> {Everyone}, excludeApps |-> {}, appFilter |-> FALSE,
   userAction |-> FALSE, clients |-> {Everyone}, conditions |-> {},
   locations |-> Unset, platforms |-> Unset, operator |-> "OR",
   controls |-> {"mfa"}]
BlockLegacy == [RequireMFA EXCEPT !.controls = {"block"},
                                  !.clients = {"exchangeActiveSync", "other"}]

(* No policy names a user both in and out, unless it is for All.             *)
ByUsers ==
  {p \in {[RequireMFA EXCEPT !.includeUsers = in, !.excludeUsers = out,
                             !.includeGroups = gs, !.includeRoles = rs,
                             !.excludeCircles = cs] :
           in \in {{}, {Everyone}, {"u1"}, {"u2", "guest"}},
           out \in {{}, {"u1"}, {"u2", "guest"}}, gs \in SUBSET {"g"},
           rs \in SUBSET {"r"}, cs \in {{}, {"g"}, {"r"}}} :
     Everyone \in p.includeUsers \/ p.includeUsers \cap p.excludeUsers = {}}

ByTheRest(base) ==
  {[base EXCEPT !.operator = op, !.controls = cs] :
     op \in {"AND", "OR"},
     cs \in UNION {kSubset(k, Controls) : k \in 0..2}}
    \cup {[base EXCEPT !.includeApps = in, !.excludeApps = out,
                       !.appFilter = filter] :
            in \in {{Everyone}, {AdminPortals}, {"app"}},
            out \in {{}, {AdminPortals}}, filter \in BOOLEAN}
    \cup {[base EXCEPT !.clients = cs] : cs \in SUBSET ClientTypes}
    \cup {[base EXCEPT !.conditions = cs] : cs \in SUBSET ConditionNames}
    \cup {[base EXCEPT !.locations = l, !.platforms = k] :
            l \in Lists, k \in {Unset, [Unset EXCEPT !.include = {"office"}]}}
    \cup {[base EXCEPT !.userAction = TRUE, !.includeApps = {}],
          [base EXCEPT !.enabled = FALSE]}

(* A policy is for a user action or leaves in some app it is for.            *)
IsForSomething(p) == p.userAction \/ \E app \in Apps : ForApp(p, app)

MCPolicies == {p \in ByUsers \cup ByTheRest(RequireMFA) \cup ByTheRest(BlockLegacy) :
                 IsForSomething(p)}
MCSecond == {p \in ByUsers : p.excludeUsers = {} /\ p.includeRoles = {}
                               /\ p.excludeCircles \subseteq {"g"}}

MCTenants == {<<>>} \cup {<<p>> : p \in MCPolicies}
               \cup {<<p, q>> : p \in ByUsers, q \in MCSecond}
               \cup {<<p, q>> : p \in MCPolicies, q \in {BlockLegacy, RequireMFA}}

(* A policy for the browser alone, and one that names a user in and out.     *)
MCBrowserOnly == {<<>>} \cup
  {<<[RequireMFA EXCEPT !.clients = {"browser"}]>>}
MCNamedTwice == {<<>>} \cup
  {<<[RequireMFA EXCEPT !.includeUsers = MCMembers, !.excludeUsers = {"u1"}]>>}
===============================================================================
