------------------------------ MODULE MCAccess -------------------------------
(***************************************************************************)
(* Who may do what, side by side: the policies a tenant's sign-ins meet    *)
(* and the roles held on its subscriptions.  The parts share no state, so  *)
(* a behaviour takes one of them and leaves the other where it starts.     *)
(***************************************************************************)
EXTENDS MCConditionalAccess, MCAccessPosture

VARIABLE part

accessesVars == <<caVars, accessVars, part>>

AccessesInit ==
  /\ part \in {"policies", "roles"}
  /\ part # "policies" => policies = <<>> /\ defaults = CHOOSE d \in Defaults : TRUE
  /\ part # "roles" => /\ accounts = <<>>
                       /\ dir = CHOOSE d \in Directories : TRUE
                       /\ level = CHOOSE l \in Levels : TRUE
  /\ IF part = "policies" THEN AccessInit /\ Init ELSE Init /\ AccessInit

AccessesNext ==
  /\ UNCHANGED part
  /\ IF part = "policies" THEN Next ELSE UNCHANGED caVars
  /\ IF part = "roles" THEN AccessNext ELSE UNCHANGED accessVars

AccessesSpec == AccessesInit /\ [][AccessesNext]_accessesVars
=============================================================================
