-------------------------- MODULE MCSignInActivity --------------------------
(* The sign-ins a window is made of.                                       *)
EXTENDS SignInActivity

(* Sign-ins with each way a level can be hidden, with and without the      *)
(* policies, and enough failures for codes to tie at the listed ones' end. *)
Attempt(code, agg, during, policies, omitted) ==
  [user |-> IF code = 0 THEN NoID ELSE "u1", app |-> "a1", code |-> code,
   aggregated |-> agg, during |-> during, legacy |-> code = 3,
   access |-> IF code = 0 THEN "notApplied" ELSE "failure",
   policies |-> policies, omitted |-> omitted]
Applied(p, r) == [policy |-> p, result |-> r]
mcSignIns ==
  {Attempt(1, "none", "none", <<>>, FALSE),
   Attempt(2, "low", "hidden",
           <<Applied("p1", "success"), Applied("p1", "failure")>>, FALSE),
   Attempt(3, "", "high", <<Applied("p1", "notEnabled")>>, FALSE),
   Attempt(0, "hidden", "none", <<Applied(NoID, "reportOnlyFailure")>>, FALSE),
   Attempt(0, "none", "hidden", <<Applied("p2", "reportOnlySuccess")>>, FALSE),
   Attempt(0, "none", "none", <<>>, TRUE)}
=============================================================================
