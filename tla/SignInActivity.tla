--------------------------- MODULE SignInActivity ---------------------------
(***************************************************************************)
(* The sign-in monitoring block: a window of sign-ins folded one by one    *)
(* into counts, of which some are unknown when Graph hides a sign-in's     *)
(* risk level or leaves out the policies applied to it, and the most       *)
(* frequent failure codes taken from a map that has no order.              *)
(***************************************************************************)
EXTENDS Integers, FiniteSets, Sequences

CONSTANTS
  SignIns,     \* the sign-ins a window may hold, of SignInFacts
  Codes,       \* the error codes, with an order
  TopLimit,    \* how many codes are listed (10)
  MaxSignIns   \* bound: the sign-ins of the window

RiskLevels == {"", "none", "low", "medium", "high", "hidden", "unknownFutureValue"}
Results == {"success", "failure", "notApplied", "notEnabled", "reportOnlyFailure",
            "reportOnlySuccess"}
NoID == ""

(* A sign-in as Graph sends it.  An error code of 0 is a success.  The     *)
(* policies are left out of every sign-in for an app that may not read     *)
(* them, which is not the same as there being none.                        *)
IsSignIn(s) ==
  /\ s.code \in Codes \cup {0}
  /\ s.aggregated \in RiskLevels /\ s.during \in RiskLevels
  /\ s.legacy \in BOOLEAN /\ s.omitted \in BOOLEAN
  /\ s.access \in Results
  /\ s.policies \in Seq([policy : STRING, result : Results])

ASSUME SignInsAssumption == \A s \in SignIns : IsSignIn(s)
ASSUME CodesAssumption == Codes \subseteq Int \ {0} /\ IsFiniteSet(Codes)
ASSUME ActivityBoundsAssumption == TopLimit \in Nat /\ MaxSignIns \in Nat

VARIABLES
  seen,             \* the sign-ins folded so far
  counts,           \* each count
  userIDs, appIDs, policyIDs,
  failureCodes,     \* how often each error code was met
  unrated, policiesOmitted,
  block             \* the block written, once the window is read

activityVars == <<seen, counts, userIDs, appIDs, policyIDs, failureCodes, unrated,
          policiesOmitted, block>>

PolicyCounts ==
  {"applied_policy_evaluations_count", "applied_policy_success_count",
   "applied_policy_failure_count", "applied_policy_not_applied_count",
   "applied_policy_report_only_fail_count"}
Counts ==
  PolicyCounts \cup
  {"sign_ins_count", "failure_count", "legacy_client_sign_ins_count",
   "risky_sign_ins_count", "conditional_access_success_count",
   "conditional_access_failure_count", "conditional_access_not_applied_count"}
Unwritten == [state |-> "unwritten"]
Unknown == -1

riskyLevel(level) == level \notin {"", "none", "hidden", "unknownFutureValue"}
riskySignIn(s) == riskyLevel(s.aggregated) \/ riskyLevel(s.during)

(* Mutant: only the level during the sign-in is looked at.                 *)
riskHiddenDuring(s) == s.during = "hidden"
riskHidden(s) == s.aggregated = "hidden" \/ s.during = "hidden"

(* The count a policy's result goes to, or none.                           *)
resultCount(r) ==
  CASE r = "success" -> "applied_policy_success_count"
    [] r = "failure" -> "applied_policy_failure_count"
    [] r \in {"notApplied", "notEnabled"} -> "applied_policy_not_applied_count"
    [] r = "reportOnlyFailure" -> "applied_policy_report_only_fail_count"
    [] OTHER -> "none"
accessCount(r) ==
  CASE r = "success" -> "conditional_access_success_count"
    [] r = "failure" -> "conditional_access_failure_count"
    [] r = "notApplied" -> "conditional_access_not_applied_count"
    [] OTHER -> "none"

(* What a sign-in adds to a count.                                         *)
added(s, c) ==
  CASE c \in PolicyCounts ->
         Cardinality({i \in 1 .. Len(s.policies) :
           c \in {"applied_policy_evaluations_count", resultCount(s.policies[i].result)}})
    [] c = "risky_sign_ins_count" -> IF riskySignIn(s) THEN 1 ELSE 0
    [] c = "failure_count" -> IF s.code # 0 THEN 1 ELSE 0
    [] c = "legacy_client_sign_ins_count" -> IF s.legacy THEN 1 ELSE 0
    [] OTHER -> IF c \in {"sign_ins_count", accessCount(s.access)} THEN 1 ELSE 0

ActivityInit ==
  /\ seen = <<>>
  /\ counts = [c \in Counts |-> 0]
  /\ userIDs = {} /\ appIDs = {} /\ policyIDs = {}
  /\ failureCodes = [c \in {} |-> 0]
  /\ unrated = FALSE /\ policiesOmitted = FALSE
  /\ block = Unwritten

(* Mutant: a sign-in with no policies is taken for one without the list.   *)
policiesEmpty(s) == s.policies = <<>>

noPolicies(s) == s.omitted

failureCode(s) == {s.code} \ {0}

(* One iteration over the sign-ins.  A sign-in with a risky level is       *)
(* counted, and a hidden level is looked for only in one without.          *)
FoldSignIn ==
  /\ block = Unwritten /\ Len(seen) < MaxSignIns
  /\ \E s \in SignIns :
       /\ seen' = Append(seen, s)
       /\ counts' = [c \in Counts |-> counts[c] + added(s, c)]
       /\ userIDs' = userIDs \cup ({s.user} \ {NoID})
       /\ appIDs' = appIDs \cup ({s.app} \ {NoID})
       /\ policyIDs' = policyIDs \cup
            ({s.policies[i].policy : i \in 1 .. Len(s.policies)} \ {NoID})
       /\ failureCodes' =
            [c \in DOMAIN failureCodes \cup failureCode(s) |->
               (IF c \in DOMAIN failureCodes THEN failureCodes[c] ELSE 0)
               + (IF c = s.code THEN 1 ELSE 0)]
       /\ unrated' = (unrated \/ (~riskySignIn(s) /\ riskHidden(s)))
       /\ policiesOmitted' = (policiesOmitted \/ noPolicies(s))
  /\ UNCHANGED block

(* Mutant: codes that are as frequent are left in the map's order.         *)
beforeByCount(a, b) == failureCodes[a] > failureCodes[b]

(* The order the codes are sorted by.                                      *)
before(a, b) ==
  \/ failureCodes[a] > failureCodes[b]
  \/ failureCodes[a] = failureCodes[b] /\ a < b

Shorter(a, b) == IF a < b THEN a ELSE b

(* Every list a sort of the map's codes, cut at the limit, may give: the   *)
(* map is walked in any order and the sort keeps none of it.               *)
topFailureCodes ==
  {SubSeq(q, 1, Shorter(Len(q), TopLimit)) :
     q \in {p \in [1 .. Cardinality(DOMAIN failureCodes) -> DOMAIN failureCodes] :
              \A i, j \in DOMAIN p : i < j => p[i] # p[j] /\ ~before(p[j], p[i])}}

(* The window is read: the block is written, without the counts a hidden   *)
(* level or policies that are left out make unknown.                       *)
summarizeSignIns ==
  /\ block = Unwritten
  /\ \E top \in topFailureCodes :
       block' =
         [state |-> "written",
          counts |-> [c \in Counts |->
            IF \/ c = "risky_sign_ins_count" /\ unrated
               \/ c \in PolicyCounts /\ policiesOmitted
            THEN Unknown ELSE counts[c]],
          users |-> Cardinality(userIDs), apps |-> Cardinality(appIDs),
          policies |-> IF policiesOmitted THEN Unknown ELSE Cardinality(policyIDs),
          top |-> [i \in DOMAIN top |-> [code |-> top[i], count |-> failureCodes[top[i]]]]]
  /\ UNCHANGED <<seen, counts, userIDs, appIDs, policyIDs, failureCodes, unrated,
                 policiesOmitted>>

ActivityNext == FoldSignIn \/ summarizeSignIns
ActivitySpec == ActivityInit /\ [][ActivityNext]_activityVars
-----------------------------------------------------------------------------
InWindow == 1 .. Len(seen)
Times(code) == Cardinality({i \in InWindow : seen[i].code = code})
MetCodes == {seen[i].code : i \in InWindow} \ {0}

Levels(i) == {seen[i].aggregated, seen[i].during}
Hidden == {i \in InWindow : "hidden" \in Levels(i)}
RiskyIf(rated) ==
  Cardinality({i \in InWindow : Levels(i) \cap {"low", "medium", "high"} # {} \/ i \in rated})

(* Each policy of each sign-in, and those with one of these results.       *)
Evaluations == UNION {{<<i, j>> : j \in DOMAIN seen[i].policies} : i \in InWindow}
Evaluated(results) ==
  {e \in Evaluations : seen[e[1]].policies[e[2]].result \in results}

(* A count of the risky sign-ins is certain when whichever of the hidden   *)
(* levels stand for a risk gives it.                                       *)
RiskIsCertain(n) ==
  IF n # Unknown
  THEN \A rated \in SUBSET Hidden : RiskyIf(rated) = n
  ELSE \E rated \in SUBSET Hidden : RiskyIf(rated) # RiskyIf({})

PoliciesAreCertain(of, policies) ==
  IF \E i \in InWindow : seen[i].omitted
  THEN policies = Unknown /\ \A c \in PolicyCounts : of[c] = Unknown
  ELSE /\ of["applied_policy_evaluations_count"] = Cardinality(Evaluations)
       /\ of["applied_policy_success_count"] = Cardinality(Evaluated({"success"}))
       /\ of["applied_policy_failure_count"] = Cardinality(Evaluated({"failure"}))
       /\ of["applied_policy_not_applied_count"] =
            Cardinality(Evaluated({"notApplied", "notEnabled"}))
       /\ of["applied_policy_report_only_fail_count"] =
            Cardinality(Evaluated({"reportOnlyFailure"}))
       /\ policies <= of["applied_policy_evaluations_count"]

(* A count is written just when it is certain.  That of the risky sign-ins *)
(* leaves out nothing for a hidden level of a sign-in that is risky        *)
(* anyhow, which is not what is said of it (HiddenLevelLeavesTheCountOut), *)
(* and is left out for one of any other.  Those of the applied policies    *)
(* are over every sign-in of the window or are left out together, and an   *)
(* evaluation is counted for each policy of each sign-in, also when a      *)
(* policy is there twice (summarizeSignIns).                               *)
WrittenCountsAreCertain ==
  block # Unwritten =>
    /\ RiskIsCertain(block.counts["risky_sign_ins_count"])
    /\ PoliciesAreCertain(block.counts, block.policies)

(* What the comment of summarizeSignIns, "unrated is true when a sign-in   *)
(* has a hidden risk level", and the schema say: the count of the risky    *)
(* sign-ins is left out when a level of a sign-in is hidden.               *)
HiddenLevelLeavesTheCountOut ==
  block # Unwritten /\ Hidden # {} => block.counts["risky_sign_ins_count"] = Unknown

(* The codes that come before this one, by their sign-ins and their order. *)
Ahead(c) == {d \in MetCodes : Times(d) > Times(c) \/ (Times(d) = Times(c) /\ d < c)}
Place(c) == 1 + Cardinality(Ahead(c))

(* The listed codes are the most frequent ones, each with its number of    *)
(* sign-ins, and the same in every run: each is where the number of codes  *)
(* that come before it puts it, whatever order the map was walked in       *)
(* (topFailureCodes).                                                      *)
TopCodesAreDetermined ==
  block # Unwritten =>
    /\ \A c \in MetCodes :
         Place(c) <= TopLimit => block.top[Place(c)] = [code |-> c, count |-> Times(c)]
    /\ Len(block.top) = Shorter(TopLimit, Cardinality(MetCodes))
=============================================================================
