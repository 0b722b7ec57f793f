------------------------------- MODULE Policy -------------------------------
(***************************************************************************)
(* The policy layer of internal/policy: the secret scanner and the         *)
(* evaluator that turns a scan, the request's classification and the       *)
(* project's classification into one of four verdicts.                     *)
(*                                                                         *)
(* A request body is a set of fragments.  All the policy tells apart about *)
(* a fragment is which scan rule it matches, so a fragment is a member of  *)
(* Redactable (API keys, tokens), of Blocking (private keys), or of        *)
(* neither.  Replacing a match by its placeholder removes the fragment:    *)
(* no placeholder of the default rules matches a rule.                     *)
(***************************************************************************)
EXTENDS Integers

CONSTANTS
    Redactable,     \* fragments a rule with FindingActionRedact matches
    Blocking,       \* fragments a rule with FindingActionBlock matches
    RemoteTopK      \* RemoteRetrievalTopK of MergeRuntimePolicy (2 in the code)

ASSUME PolicyAssumption == RemoteTopK \in Nat \ {0}

Verdicts == {"allow", "redact", "block", "local_only"}
Phases == {"preflight", "egress"}

Secret == Redactable \cup Blocking

(* A scanner that reports its findings and leaves them in the body.        *)
ScanKeepsText(body) ==
    [findings |-> body \cap Secret,
     redacted |-> body,
     hasBlocking |-> body \cap Blocking # {}]

(* Scanner.Scan: the findings, the body with every finding replaced, and   *)
(* whether a finding blocks.                                               *)
Scan(body) ==
    [findings |-> body \cap Secret,
     redacted |-> body \ Secret,
     hasBlocking |-> body \cap Blocking # {}]

(* An evaluator that trusts the classifier's label over the project's      *)
(* declared classification.                                                *)
VerdictOfLabelOnly(scan, labelTradeSecret, projectTradeSecret) ==
    IF scan.hasBlocking THEN "block"
    ELSE IF labelTradeSecret THEN "local_only"
    ELSE IF scan.findings # {} THEN "redact"
    ELSE "allow"

(* The verdict of Evaluate.  A nil classification and one whose            *)
(* sensitivity is not trade_secret are the same to the evaluator.          *)
(* force_local_for_trade_secret only chooses the reason of the local_only  *)
(* verdict the classifier alone already gives, so it is not a parameter.   *)
VerdictOf(scan, labelTradeSecret, projectTradeSecret) ==
    IF scan.hasBlocking THEN "block"
    ELSE IF labelTradeSecret \/ projectTradeSecret THEN "local_only"
    ELSE IF scan.findings # {} THEN "redact"
    ELSE "allow"

(* DefaultEvaluator.Evaluate.  "body" is the outbound body the verdict     *)
(* comes with: redacted whenever there are findings.  "refs" is what is    *)
(* left of the request's retrieval metadata: re-reading the request from   *)
(* the redacted body (syncRequestFromBody) drops it.  "minimize" is the    *)
(* retrieval plan, only set on an allowed request in preflight.            *)
Evaluate(phase, body, refs, labelTradeSecret, projectTradeSecret) ==
    LET scan == Scan(body)
        verdict == VerdictOf(scan, labelTradeSecret, projectTradeSecret)
    IN  [verdict |-> verdict,
         body |-> scan.redacted,
         refs |-> IF scan.findings = {} THEN refs ELSE {},
         minimize |-> verdict = "allow" /\ phase = "preflight"]

=============================================================================
