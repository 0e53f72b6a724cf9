---------------------------- MODULE PaymentClaims ----------------------------
(***************************************************************************)
(* What the repository's plan and comments say of the service and what     *)
(* the code does not do.  Each is checked by a run of its own, without any *)
(* fault, and TLC shows how the code breaks it.                            *)
(***************************************************************************)
EXTENDS PaymentService

\* "Partial refunds sum correctly and never exceed the captured amount."  On a
\* settled intent Refund has the rail pay and inserts the refund row, then the
\* transition fails and Postgres rolls back refunded_amount, so the check
\* passes again.
RefundRowsWithinCapture ==
  \A id \in stored : rows[id]["refunds"] <= intents[id].captured

\* A failed or timed-out challenge moves the intent to failed.  ThreeDSChallenge
\* audits the failure and returns an error, on which Postgres rolls back.
ChallengeFailureSticks ==
  \A id \in stored : "failed" \in audit[id] => intents[id].status = "failed"

\* "A chargeback opened on a settled intent moves it to charged_back and records
\* the dispute."  Transition refuses to leave settled, which is terminal, so a
\* first delivery ends in 500 with the row inserted.  When the case has a row, from
\* that delivery or from a later stage that came first, the webhook only updates
\* it and is acknowledged with 200.
AcknowledgedDisputeMoves ==
  [][\A t \in Threads :
       /\ Doing(t, "update_case") /\ Head(todo[t]).row.stage = "opened"
       /\ todo' = [todo EXCEPT ![t] = << >>]
       => \A id \in stored : HasCase(id, Head(todo[t]).row.case) =>
                             intents'[id].status # "settled"]_vars

\* Void "cancels a previously authorized intent that has not yet been captured".
\* Its guard looks at the status alone, and a partial capture leaves the intent
\* authorized.
VoidOnlyUncaptured ==
  \A id \in stored : intents[id].status = "voided" => intents[id].captured = 0
=============================================================================
