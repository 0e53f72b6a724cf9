--------------------------- MODULE PaymentLifecycle ---------------------------
(***************************************************************************)
(* What a client may see one payment do through GET /v1/payments/:id:      *)
(* which moves its status may make and what they do to the captured and    *)
(* refunded amounts.  It knows nothing of stores, rails, threads or        *)
(* webhooks.  It is drawn from the code: the refund and the dispute of a   *)
(* settled payment, which the documentation promises, are not among the    *)
(* moves (see PaymentClaims).  A move is a relation between the payment    *)
(* before (p) and after (q).                                               *)
(***************************************************************************)
EXTENDS Integers

CONSTANTS Payments   \* payment ids

VARIABLE payment     \* id -> [status, amount, captured, refunded]

Unknown == [status |-> "unknown", amount |-> 0, captured |-> 0, refunded |-> 0]

-----------------------------------------------------------------------------
Keeps(p, q) == q.amount = p.amount /\ q.captured = p.captured /\ q.refunded = p.refunded

Moves(p, q, from, to) == p.status = from /\ q.status = to

\* A payment appears waiting for 3DS, authorized or failed with nothing
\* captured, or, on an instant rail, captured.
Open(p, q) ==
  /\ p = Unknown
  /\ q.amount > 0
  /\ q.refunded = 0
  /\ \/ q.status \in {"3ds_pending", "authorized", "failed"} /\ q.captured = 0
     \/ q.status = "captured" /\ q.captured >= 0

Resume(p, q) ==
  /\ Moves(p, q, "3ds_pending", "authorized") \/ Moves(p, q, "3ds_pending", "failed")
  /\ Keeps(p, q)

\* Captures add up: each one takes something, and the one that reaches the
\* authorized amount ends the authorization.
CapturePart(p, q) ==
  /\ Moves(p, q, "authorized", "authorized")
  /\ q.amount = p.amount /\ q.refunded = p.refunded
  /\ p.captured < q.captured /\ q.captured < p.amount

CaptureLast(p, q) ==
  /\ Moves(p, q, "authorized", "captured")
  /\ q.amount = p.amount /\ q.refunded = p.refunded
  /\ p.captured < q.captured /\ q.captured = p.amount

Void(p, q) == Moves(p, q, "authorized", "voided") /\ Keeps(p, q)

Settle(p, q) == Moves(p, q, "captured", "settled") /\ Keeps(p, q)

\* One refund, full or partial, and it is the last move.
Refund(p, q) ==
  /\ Moves(p, q, "captured", "refunded")
  /\ q.amount = p.amount /\ q.captured = p.captured
  /\ p.refunded = 0 /\ 0 <= q.refunded /\ q.refunded <= p.captured

Dispute(p, q) == Moves(p, q, "captured", "charged_back") /\ Keeps(p, q)

Decide(p, q) ==
  /\ \/ Moves(p, q, "charged_back", "chargeback_won")
     \/ Moves(p, q, "charged_back", "chargeback_lost")
  /\ Keeps(p, q)

Move(p, q) ==
  \/ Open(p, q)   \/ Resume(p, q) \/ CapturePart(p, q) \/ CaptureLast(p, q)
  \/ Void(p, q)   \/ Settle(p, q) \/ Refund(p, q)
  \/ Dispute(p, q) \/ Decide(p, q)

-----------------------------------------------------------------------------
Init == payment = [id \in Payments |-> Unknown]

Next == \E id \in Payments :
          /\ payment' = [payment EXCEPT ![id] = payment'[id]]
          /\ Move(payment[id], payment'[id])

Spec == Init /\ [][Next]_payment
=============================================================================
