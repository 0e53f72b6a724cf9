---------------------------- MODULE PaymentDomain ----------------------------
(***************************************************************************)
(* The domain package: the status machine of a payment intent, its record  *)
(* and the 64-bit arithmetic its amounts are kept in.  Nothing here has    *)
(* state; PaymentService is built from these operators.                    *)
(***************************************************************************)
EXTENDS Integers

CONSTANT MaxInt   \* the largest signed machine integer (2^63 - 1 in the code)

ASSUME MaxIntAssumption == MaxInt \in Nat \ {0}

-----------------------------------------------------------------------------
(* Amounts.                                                                *)

Int64 == (-MaxInt - 1) .. MaxInt

\* The sum or difference of two machine integers, as the hardware leaves it.
Wrap(n) == IF n > MaxInt THEN n - 2 * (MaxInt + 1)
           ELSE IF n < -MaxInt - 1 THEN n + 2 * (MaxInt + 1)
           ELSE n

-----------------------------------------------------------------------------
(* Rails and statuses.                                                     *)

Rail == {"card", "ach", "sepa", "pix", "upi"}

IsInstant(r) == r \in {"pix", "upi"}

Status == {"intent", "authorized", "3ds_pending", "captured", "settled",
           "refunding", "refunded", "voided", "failed",
           "charged_back", "chargeback_won", "chargeback_lost"}

\* The states Transition refuses to leave.  "settled" is one of them although
\* CanTransition lists exits from it.
IsTerminal(s) == s \in {"settled", "refunded", "voided", "failed",
                        "chargeback_won", "chargeback_lost"}

CanTransition(s, next) ==
  \/ s = "intent"       /\ next \in {"authorized", "3ds_pending", "failed"}
  \/ s = "authorized"   /\ next \in {"captured", "3ds_pending", "voided", "failed"}
  \/ s = "3ds_pending"  /\ next \in {"authorized", "failed"}
  \/ s = "captured"     /\ next \in {"settled", "refunding", "refunded", "charged_back"}
  \/ s = "refunding"    /\ next \in {"refunded", "failed"}
  \/ s = "settled"      /\ next \in {"refunding", "refunded", "charged_back"}
  \/ s = "charged_back" /\ next \in {"chargeback_won", "chargeback_lost"}

-----------------------------------------------------------------------------
(* The intent record.  `history' keeps which lifecycle events the intent   *)
(* carries, not their order, time or text; the "webhook" entries, which    *)
(* nothing reads back, are left out.  A transition appends an event named  *)
(* after the new status.                                                   *)

EventType == Status \cup {"created", "reconciliation_break"}

Intent == [rail     : Rail,
           amount   : Int64,
           status   : Status,
           captured : Int64,
           refunded : Int64,
           settled  : Int64,
           history  : SUBSET EventType]

AppendEvent(i, e) == [i EXCEPT !.history = @ \cup {e}]

\* Transition returns nil exactly in this case ...
TransitionAllowed(i, next) == ~IsTerminal(i.status) /\ CanTransition(i.status, next)

\* ... and then leaves this record; otherwise it leaves the record alone.
Transition(i, next) ==
  IF TransitionAllowed(i, next)
  THEN AppendEvent([i EXCEPT !.status = next], next)
  ELSE i

-----------------------------------------------------------------------------
(* Dispute stages of a chargeback row.                                     *)

ChargebackStage == {"opened", "evidence", "arbitration", "reversal"}
=============================================================================
