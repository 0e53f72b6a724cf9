------------------------- MODULE PaymentLedgerProofs --------------------------
(***************************************************************************)
(* The books and the rail's ledger move together.  What a step may do is   *)
(* classified once, by what it does to one intent and to the ledger of its *)
(* payment; the properties that relate the two, and the refinement of      *)
(* PaymentLifecycle, follow from the classification.                       *)
(***************************************************************************)
EXTENDS PaymentSafetyProofs

-----------------------------------------------------------------------------
(* What a call of UpdateIntent does to the intent i and to the ledger g of *)
(* its payment: c is the record the callback leaves, h the ledger after.   *)

SameMoney(i, c) == c.captured = i.captured /\ c.refunded = i.refunded /\ c.settled = i.settled

Advances(i, c, s) == c.status = s /\ c.history = i.history \cup {s}

\* A capture books what the rail captures, within the authorized amount, and
\* the one that reaches it ends the authorization.
Captures(i, g, c, h) ==
  /\ i.status = "authorized" /\ i.captured < c.captured /\ c.captured <= i.amount
  /\ c.status = IF c.captured = i.amount THEN "captured" ELSE "authorized"
  /\ c.history = i.history \cup {"captured"}
  /\ c.refunded = i.refunded /\ c.settled = i.settled
  /\ h.captured = g.captured + (c.captured - i.captured)
  /\ h.refunded = g.refunded /\ h.done = g.done

Voids(i, g, c, h) ==
  /\ i.status = "authorized" /\ Advances(i, c, "voided") /\ SameMoney(i, c)
  /\ h.captured = g.captured /\ h.refunded = g.refunded

\* A refund; from settled it fails after the rail has refunded.  One of 0 has
\* the rail cancel the payment, and happens only if nothing was captured.
Refunds(i, g, c, h, ok) ==
  /\ c.captured = i.captured /\ c.settled = i.settled
  /\ \/ i.status = "captured" /\ ok /\ c.status = "refunded"
        /\ c.history = i.history \cup {"refunding", "refunded"}
     \/ i.status = "settled" /\ ~ok /\ c.status = i.status /\ c.history = i.history
  /\ h.captured = g.captured
  /\ i.refunded = 0 => 0 <= c.refunded /\ c.refunded <= i.captured
  /\ RailFits /\ 0 <= i.refunded => 0 <= c.refunded /\ c.refunded <= i.captured
  /\ \/ h.done = g.done
     \/ i.captured = 0 /\ h.refunded = g.refunded
  /\ i.captured = 0 /\ i.refunded = 0 => h.refunded = g.refunded

FailsChallenge(i, g, c, h) ==
  /\ i.status = "3ds_pending" /\ Advances(i, c, "failed") /\ SameMoney(i, c)
  /\ h.captured = g.captured /\ h.refunded = g.refunded /\ h.done \subseteq g.done \cup {"authorize"}

PassesChallenge(i, g, c, h) ==
  /\ i.status = "3ds_pending" /\ Advances(i, c, "authorized") /\ SameMoney(i, c)
  /\ h.captured = g.captured /\ h.refunded = g.refunded /\ h.done \subseteq g.done \cup {"authorize"}

Settles(i, c) ==
  /\ i.status = "captured" /\ c.status = "settled"
  /\ c.captured = i.captured /\ c.refunded = i.refunded
  /\ c.history \in {i.history \cup {"settled"}, i.history \cup {"settled", "reconciliation_break"}}
  /\ c.settled # c.captured => "reconciliation_break" \in c.history

Disputes(i, c) ==
  /\ \/ i.status = "captured" /\ Advances(i, c, "charged_back")
     \/ /\ i.status = "charged_back"
        /\ Advances(i, c, "chargeback_won") \/ Advances(i, c, "chargeback_lost")
  /\ SameMoney(i, c)

\* The calls of a request and, once its case is in the chargebacks table, of a
\* dispute.  ok says whether the callback returns nil, `to' what it audits.
Requested(i, g, c, h, ok, to) ==
  /\ c.rail = i.rail /\ c.amount = i.amount
  /\ \/ Captures(i, g, c, h) /\ ok /\ to = {c.status}
     \/ Voids(i, g, c, h) /\ ok /\ to = {"voided"}
     \/ Refunds(i, g, c, h, ok) /\ to = IF ok THEN {"refunded"} ELSE {}
     \/ FailsChallenge(i, g, c, h) /\ ~ok /\ to = {"failed"}
     \/ PassesChallenge(i, g, c, h) /\ ok /\ to = {"authorized"}
     \/ Settles(i, c) /\ h = g /\ ok /\ to = {"settled"}

Disputed(i, g, c, h, ok, to) ==
  /\ c.rail = i.rail /\ c.amount = i.amount /\ h = g
  /\ \/ Disputes(i, c) /\ ok /\ to = {c.status}
     \/ i.status = "settled" /\ c = i /\ ~ok /\ to = {}

-----------------------------------------------------------------------------
\* Transition records the new state in the history.
LEMMA TransitionHistory ==
  ASSUME NEW i \in Intent, NEW next \in Status
  PROVE  Transition(i, next).history =
           IF TransitionAllowed(i, next) THEN i.history \cup {next} ELSE i.history
BY DEF Transition, AppendEvent, Intent

\* A transition that Transition allows, and nothing else.
LEMMA AllowedAdvances ==
  ASSUME NEW i \in Intent, NEW next \in Status, TransitionAllowed(i, next)
  PROVE  LET c == Transition(i, next)
         IN /\ c \in Intent /\ c.rail = i.rail /\ c.amount = i.amount
            /\ SameMoney(i, c) /\ Advances(i, c, next)
BY TransitionType, TransitionHistory DEF SameMoney, Advances

LEMMA CaptureEffect ==
  ASSUME NEW i \in Intent, NEW g \in Ledger, NEW a \in CaptureAmounts(i),
         Sound(i, g), CaptureAllowed(i, a)
  PROVE  LET c == ApplyCapture(i, a)
         IN Requested(i, g, c, RailCapture(g, a), TRUE, {c.status})
<1> DEFINE c == [i EXCEPT !.captured = Wrap(@ + a)]
           f == ApplyCapture(i, a)
           h == RailCapture(g, a)
<1>1. /\ i.amount \in Int /\ i.captured \in Int
      /\ 0 < i.amount /\ 2 * i.amount <= MaxInt /\ MaxInt \in Int
      /\ 0 <= i.captured /\ i.captured < i.amount
  BY MaxIntAssumption DEF Sound, CaptureAllowed, Intent, Int64
<1>2. Wrap(i.amount - i.captured) = i.amount - i.captured
  BY <1>1, WrapFits
<1>3. a \in Int /\ a \in Int64 /\ 0 < a /\ a <= i.amount
  BY <1>1, <1>2, RequestAmountTypes, MaxIntAssumption DEF CaptureAmounts, Int64
<1>4. Wrap(i.captured + a) = i.captured + a /\ i.captured + a <= i.amount
  BY <1>1, <1>3, WrapFits DEF CaptureAllowed
<1>5. Wrap(i.captured + a) \in Int64
  BY <1>3, WrapType DEF Intent
<1>6. /\ c \in Intent /\ c.captured = i.captured + a /\ c.status = "authorized"
      /\ c.rail = i.rail /\ c.amount = i.amount /\ c.refunded = i.refunded
      /\ c.settled = i.settled /\ c.history = i.history
  BY <1>4, <1>5 DEF Intent, CaptureAllowed
<1>7. f = IF c.captured >= c.amount THEN Transition(c, "captured") ELSE AppendEvent(c, "captured")
  BY DEF ApplyCapture
<1>8. h.captured = g.captured + a /\ h.refunded = g.refunded /\ h.done = g.done
      /\ g.captured \in Int
  BY DEF RailCapture, Ledger
<1> HIDE DEF c, h
<1>9. TransitionAllowed(c, "captured") /\ "captured" \in Status
  BY <1>6 DEF TransitionAllowed, IsTerminal, CanTransition, Status
<1>10. /\ f.captured = c.captured /\ f.rail = c.rail /\ f.amount = c.amount
       /\ f.refunded = c.refunded /\ f.settled = c.settled
       /\ f.status = IF c.captured >= c.amount THEN "captured" ELSE "authorized"
       /\ f.history = c.history \cup {"captured"}
  <2>1. CASE c.captured >= c.amount
    BY <1>6, <1>7, <1>9, <2>1, AllowedAdvances DEF SameMoney, Advances
  <2>2. CASE ~(c.captured >= c.amount)
    BY <1>6, <1>7, <2>2 DEF AppendEvent, Intent
  <2>3. QED
    BY <2>1, <2>2
<1> HIDE DEF f
<1>11. Captures(i, g, f, h)
  BY <1>1, <1>3, <1>4, <1>6, <1>8, <1>10 DEF Captures, CaptureAllowed
<1>12. QED
  BY <1>6, <1>10, <1>11 DEF Requested, f, h

LEMMA VoidEffect ==
  ASSUME NEW i \in Intent, NEW g \in Ledger, i.status = "authorized"
  PROVE  Requested(i, g, Transition(i, "voided"), RailVoid(g), TRUE, {"voided"})
<1> DEFINE c == Transition(i, "voided")
<1>1. TransitionAllowed(i, "voided") /\ "voided" \in Status
  BY DEF TransitionAllowed, IsTerminal, CanTransition, Status
<1>2. c.rail = i.rail /\ c.amount = i.amount /\ SameMoney(i, c) /\ Advances(i, c, "voided")
  BY <1>1, AllowedAdvances
<1>3. RailVoid(g).captured = g.captured /\ RailVoid(g).refunded = g.refunded
  BY DEF RailVoid, RailRefund, Ledger
<1> HIDE DEF c
<1>4. Voids(i, g, c, RailVoid(g))
  BY <1>2, <1>3 DEF Voids
<1>5. QED
  BY <1>2, <1>4 DEF Requested, c

LEMMA RefundEffect ==
  ASSUME NEW i \in Intent, NEW g \in Ledger, NEW a \in RefundAmounts(i),
         Sound(i, g), RefundAllowed(i, a), g.refunded + a <= RailLimit
  PROVE  LET ok == TransitionAllowed(i, "refunding")
         IN Requested(i, g, ApplyRefund(i, a), RailRefund(g, a), ok,
                   IF ok THEN {"refunded"} ELSE {})
<1> DEFINE ok == TransitionAllowed(i, "refunding")
           c == [i EXCEPT !.refunded = Wrap(@ + a)]
           d == Transition(c, "refunding")
           f == Transition(d, "refunded")
           h == RailRefund(g, a)
<1>1. /\ i.captured \in Int /\ i.refunded \in Int64 /\ i.refunded \in Int
      /\ MaxInt \in Nat /\ 0 <= i.captured /\ i.captured <= MaxInt
  BY MaxIntAssumption DEF Sound, Intent, Int64
<1>2. a \in Int64 /\ a \in Int /\ 0 <= a /\ a <= MaxInt
  BY <1>1, RequestAmountTypes, MaxIntAssumption DEF RefundAmounts, Int64
<1>3. a = 0 => i.captured = 0
  BY RequestAmountTypes, MaxIntAssumption DEF RefundAmounts, Int64
<1>4. i.refunded = 0 => Wrap(i.refunded + a) = a /\ a <= i.captured
  BY <1>1, <1>2, WrapFits DEF RefundAllowed
<1>5. Wrap(i.refunded + a) \in Int64
  BY <1>1, <1>2, WrapType
<1>6. /\ c \in Intent /\ c.rail = i.rail /\ c.amount = i.amount /\ c.captured = i.captured
      /\ c.status = i.status /\ c.refunded = Wrap(i.refunded + a) /\ c.settled = i.settled
      /\ c.history = i.history
  BY <1>5 DEF Intent
<1>7. /\ h.captured = g.captured
      /\ a = 0 => h.refunded = g.refunded
      /\ a # 0 => h.done = g.done
  BY DEF RailRefund, Ledger
<1>8. ApplyRefund(i, a) = f
  BY DEF ApplyRefund
<1> HIDE DEF c, h
<1>9. TransitionAllowed(c, "refunding") <=> ok
  BY <1>6 DEF TransitionAllowed
<1>10. "refunding" \in Status /\ "refunded" \in Status
  BY DEF Status
<1>11. /\ d \in Intent /\ d.rail = i.rail /\ d.amount = i.amount /\ d.captured = i.captured
       /\ d.refunded = c.refunded /\ d.settled = i.settled
       /\ d.status = IF ok THEN "refunding" ELSE i.status
       /\ d.history = IF ok THEN i.history \cup {"refunding"} ELSE i.history
  BY <1>6, <1>9, <1>10, TransitionType, TransitionHistory
<1> HIDE DEF d
<1>12. /\ f.rail = i.rail /\ f.amount = i.amount /\ f.captured = i.captured
       /\ f.refunded = c.refunded /\ f.settled = i.settled
       /\ f.status = IF TransitionAllowed(d, "refunded") THEN "refunded" ELSE d.status
       /\ f.history = IF TransitionAllowed(d, "refunded") THEN d.history \cup {"refunded"}
                      ELSE d.history
  BY <1>10, <1>11, TransitionType, TransitionHistory
<1> HIDE DEF f
<1>13. \/ i.status = "captured" /\ ok /\ TransitionAllowed(d, "refunded")
       \/ i.status = "settled" /\ ~ok /\ ~TransitionAllowed(d, "refunded")
  BY <1>11 DEF TransitionAllowed, IsTerminal, CanTransition, RefundAllowed
<1>14. \/ i.status = "captured" /\ ok /\ f.status = "refunded"
          /\ f.history = i.history \cup {"refunding", "refunded"}
       \/ i.status = "settled" /\ ~ok /\ f.status = i.status /\ f.history = i.history
  BY <1>11, <1>12, <1>13
<1>15. i.captured = 0 /\ i.refunded = 0 => h.refunded = g.refunded
  BY <1>2, <1>4, <1>7
<1>16. i.refunded = 0 => 0 <= f.refunded /\ f.refunded <= i.captured
  BY <1>2, <1>4, <1>6, <1>12
<1>17. ASSUME RailFits, 0 <= i.refunded
       PROVE  0 <= f.refunded /\ f.refunded <= i.captured
  <2>1. i.refunded <= g.refunded /\ g.refunded \in Int /\ RailLimit \in Int /\ RailLimit <= MaxInt
    BY <1>17, ServiceAssumption DEF Sound, Ledger, RailFits
  <2>2. 0 <= i.refunded + a /\ i.refunded + a <= MaxInt
    BY <1>1, <1>2, <1>17, <2>1
  <2>3. Wrap(i.refunded + a) = i.refunded + a
    BY <1>1, <1>2, <2>2, WrapFits
  <2>4. QED
    BY <1>6, <1>12, <2>2, <2>3 DEF RefundAllowed
<1> HIDE DEF ok
<1>18. Refunds(i, g, f, h, ok)
  BY <1>3, <1>7, <1>12, <1>14, <1>15, <1>16, <1>17 DEF Refunds
<1>19. QED
  BY <1>8, <1>12, <1>18 DEF Requested, ok, h

LEMMA ChallengeEffect ==
  ASSUME NEW i \in Intent, NEW g \in Ledger, i.status = "3ds_pending"
  PROVE  /\ Requested(i, g, Transition(i, "failed"), g, FALSE, {"failed"})
         /\ Requested(i, g, Transition(i, "failed"), RailAuthorize(g), FALSE, {"failed"})
         /\ Requested(i, g, Transition(i, "authorized"), RailAuthorize(g), TRUE, {"authorized"})
<1> DEFINE c == Transition(i, "failed")
           d == Transition(i, "authorized")
           h == RailAuthorize(g)
<1>1. /\ TransitionAllowed(i, "failed") /\ "failed" \in Status
      /\ TransitionAllowed(i, "authorized") /\ "authorized" \in Status
  BY DEF TransitionAllowed, IsTerminal, CanTransition, Status
<1>2. /\ c.rail = i.rail /\ c.amount = i.amount /\ SameMoney(i, c) /\ Advances(i, c, "failed")
      /\ d.rail = i.rail /\ d.amount = i.amount /\ SameMoney(i, d) /\ Advances(i, d, "authorized")
  BY <1>1, AllowedAdvances
<1>3. h.captured = g.captured /\ h.refunded = g.refunded /\ h.done = g.done \cup {"authorize"}
  BY DEF RailAuthorize, Ledger
<1> HIDE DEF c, d, h
<1>4. FailsChallenge(i, g, c, g) /\ FailsChallenge(i, g, c, h) /\ PassesChallenge(i, g, d, h)
  BY <1>2, <1>3 DEF FailsChallenge, PassesChallenge
<1>5. QED
  BY <1>2, <1>4 DEF Requested, c, d, h

LEMMA SettlementEffect ==
  ASSUME NEW i \in Intent, NEW g \in Ledger, NEW a \in Int64, i.status = "captured"
  PROVE  Requested(i, g, ApplySettlement(i, a), g, TRUE, {"settled"})
<1> DEFINE c == [i EXCEPT !.settled = Wrap(@ + a)]
           s == Transition(c, "settled")
           f == ApplySettlement(i, a)
<1>1. /\ c \in Intent /\ c.rail = i.rail /\ c.amount = i.amount /\ c.captured = i.captured
      /\ c.refunded = i.refunded /\ c.status = "captured" /\ c.history = i.history
  BY WrapType DEF Intent
<1>2. f = IF s.settled # s.captured THEN AppendEvent(s, "reconciliation_break") ELSE s
  BY DEF ApplySettlement
<1> HIDE DEF c
<1>3. TransitionAllowed(c, "settled") /\ "settled" \in Status
  BY <1>1 DEF TransitionAllowed, IsTerminal, CanTransition, Status
<1>4. /\ s \in Intent /\ s.rail = i.rail /\ s.amount = i.amount /\ s.captured = i.captured
      /\ s.refunded = i.refunded /\ s.status = "settled"
      /\ s.history = i.history \cup {"settled"}
  BY <1>1, <1>3, AllowedAdvances DEF SameMoney, Advances
<1> HIDE DEF s, f
<1>5. /\ f.rail = i.rail /\ f.amount = i.amount /\ f.captured = i.captured
      /\ f.refunded = i.refunded /\ f.status = "settled" /\ f.settled = s.settled
      /\ f.history = IF s.settled # s.captured THEN s.history \cup {"reconciliation_break"}
                     ELSE s.history
  BY <1>2, <1>4 DEF AppendEvent, Intent
<1>6. Settles(i, f)
  BY <1>4, <1>5 DEF Settles
<1>7. QED
  BY <1>5, <1>6 DEF Requested, f

LEMMA DisputeEffect ==
  ASSUME NEW i \in Intent, NEW g \in Ledger, NEW to \in Status,
         \/ i.status \in {"captured", "settled"} /\ to = "charged_back"
         \/ i.status = "charged_back" /\ to \in {"chargeback_won", "chargeback_lost"}
  PROVE  LET ok == TransitionAllowed(i, to)
         IN Disputed(i, g, Transition(i, to), g, ok, IF ok THEN {to} ELSE {})
<1> DEFINE c == Transition(i, to)
           ok == TransitionAllowed(i, to)
<1>1. CASE i.status = "settled"
  <2>1. ~ok /\ c = i
    BY <1>1 DEF TransitionAllowed, IsTerminal, Transition
  <2>2. QED
    BY <1>1, <2>1 DEF Disputed
<1>2. CASE i.status # "settled"
  <2>1. ok
    BY <1>2 DEF TransitionAllowed, IsTerminal, CanTransition
  <2>2. c.rail = i.rail /\ c.amount = i.amount /\ SameMoney(i, c) /\ Advances(i, c, to)
    BY <2>1, AllowedAdvances
  <2> HIDE DEF c
  <2>3. Disputes(i, c) /\ c.status = to
    BY <1>2, <2>2 DEF Disputes, Advances
  <2>4. QED
    BY <2>1, <2>2, <2>3 DEF Disputed, c
<1>3. QED
  BY <1>1, <1>2

-----------------------------------------------------------------------------
(* The shapes a step of a thread can have.                                 *)

\* What CreateIntent is about to store.
Fresh(i) ==
  /\ 0 < i.amount /\ i.refunded = 0 /\ i.settled = 0
  /\ \/ i.status \in {"3ds_pending", "authorized", "failed"} /\ i.captured = 0
     \/ i.status = "captured" /\ 0 <= i.captured
  /\ i.status \in i.history /\ "settled" \notin i.history

\* The thread will store i, insert the row of what it has captured and audit
\* its status.
StoresAndEmits(q, id, i) ==
  LET create == [op |-> "create", id |-> id, intent |-> i]
      row == [op |-> "add_row", id |-> id, table |-> "captures", amount |-> i.captured]
      emit == [op |-> "emit", id |-> id, to |-> i.status]
  IN \/ q = << create, emit >> /\ i.captured = 0
     \/ q = << create, row, emit >>

\* CreateIntent, with the draft i, the ledger g after the rail's answer and
\* the states e audited before the intent is stored.  Without a fault the
\* rail has captured what the draft books.
Creates(t, id, i, g, e) ==
  /\ Idle(t) /\ id \notin issued /\ issued' = issued \cup {id}
  /\ Fresh(i)
  /\ \E q : StoresAndEmits(q, id, i) /\ todo' = [todo EXCEPT ![t] = q]
  /\ gateway' = [gateway EXCEPT ![id] = g]
  /\ g.done \subseteq gateway[id].done \cup {"authorize"}
  /\ i.status = "3ds_pending" => g.captured = gateway[id].captured
  /\ \/ faults' = faults /\ g.captured = gateway[id].captured + i.captured
     \/ faults' = faults + 1
  /\ audit' = [audit EXCEPT ![id] = @ \cup e] /\ e \subseteq i.history
  /\ UNCHANGED <<stored, intents, rows, chargebacks, lapsed>>

\* What the store and the audit stream keep of a call of UpdateIntent.
Writes(id, c, ok, to) ==
  \/ /\ intents' = [intents EXCEPT ![id] = c] /\ (StoreKind = "mem" \/ ok)
     /\ audit' = [audit EXCEPT ![id] = @ \cup to]
     /\ faults' \in {faults, faults + 1}
  \/ /\ UNCHANGED intents
     /\ \/ faults' = faults + 1
        \/ StoreKind = "postgres" /\ ~ok /\ faults' = faults
     /\ StoreKind = "mem" => UNCHANGED audit

\* The program q is what the step leaves on thread t.
Leaves(t, q) ==
  /\ todo' = [todo EXCEPT ![t] = q]
  /\ \/ Idle(t) /\ \A k \in DOMAIN q : q[k].op = "add_row"
     \/ ~Idle(t) /\ q = Tail(todo[t])
     \/ ~Idle(t) /\ q = << >> /\ StoreKind = "postgres"

\* A call of UpdateIntent, by a request or by a chargeback webhook.
Updates(t, id, c, h, ok, to) ==
  /\ id \in stored
  /\ \/ Idle(t) /\ Requested(intents[id], gateway[id], c, h, ok, to)
     \/ /\ Disputed(intents[id], gateway[id], c, h, ok, to)
        /\ \/ Doing(t, "open_case") /\ Head(todo[t]).id = id
           \/ Doing(t, "close_case") /\ intents[id].status = "charged_back"
  /\ id \in lapsed /\ intents[id].status = "3ds_pending" =>
       c.status = "failed" /\ h = gateway[id]
  /\ gateway' = [gateway EXCEPT ![id] = h]
  /\ Writes(id, c, ok, to)
  /\ \E q : Leaves(t, q)
  /\ lapsed' \in {lapsed, lapsed \cup {id}}
  /\ UNCHANGED <<issued, stored, rows, chargebacks>>

\* A dispute step that finds nothing to move.
DisputeIgnored(t) ==
  /\ Doing(t, "open_case") \/ Doing(t, "close_case")
  /\ PopOp(t)
  /\ UNCHANGED <<issued, stored, intents, rows, chargebacks, audit, gateway, lapsed, faults>>

\* The steps that touch neither the intents nor the rail.
Passes(t) ==
  \/ AddRow(t) \/ EmitTransition(t) \/ AddChargeback(t) \/ UpdateChargeback(t)
  \/ DisputeIgnored(t)
  \/ \E id \in Intents, c \in Cases, s \in ChargebackStage, a \in WebhookAmounts :
       \E o \in Outcomes({"sql_error"}) : ChargebackWebhook(t, id, c, s, a, o)
  \/ InsertLost(t) \/ Crash(t)

\* CreateIntent, of any payment.
Drafts(t) ==
  \E id \in Intents, i \in Intent, g \in Ledger, e \in SUBSET Status : Creates(t, id, i, g, e)

\* One of the shapes.
Shaped(t) ==
  \/ Drafts(t)
  \/ StoreIntent(t)
  \/ \E id \in Intents, c \in Intent, h \in Ledger, ok \in BOOLEAN, to \in SUBSET Status :
       Updates(t, id, c, h, ok, to)
  \/ Passes(t)

-----------------------------------------------------------------------------
(* Every step has one of the shapes.                                       *)

\* How a call may end: on MemStore only the rail can fail.
CallEnds(o) ==
  /\ o \in {"ok", "reply_lost", "sql_error", "crash"}
  /\ StoreKind = "mem" => o \in {"ok", "reply_lost"}

LEMMA OutcomeEnds ==
  /\ \A o \in Outcomes({"reply_lost", "sql_error", "crash"}) : CallEnds(o)
  /\ \A o \in Outcomes({"sql_error", "crash"}) : CallEnds(o) /\ o # "reply_lost"
  /\ CallEnds("ok")
BY ServiceAssumption DEF Outcomes, CallEnds

\* What UpdateIntentStep leaves of a callback's record, events and program.
LEMMA UpdateWrites ==
  ASSUME TypeOK, NEW t \in Threads, NEW id \in Intents, NEW c, NEW ok \in BOOLEAN, NEW to,
         NEW rest, NEW o, CallEnds(o), UpdateIntentStep(t, id, c, ok, to, rest, o)
  PROVE  /\ Writes(id, c, ok, to)
         /\ \/ todo' = [todo EXCEPT ![t] = rest]
            \/ /\ todo' = [todo EXCEPT ![t] = << >>]
               /\ o # "reply_lost" => StoreKind = "postgres"
<1>1. StoreKind \in {"mem", "postgres"}
  BY ServiceAssumption
<1>2. /\ o \in {"ok", "reply_lost", "sql_error", "crash"}
      /\ StoreKind = "mem" => o \in {"ok", "reply_lost"}
  BY DEF CallEnds
<1>3. Writes(id, c, ok, to)
  <2>1. CASE o = "ok"
    <3>1. /\ intents' = [intents EXCEPT ![id] = UpdateIntent(intents[id], c, ok)]
          /\ audit' = [audit EXCEPT ![id] = @ \cup to] /\ faults' = faults
      BY <2>1 DEF UpdateIntentStep, CountFault
    <3>2. CASE StoreKind = "mem" \/ ok
      <4>1. UpdateIntent(intents[id], c, ok) = c
        BY <3>2 DEF UpdateIntent, MemUpdateIntent, PgUpdateIntent
      <4>2. QED
        BY <3>1, <3>2, <4>1 DEF Writes
    <3>3. CASE StoreKind # "mem" /\ ~ok
      <4>1. UpdateIntent(intents[id], c, ok) = intents[id]
        BY <3>3 DEF UpdateIntent, PgUpdateIntent
      <4>2. intents' = intents
        BY <3>1, <4>1 DEF TypeOK
      <4>3. QED
        BY <1>1, <3>1, <3>3, <4>2 DEF Writes
    <3>4. QED
      BY <3>2, <3>3
  <2>2. CASE o # "ok"
    <3>1. intents' = intents /\ faults' = faults + 1
      BY <2>2 DEF UpdateIntentStep, CountFault
    <3>2. StoreKind = "mem" => audit' = audit
      BY <1>2, <2>2 DEF UpdateIntentStep
    <3>3. QED
      BY <3>1, <3>2 DEF Writes
  <2>3. QED
    BY <2>1, <2>2
<1>4. CASE o \in {"ok", "sql_error"}
  BY <1>3, <1>4 DEF UpdateIntentStep
<1>5. CASE o \in {"reply_lost", "crash"}
  <2>1. todo' = [todo EXCEPT ![t] = << >>]
    BY <1>5 DEF UpdateIntentStep
  <2>2. o # "reply_lost" => StoreKind = "postgres"
    BY <1>1, <1>2, <1>5
  <2>3. QED
    BY <1>3, <2>1, <2>2
<1>6. QED
  BY <1>2, <1>4, <1>5

\* A request that updates the stored intent id.
LEMMA RequestShape ==
  ASSUME TypeOK, NEW t \in Threads, NEW id \in stored, Idle(t), NEW c \in Intent,
         NEW h \in Ledger, NEW ok \in BOOLEAN, NEW to \in SUBSET Status, NEW rest,
         \A k \in DOMAIN rest : rest[k].op = "add_row",
         NEW o, CallEnds(o), UpdateIntentStep(t, id, c, ok, to, rest, o),
         Requested(intents[id], gateway[id], c, h, ok, to),
         id \in lapsed /\ intents[id].status = "3ds_pending" =>
           c.status = "failed" /\ h = gateway[id],
         gateway' = [gateway EXCEPT ![id] = h],
         lapsed' \in {lapsed, lapsed \cup {id}},
         UNCHANGED <<issued, stored, rows, chargebacks>>
  PROVE  Shaped(t)
<1>1. id \in Intents
  BY DEF TypeOK
<1>2. Writes(id, c, ok, to)
  BY <1>1, UpdateWrites
<1>3. todo' = [todo EXCEPT ![t] = rest] \/ todo' = [todo EXCEPT ![t] = << >>]
  BY <1>1, UpdateWrites
<1>4. Leaves(t, rest) \/ Leaves(t, << >>)
  BY <1>3 DEF Leaves
<1>5. Updates(t, id, c, h, ok, to)
  BY <1>2, <1>4 DEF Updates
<1>6. QED
  BY <1>1, <1>5 DEF Shaped

LEMMA EmptyAddsRows == \A k \in DOMAIN << >> : << >>[k].op = "add_row"
OBVIOUS

LEMMA AddRowOnly ==
  ASSUME NEW id, NEW x, NEW a
  PROVE  \A k \in DOMAIN AddRowOp(id, x, a) : AddRowOp(id, x, a)[k].op = "add_row"
<1> DEFINE add == [op |-> "add_row", id |-> id, table |-> x, amount |-> a]
<1>1. AddRowOp(id, x, a) = << add >> /\ add.op = "add_row"
  BY DEF AddRowOp
<1> HIDE DEF add
<1>2. QED
  BY <1>1

LEMMA MoneyRequestShape ==
  ASSUME SafetyInv, NEW t \in Threads, NEW id \in Intents,
         NEW o \in Outcomes({"reply_lost", "sql_error", "crash"})
  PROVE  /\ \A a \in CaptureAmounts(intents[id]) : Capture(t, id, a, o) => Shaped(t)
         /\ \A a \in RefundAmounts(intents[id]) : Refund(t, id, a, o) => Shaped(t)
         /\ Void(t, id, o) => Shaped(t)
<1>1. /\ TypeOK /\ intents[id] \in Intent /\ gateway[id] \in Ledger
      /\ id \in stored => Sound(intents[id], gateway[id])
  BY DEF SafetyInv, TypeOK
<1>2. ASSUME NEW a \in CaptureAmounts(intents[id]), Capture(t, id, a, o)
      PROVE  Shaped(t)
  <2> DEFINE h == RailCapture(gateway[id], a)
             c == ApplyCapture(intents[id], a)
             rest == AddRowOp(id, "captures", a)
  <2>1. id \in stored /\ CaptureAllowed(intents[id], a) /\ Idle(t)
    BY <1>2 DEF Capture
  <2>2. a \in Int64 /\ a \in Int
    BY <1>1, RequestAmountTypes, MaxIntAssumption DEF Int64
  <2>3. c \in Intent /\ h \in Ledger /\ {c.status} \subseteq Status
    BY <1>1, <2>2, CaptureType, LedgerType DEF Intent
  <2>4. Requested(intents[id], gateway[id], c, h, TRUE, {c.status})
    BY <1>1, <2>1, CaptureEffect
  <2>5. /\ UpdateIntentStep(t, id, c, TRUE, {c.status}, rest, o)
        /\ gateway' = [gateway EXCEPT ![id] = h]
        /\ UNCHANGED <<issued, stored, rows, chargebacks, lapsed>>
    BY <1>2 DEF Capture
  <2>6. \A k \in DOMAIN rest : rest[k].op = "add_row"
    BY AddRowOnly
  <2>7. intents[id].status # "3ds_pending"
    BY <2>1 DEF CaptureAllowed
  <2> HIDE DEF h, c, rest
  <2>8. QED
    BY <1>1, <2>1, <2>3, <2>4, <2>5, <2>6, <2>7, OutcomeEnds, RequestShape
<1>3. ASSUME NEW a \in RefundAmounts(intents[id]), Refund(t, id, a, o)
      PROVE  Shaped(t)
  <2> DEFINE h == RailRefund(gateway[id], a)
             c == ApplyRefund(intents[id], a)
             ok == TransitionAllowed(intents[id], "refunding")
             to == IF ok THEN {"refunded"} ELSE {}
             rest == AddRowOp(id, "refunds", a)
  <2>1. /\ id \in stored /\ RefundAllowed(intents[id], a) /\ Idle(t)
        /\ gateway[id].refunded + a <= RailLimit
    BY <1>3 DEF Refund
  <2>2. a \in Int64 /\ a \in Int
    BY <1>1, RequestAmountTypes, MaxIntAssumption DEF Int64
  <2>3. c \in Intent /\ h \in Ledger /\ to \subseteq Status /\ ok \in BOOLEAN
    BY <1>1, <2>2, RefundType, LedgerType DEF Status, TransitionAllowed
  <2>4. Requested(intents[id], gateway[id], c, h, ok, to)
    BY <1>1, <2>1, RefundEffect
  <2>5. /\ UpdateIntentStep(t, id, c, ok, to, rest, o)
        /\ gateway' = [gateway EXCEPT ![id] = h]
        /\ UNCHANGED <<issued, stored, rows, chargebacks, lapsed>>
    BY <1>3 DEF Refund
  <2>6. \A k \in DOMAIN rest : rest[k].op = "add_row"
    BY AddRowOnly
  <2>7. intents[id].status # "3ds_pending"
    BY <2>1 DEF RefundAllowed
  <2> HIDE DEF h, c, ok, to, rest
  <2>8. QED
    BY <1>1, <2>1, <2>3, <2>4, <2>5, <2>6, <2>7, OutcomeEnds, RequestShape
<1>4. ASSUME Void(t, id, o)
      PROVE  Shaped(t)
  <2> DEFINE h == RailVoid(gateway[id])
             c == Transition(intents[id], "voided")
  <2>1. id \in stored /\ intents[id].status = "authorized" /\ Idle(t)
    BY <1>4 DEF Void
  <2>2. c \in Intent /\ h \in Ledger /\ {"voided"} \subseteq Status
    BY <1>1, TransitionType, LedgerType, 0 \in Int DEF Status
  <2>3. Requested(intents[id], gateway[id], c, h, TRUE, {"voided"})
    BY <1>1, <2>1, VoidEffect
  <2>4. /\ UpdateIntentStep(t, id, c, TRUE, {"voided"}, << >>, o)
        /\ gateway' = [gateway EXCEPT ![id] = h]
        /\ UNCHANGED <<issued, stored, rows, chargebacks, lapsed>>
    BY <1>4 DEF Void
  <2> HIDE DEF h, c
  <2>5. QED
    BY <1>1, <2>1, <2>2, <2>3, <2>4, EmptyAddsRows, OutcomeEnds, RequestShape
<1>5. QED
  BY <1>2, <1>3, <1>4

LEMMA ChallengeShape ==
  ASSUME SafetyInv, NEW t \in Threads, NEW id \in Intents
  PROVE  /\ ChallengeExpired(t, id) => Shaped(t)
         /\ ChallengeRefused(t, id) => Shaped(t)
         /\ ChallengeReplyLost(t, id) => Shaped(t)
         /\ \A o \in Outcomes({"sql_error", "crash"}) : ChallengeVerified(t, id, o) => Shaped(t)
<1> DEFINE failed == Transition(intents[id], "failed")
           authorized == Transition(intents[id], "authorized")
           g == gateway[id]
           h == RailAuthorize(g)
<1>1. TypeOK /\ intents[id] \in Intent /\ g \in Ledger /\ gateway = [gateway EXCEPT ![id] = g]
  BY DEF SafetyInv, TypeOK
<1>2. {"failed"} \subseteq Status /\ {"authorized"} \subseteq Status
  BY DEF Status
<1>3. failed \in Intent /\ authorized \in Intent /\ h \in Ledger
  BY <1>1, <1>2, TransitionType, LedgerType, 0 \in Int
<1>4. ASSUME intents[id].status = "3ds_pending"
      PROVE  /\ Requested(intents[id], g, failed, g, FALSE, {"failed"})
             /\ Requested(intents[id], g, failed, h, FALSE, {"failed"})
             /\ Requested(intents[id], g, authorized, h, TRUE, {"authorized"})
             /\ failed.status = "failed"
  <2>1. TransitionAllowed(intents[id], "failed")
    BY <1>4 DEF TransitionAllowed, IsTerminal, CanTransition
  <2>2. QED
    BY <1>1, <1>2, <1>4, <2>1, ChallengeEffect, TransitionType
<1> HIDE DEF h
<1>5. ASSUME ChallengeFails(t, id), UNCHANGED gateway, lapsed' \in {lapsed, lapsed \cup {id}}
      PROVE  Shaped(t)
  <2>1. id \in stored /\ intents[id].status = "3ds_pending" /\ Idle(t)
    BY <1>5 DEF ChallengeFails
  <2>2. /\ UpdateIntentStep(t, id, failed, FALSE, {"failed"}, << >>, "ok")
        /\ UNCHANGED <<issued, stored, rows, chargebacks>>
    BY <1>5 DEF ChallengeFails
  <2>3. gateway' = [gateway EXCEPT ![id] = g]
    BY <1>1, <1>5
  <2>4. Requested(intents[id], g, failed, g, FALSE, {"failed"}) /\ failed.status = "failed"
    BY <1>4, <2>1
  <2> HIDE DEF failed
  <2>5. QED
    BY <1>1, <1>2, <1>3, <1>5, <2>1, <2>2, <2>3, <2>4, EmptyAddsRows, OutcomeEnds, RequestShape
<1>6. ASSUME ChallengeReplyLost(t, id)
      PROVE  Shaped(t)
  <2>1. id \in stored /\ intents[id].status = "3ds_pending" /\ Idle(t) /\ id \notin lapsed
    BY <1>6 DEF ChallengeReplyLost, BegunInWindow
  <2>2. /\ gateway' = [gateway EXCEPT ![id] = h]
        /\ intents' = [intents EXCEPT ![id] = UpdateIntent(intents[id], failed, FALSE)]
        /\ audit' = [audit EXCEPT ![id] = @ \cup {"failed"}]
        /\ faults' = faults + 1
        /\ lapsed' \in {lapsed, lapsed \cup {id}}
        /\ UNCHANGED <<issued, stored, rows, chargebacks, todo>>
    BY <1>6 DEF ChallengeReplyLost, BegunInWindow, CountFault, h
  <2>3. Writes(id, failed, FALSE, {"failed"})
    <3>1. CASE StoreKind = "mem"
      BY <2>2, <3>1 DEF Writes, UpdateIntent, MemUpdateIntent
    <3>2. CASE StoreKind # "mem"
      <4>1. UpdateIntent(intents[id], failed, FALSE) = intents[id]
        BY <3>2 DEF UpdateIntent, PgUpdateIntent
      <4>2. intents' = intents
        BY <1>1, <2>2, <4>1 DEF TypeOK
      <4>3. QED
        BY <2>2, <3>2, <4>2 DEF Writes
    <3>3. QED
      BY <3>1, <3>2
  <2>4. Leaves(t, << >>)
    BY <1>1, <2>1, <2>2 DEF Leaves, Idle, TypeOK
  <2>5. Requested(intents[id], g, failed, h, FALSE, {"failed"}) /\ failed.status = "failed"
    BY <1>4, <2>1
  <2> HIDE DEF failed
  <2>6. Updates(t, id, failed, h, FALSE, {"failed"})
    BY <2>1, <2>2, <2>3, <2>4, <2>5 DEF Updates
  <2>7. QED
    BY <1>2, <1>3, <2>6 DEF Shaped
<1>7. ASSUME NEW o \in Outcomes({"sql_error", "crash"}), ChallengeVerified(t, id, o)
      PROVE  Shaped(t)
  <2>1. id \in stored /\ intents[id].status = "3ds_pending" /\ Idle(t) /\ id \notin lapsed
    BY <1>7 DEF ChallengeVerified, BegunInWindow
  <2>2. /\ UpdateIntentStep(t, id, authorized, TRUE, {"authorized"}, << >>, o)
        /\ gateway' = [gateway EXCEPT ![id] = h]
        /\ lapsed' \in {lapsed, lapsed \cup {id}}
        /\ UNCHANGED <<issued, stored, rows, chargebacks>>
    BY <1>7 DEF ChallengeVerified, BegunInWindow, h
  <2>3. Requested(intents[id], g, authorized, h, TRUE, {"authorized"})
    BY <1>4, <2>1
  <2> HIDE DEF authorized
  <2>4. QED
    BY <1>1, <1>2, <1>3, <2>1, <2>2, <2>3, EmptyAddsRows, OutcomeEnds, RequestShape
<1>8. QED
  BY <1>5, <1>6, <1>7 DEF ChallengeExpired, ChallengeRefused, BegunInWindow

LEMMA SettlementShape ==
  ASSUME SafetyInv, NEW t \in Threads, NEW id \in Intents, NEW a \in WebhookAmounts,
         NEW o \in Outcomes({"sql_error", "crash"}), Settlement(t, id, a, o)
  PROVE  Shaped(t)
<1> DEFINE c == ApplySettlement(intents[id], a)
           rest == AddRowOp(id, "settlements", a)
<1>1. id \in stored /\ intents[id].status = "captured" /\ Idle(t)
  BY DEF Settlement
<1>2. TypeOK /\ a \in Int64 /\ intents[id] \in Intent /\ gateway[id] \in Ledger
  BY ServiceAssumption DEF SafetyInv, TypeOK
<1>3. c \in Intent /\ {"settled"} \subseteq Status
  BY <1>2, SettlementType DEF Status
<1>4. Requested(intents[id], gateway[id], c, gateway[id], TRUE, {"settled"})
  BY <1>1, <1>2, SettlementEffect
<1>5. /\ UpdateIntentStep(t, id, c, TRUE, {"settled"}, rest, o)
      /\ UNCHANGED <<issued, stored, rows, chargebacks, gateway, lapsed>>
  BY DEF Settlement
<1>6. gateway' = [gateway EXCEPT ![id] = gateway[id]]
  BY <1>2, <1>5 DEF TypeOK
<1>7. \A k \in DOMAIN rest : rest[k].op = "add_row"
  BY AddRowOnly
<1> HIDE DEF c, rest
<1>8. QED
  BY <1>1, <1>2, <1>3, <1>4, <1>5, <1>6, <1>7, OutcomeEnds, RequestShape

LEMMA DisputeShape ==
  ASSUME SafetyInv, NEW t \in Threads, NEW o \in Outcomes({"sql_error", "crash"}),
         OpenDispute(t, o) \/ CloseDispute(t, o)
  PROVE  Shaped(t)
<1> DEFINE x == Head(todo[t])
           q == Tail(todo[t])
<1>1. /\ TypeOK /\ todo[t] # << >> /\ x \in Op
      /\ Doing(t, "open_case") \/ Doing(t, "close_case")
  BY HeadTail DEF OpenDispute, CloseDispute, Doing, SafetyInv
<1>2. x.id \in Intents /\ (Doing(t, "close_case") => x.to \in {"chargeback_won", "chargeback_lost"})
  BY <1>1, OpFields DEF Doing
<1>3. ASSUME NEW from, NEW to \in Status, DisputeStep(t, x.id, from, to, o),
             \/ from = {"captured", "settled"} /\ to = "charged_back" /\ Doing(t, "open_case")
             \/ /\ from = {"charged_back"} /\ to \in {"chargeback_won", "chargeback_lost"}
                /\ Doing(t, "close_case")
      PROVE  Shaped(t)
  <2> DEFINE id == x.id
             c == Transition(intents[id], to)
             ok == TransitionAllowed(intents[id], to)
             emits == IF ok THEN {to} ELSE {}
  <2>1. CASE id \in stored /\ intents[id].status \in from
    <3>1. /\ UpdateIntentStep(t, id, c, ok, emits, q, o)
          /\ UNCHANGED <<issued, stored, rows, chargebacks, gateway, lapsed>>
      BY <1>3, <2>1 DEF DisputeStep
    <3>2. /\ intents[id] \in Intent /\ gateway[id] \in Ledger
          /\ gateway = [gateway EXCEPT ![id] = gateway[id]]
      BY <1>1, <1>2 DEF TypeOK
    <3>3. c \in Intent /\ emits \subseteq Status /\ ok \in BOOLEAN
      BY <3>2, TransitionType DEF TransitionAllowed
    <3>4. Disputed(intents[id], gateway[id], c, gateway[id], ok, emits)
      BY <1>3, <2>1, <3>2, DisputeEffect
    <3>5. intents[id].status # "3ds_pending"
      BY <1>3, <2>1
    <3>6. \/ Doing(t, "open_case") /\ x.id = id
          \/ Doing(t, "close_case") /\ intents[id].status = "charged_back"
      BY <1>3, <2>1
    <3> HIDE DEF c, ok, emits, q, x, id
    <3>7. /\ Writes(id, c, ok, emits)
          /\ \/ todo' = [todo EXCEPT ![t] = q]
             \/ todo' = [todo EXCEPT ![t] = << >>] /\ StoreKind = "postgres"
      <4>1. id \in Intents
        BY <1>2 DEF id
      <4>2. QED
        BY <1>1, <3>1, <3>3, <4>1, OutcomeEnds, UpdateWrites
    <3>8. Leaves(t, q) \/ Leaves(t, << >>)
      BY <1>1, <3>7 DEF Leaves, q, Idle
    <3>9. gateway' = [gateway EXCEPT ![id] = gateway[id]]
      BY <3>1, <3>2
    <3>10. Updates(t, id, c, gateway[id], ok, emits)
      BY <2>1, <3>1, <3>4, <3>5, <3>6, <3>7, <3>8, <3>9 DEF Updates, x
    <3>11. QED
      BY <1>2, <3>2, <3>3, <3>10 DEF Shaped, id
  <2>2. CASE ~(id \in stored /\ intents[id].status \in from)
    <3>1. DisputeIgnored(t)
      BY <1>1, <1>3, <2>2 DEF DisputeStep, DisputeIgnored
    <3>2. QED
      BY <3>1 DEF Shaped, Passes
  <2>3. QED
    BY <2>1, <2>2
<1>4. CASE OpenDispute(t, o)
  BY <1>3, <1>4 DEF OpenDispute, Status
<1>5. CASE CloseDispute(t, o)
  BY <1>2, <1>3, <1>5 DEF CloseDispute, Status
<1>6. QED
  BY <1>4, <1>5

\* The drafts of CreateIntent.
LEMMA DraftFresh ==
  ASSUME NEW r \in Rail, NEW a \in IntentAmounts, NEW s \in {"3ds_pending", "authorized", "failed"}
  PROVE  LET i == Transition(Draft(r, a), s)
         IN i \in Intent /\ Fresh(i) /\ i.status = s /\ i.captured = 0
<1> DEFINE d == Draft(r, a)
           i == Transition(d, s)
<1>1. a \in 1 .. MaxInt /\ 0 \in 0 .. MaxInt /\ 0 < a
  BY ServiceAssumption, MaxIntAssumption
<1>2. d \in Intent
  BY <1>1, DraftType
<1>3. /\ d.amount = a /\ d.status = "intent" /\ d.captured = 0 /\ d.refunded = 0
      /\ d.settled = 0 /\ d.history = {"created"}
  BY DEF Draft
<1> HIDE DEF d
<1>4. TransitionAllowed(d, s) /\ s \in Status
  BY <1>3 DEF TransitionAllowed, IsTerminal, CanTransition, Status
<1>5. i \in Intent /\ i.amount = d.amount /\ SameMoney(d, i) /\ Advances(d, i, s)
  BY <1>2, <1>4, AllowedAdvances
<1> HIDE DEF i
<1>6. Fresh(i) /\ i.status = s /\ i.captured = 0
  BY <1>1, <1>3, <1>5 DEF Fresh, SameMoney, Advances
<1>7. QED
  BY <1>5, <1>6 DEF i, d

LEMMA InstantFresh ==
  ASSUME NEW r \in Rail, NEW a \in IntentAmounts, NEW n \in 0 .. MaxInt
  PROVE  LET i == Transition(Transition([Draft(r, a) EXCEPT !.captured = n], "authorized"),
                             "captured")
         IN /\ i \in Intent /\ Fresh(i) /\ i.status = "captured" /\ i.captured = n
            /\ "authorized" \in i.history
<1> DEFINE d == [Draft(r, a) EXCEPT !.captured = n]
           e == Transition(d, "authorized")
           i == Transition(e, "captured")
<1>1. a \in 1 .. MaxInt /\ 0 < a /\ 0 <= n
  BY ServiceAssumption, MaxIntAssumption
<1>2. d \in Intent
  BY <1>1, DraftType
<1>3. /\ d.amount = a /\ d.status = "intent" /\ d.captured = n /\ d.refunded = 0
      /\ d.settled = 0 /\ d.history = {"created"}
  BY DEF Draft
<1> HIDE DEF d
<1>4. TransitionAllowed(d, "authorized") /\ "authorized" \in Status
  BY <1>3 DEF TransitionAllowed, IsTerminal, CanTransition, Status
<1>5. e \in Intent /\ e.amount = d.amount /\ SameMoney(d, e) /\ Advances(d, e, "authorized")
  BY <1>2, <1>4, AllowedAdvances
<1> HIDE DEF e
<1>6. TransitionAllowed(e, "captured") /\ "captured" \in Status
  BY <1>5 DEF Advances, TransitionAllowed, IsTerminal, CanTransition, Status
<1>7. i \in Intent /\ i.amount = e.amount /\ SameMoney(e, i) /\ Advances(e, i, "captured")
  BY <1>5, <1>6, AllowedAdvances
<1> HIDE DEF i
<1>8. Fresh(i) /\ i.status = "captured" /\ i.captured = n /\ "authorized" \in i.history
  BY <1>1, <1>3, <1>5, <1>7 DEF Fresh, SameMoney, Advances
<1>9. QED
  BY <1>7, <1>8 DEF i, e, d

LEMMA CreateShape ==
  ASSUME SafetyInv, NEW t \in Threads, CreateIntent(t)
  PROVE  Drafts(t)
<1>1. PICK id \in Intents, a \in IntentAmounts :
        \/ CreateThreeDS(t, id, a)
        \/ \E r \in Rails :
             \/ CreateFailed(t, id, r, a)
             \/ CreateAuthorized(t, id, r, a)
             \/ \E n \in SubmitAmounts \cup {a} :
                  CreateReplyLost(t, id, r, a, n) \/ CreateInstant(t, id, r, a, n)
  BY DEF CreateIntent
<1> DEFINE g == gateway[id]
           authorized == RailAuthorize(g)
           submitted(n) == RailSubmit(g, n)
           none == {}
<1>2. /\ \A n \in SubmitAmounts \cup {a} : n \in 0 .. MaxInt /\ n \in Int64 /\ n \in Int
      /\ Rails \subseteq Rail /\ "card" \in Rail
  BY ServiceAssumption, MaxIntAssumption DEF Int64, Rail
<1>3. /\ g \in Ledger /\ g.captured \in Int
      /\ gateway = [gateway EXCEPT ![id] = g]
      /\ audit = [audit EXCEPT ![id] = @ \cup none]
      /\ none \in SUBSET Status /\ \A i \in Intent : none \subseteq i.history
  BY DEF SafetyInv, TypeOK, Ledger
<1>4. /\ authorized \in Ledger /\ authorized.captured = g.captured
      /\ authorized.done = g.done \cup {"authorize"}
  BY <1>3, LedgerType, 0 \in Int DEF RailAuthorize, Ledger
<1>5. ASSUME NEW n \in Int
      PROVE  /\ submitted(n) \in Ledger /\ submitted(n).captured = g.captured + n
             /\ submitted(n).done = g.done \cup {"authorize"}
  <2>1. submitted(n) = RailCapture(authorized, n)
    BY DEF RailSubmit
  <2> HIDE DEF authorized
  <2>2. QED
    BY <1>3, <1>4, <2>1, LedgerType DEF RailCapture, Ledger
<1> HIDE DEF authorized, submitted, none
<1>6. ASSUME NEW i \in Intent, NEW q, NEW h \in Ledger, NEW e \in SUBSET Status,
             BeginCreate(t, id, q), StoresAndEmits(q, id, i), Fresh(i),
             gateway' = [gateway EXCEPT ![id] = h], h.done \subseteq g.done \cup {"authorize"},
             i.status = "3ds_pending" => h.captured = g.captured,
             \/ faults' = faults /\ h.captured = g.captured + i.captured
             \/ faults' = faults + 1,
             audit' = [audit EXCEPT ![id] = @ \cup e], e \subseteq i.history
      PROVE  Drafts(t)
  <2>1. Creates(t, id, i, h, e)
    BY <1>6 DEF BeginCreate, Creates
  <2>2. QED
    BY <2>1 DEF Drafts
<1>7. ASSUME NEW i \in Intent, i.captured = 0
      PROVE  StoresAndEmits(StoreAndEmit(id, i), id, i)
  BY <1>7 DEF StoresAndEmits, StoreAndEmit
<1>8. ASSUME NEW r \in Rail, NEW s \in {"3ds_pending", "failed"},
             BeginCreate(t, id, StoreAndEmit(id, Transition(Draft(r, a), s))),
             UNCHANGED <<audit, gateway, faults>>
      PROVE  Drafts(t)
  <2> DEFINE i == Transition(Draft(r, a), s)
             q == StoreAndEmit(id, i)
  <2>1. i \in Intent /\ Fresh(i) /\ i.captured = 0
    BY DraftFresh
  <2>2. StoresAndEmits(q, id, i) /\ BeginCreate(t, id, q)
    BY <1>7, <1>8, <2>1
  <2> HIDE DEF i, q
  <2>3. g.captured = g.captured + i.captured
    BY <1>3, <2>1
  <2>4. /\ gateway' = [gateway EXCEPT ![id] = g] /\ audit' = [audit EXCEPT ![id] = @ \cup none]
        /\ faults' = faults
    BY <1>3, <1>8
  <2>5. QED
    BY <1>3, <1>6, <2>1, <2>2, <2>3, <2>4
<1>9. CASE CreateThreeDS(t, id, a)
  BY <1>2, <1>8, <1>9 DEF CreateThreeDS
<1>10. ASSUME NEW r \in Rails, CreateFailed(t, id, r, a)
       PROVE  Drafts(t)
  BY <1>2, <1>8, <1>10 DEF CreateFailed
<1>11. ASSUME NEW r \in Rails, CreateAuthorized(t, id, r, a)
       PROVE  Drafts(t)
  <2> DEFINE i == Transition(Draft(r, a), "authorized")
             q == StoreAndEmit(id, i)
  <2>1. i \in Intent /\ Fresh(i) /\ i.captured = 0 /\ i.status = "authorized"
    BY <1>2, DraftFresh
  <2>2. StoresAndEmits(q, id, i) /\ BeginCreate(t, id, q)
    BY <1>7, <1>11, <2>1 DEF CreateAuthorized
  <2> HIDE DEF i, q
  <2>3. authorized.captured = g.captured + i.captured
    BY <1>3, <1>4, <2>1
  <2>4. /\ gateway' = [gateway EXCEPT ![id] = authorized]
        /\ audit' = [audit EXCEPT ![id] = @ \cup none] /\ faults' = faults
    BY <1>3, <1>11 DEF CreateAuthorized, authorized
  <2>5. QED
    BY <1>3, <1>4, <1>6, <2>1, <2>2, <2>3, <2>4
<1>12. ASSUME NEW r \in Rails, NEW n \in SubmitAmounts \cup {a}, CreateReplyLost(t, id, r, a, n)
       PROVE  Drafts(t)
  <2> DEFINE i == Transition(Draft(r, a), "failed")
             q == StoreAndEmit(id, i)
             h == IF IsInstant(r) THEN submitted(n) ELSE authorized
  <2>1. i \in Intent /\ Fresh(i) /\ i.status = "failed" /\ i.captured = 0
    BY <1>2, DraftFresh
  <2>2. StoresAndEmits(q, id, i) /\ BeginCreate(t, id, q)
    BY <1>7, <1>12, <2>1 DEF CreateReplyLost
  <2>3. h \in Ledger /\ h.done \subseteq g.done \cup {"authorize"}
    BY <1>2, <1>4, <1>5
  <2>4. /\ gateway' = [gateway EXCEPT ![id] = h]
        /\ audit' = [audit EXCEPT ![id] = @ \cup none] /\ faults' = faults + 1
    BY <1>3, <1>12 DEF CreateReplyLost, CountFault, authorized, submitted
  <2> HIDE DEF i, q, h
  <2>5. QED
    BY <1>3, <1>6, <2>1, <2>2, <2>3, <2>4
<1>13. ASSUME NEW r \in Rails, NEW n \in SubmitAmounts \cup {a}, CreateInstant(t, id, r, a, n)
       PROVE  Drafts(t)
  <2> DEFINE i == Transition(Transition([Draft(r, a) EXCEPT !.captured = n], "authorized"),
                             "captured")
             create == [op |-> "create", id |-> id, intent |-> i]
             add == [op |-> "add_row", id |-> id, table |-> "captures", amount |-> n]
             emit == [op |-> "emit", id |-> id, to |-> i.status]
             q == << create, add, emit >>
  <2>1. /\ i \in Intent /\ Fresh(i) /\ i.captured = n /\ i.status = "captured"
        /\ "authorized" \in i.history
    BY <1>2, InstantFresh
  <2>2. BeginCreate(t, id, << StoreAndEmit(id, i)[1], add, StoreAndEmit(id, i)[2] >>)
    BY <1>13 DEF CreateInstant
  <2>3. gateway' = [gateway EXCEPT ![id] = submitted(n)] /\ faults' = faults
        /\ audit' = [audit EXCEPT ![id] = @ \cup {"authorized"}]
    BY <1>13 DEF CreateInstant, submitted
  <2> HIDE DEF i
  <2>4. StoreAndEmit(id, i)[1] = create /\ StoreAndEmit(id, i)[2] = emit
    BY <2>1, StoreAndEmitType
  <2>5. BeginCreate(t, id, q)
    BY <2>2, <2>4
  <2>6. StoresAndEmits(q, id, i)
    BY <2>1 DEF StoresAndEmits
  <2> HIDE DEF q
  <2>7. /\ submitted(n) \in Ledger /\ submitted(n).captured = g.captured + i.captured
        /\ submitted(n).done \subseteq g.done \cup {"authorize"}
    BY <1>2, <1>5, <2>1
  <2>8. {"authorized"} \in SUBSET Status /\ {"authorized"} \subseteq i.history
    BY <2>1 DEF Status
  <2>9. QED
    BY <1>6, <2>1, <2>3, <2>5, <2>6, <2>7, <2>8
<1>14. QED
  BY <1>1, <1>9, <1>10, <1>11, <1>12, <1>13

\* Every step of a thread has one of the shapes.
LEMMA StepShape ==
  ASSUME SafetyInv, NEW t \in Threads, Request(t) \/ Continue(t) \/ InsertLost(t) \/ Crash(t)
  PROVE  Shaped(t)
<1>1. CASE Request(t)
  <2>1. CASE CreateIntent(t)
    BY <2>1, CreateShape DEF Shaped
  <2>2. ASSUME NEW id \in Intents, NEW c \in Cases, NEW s \in ChargebackStage,
               NEW a \in WebhookAmounts, NEW o \in Outcomes({"sql_error"}),
               ChargebackWebhook(t, id, c, s, a, o)
        PROVE  Shaped(t)
    BY <2>2 DEF Shaped, Passes
  <2>3. QED
    BY <1>1, <2>1, <2>2, MoneyRequestShape, ChallengeShape, SettlementShape DEF Request
<1>2. CASE Continue(t)
  <2>1. CASE AddRow(t) \/ EmitTransition(t) \/ AddChargeback(t) \/ UpdateChargeback(t) \/ StoreIntent(t)
    BY <2>1 DEF Shaped, Passes
  <2>2. QED
    BY <1>2, <2>1, DisputeShape DEF Continue
<1>3. CASE InsertLost(t) \/ Crash(t)
  BY <1>3 DEF Shaped, Passes
<1>4. QED
  BY <1>1, <1>2, <1>3

-----------------------------------------------------------------------------
(* The inductive invariant: what relates an intent to the rail's ledger.   *)

\* What holds of an intent i and its payment's ledger g after n faults.
\* Without a fault each capture is booked in full, and the rail is asked to
\* cancel only what can move no money any more.
Kept(i, g, n) ==
  /\ n = 0 => i.captured = g.captured
  /\ i.status = "3ds_pending" => g.captured = 0
  /\ i.status \in i.history
  /\ "settled" \in i.history =>
       i.status = "settled" /\ (i.settled # i.captured => "reconciliation_break" \in i.history)
  /\ i.captured = 0 => i.refunded = 0
  /\ n = 0 /\ "void" \in g.done =>
       i.status \in {"voided", "refunded"} \/ (i.status = "settled" /\ i.captured = 0)

\* The rail knows nothing of an id that is not in use.
UnissuedUntouched == \A id \in Intents \ issued : gateway[id] = EmptyLedger

StoredKept == \A id \in stored : Kept(intents[id], gateway[id], faults)

DraftsKept ==
  \A t \in Threads : Doing(t, "create") =>
    /\ Fresh(Head(todo[t]).intent)
    /\ Kept(Head(todo[t]).intent, gateway[Head(todo[t]).id], faults)

LedgerInv ==
  /\ SafetyInv
  /\ UnissuedUntouched
  /\ StoredKept
  /\ DraftsKept
  /\ lapsed \subseteq stored

-----------------------------------------------------------------------------
\* A fault excuses more, never less.
LEMMA KeptMonotone ==
  ASSUME NEW i, NEW g, NEW n \in Nat, Kept(i, g, n)
  PROVE  Kept(i, g, n) /\ Kept(i, g, n + 1)
BY DEF Kept

\* A call of UpdateIntent keeps Kept, whether its record is stored or, after
\* an error or a fault, is not.
LEMMA EffectKeeps ==
  ASSUME NEW i \in Intent, NEW g \in Ledger, NEW c \in Intent, NEW h \in Ledger,
         NEW ok \in BOOLEAN, NEW to, NEW n \in Nat, Kept(i, g, n), 0 <= i.captured,
         Requested(i, g, c, h, ok, to) \/ Disputed(i, g, c, h, ok, to)
  PROVE  /\ Kept(c, h, n) /\ Kept(c, h, n + 1)
         /\ ~ok => Kept(i, h, n)
         /\ Kept(i, h, n + 1)
<1>1. /\ i.captured \in Int /\ c.captured \in Int /\ g.captured \in Int /\ h.captured \in Int
      /\ i.refunded \in Int /\ c.refunded \in Int
  BY MaxIntAssumption DEF Intent, Ledger, Int64
<1>2. CASE Captures(i, g, c, h) /\ ok
  <2>1. Kept(c, h, n)
    BY <1>1, <1>2 DEF Captures, Kept
  <2>2. Kept(i, h, n + 1)
    BY <1>2 DEF Captures, Kept
  <2>3. QED
    BY <1>2, <2>1, <2>2, KeptMonotone
<1>3. CASE Voids(i, g, c, h) /\ ok
  <2>1. Kept(c, h, n)
    BY <1>3 DEF Voids, Kept, SameMoney, Advances
  <2>2. Kept(i, h, n + 1)
    BY <1>3 DEF Voids, Kept
  <2>3. QED
    BY <1>3, <2>1, <2>2, KeptMonotone
<1>4. CASE Refunds(i, g, c, h, ok)
  <2>1. Kept(c, h, n)
    BY <1>1, <1>4 DEF Refunds, Kept
  <2>2. Kept(i, h, n + 1) /\ (~ok => Kept(i, h, n))
    BY <1>4 DEF Refunds, Kept
  <2>3. QED
    BY <2>1, <2>2, KeptMonotone
<1>5. CASE FailsChallenge(i, g, c, h) \/ PassesChallenge(i, g, c, h)
  <2>1. Kept(c, h, n)
    BY <1>5 DEF FailsChallenge, PassesChallenge, Kept, SameMoney, Advances
  <2>2. Kept(i, h, n)
    BY <1>5 DEF FailsChallenge, PassesChallenge, Kept
  <2>3. QED
    BY <2>1, <2>2, KeptMonotone
<1>6. CASE Settles(i, c) /\ h = g
  <2>1. Kept(c, h, n)
    BY <1>6 DEF Settles, Kept
  <2>2. Kept(i, h, n)
    BY <1>6
  <2>3. QED
    BY <2>1, <2>2, KeptMonotone
<1>7. CASE Disputes(i, c) /\ h = g
  <2>1. Kept(c, h, n)
    BY <1>7 DEF Disputes, Kept, SameMoney, Advances
  <2>2. Kept(i, h, n)
    BY <1>7
  <2>3. QED
    BY <2>1, <2>2, KeptMonotone
<1>8. CASE c = i /\ h = g
  BY <1>8, KeptMonotone
<1>9. QED
  BY <1>2, <1>3, <1>4, <1>5, <1>6, <1>7, <1>8 DEF Requested, Disputed

-----------------------------------------------------------------------------
(* Threads.                                                                *)

LEMMA NoCreateHead ==
  ASSUME NEW q \in Seq(Op), NoCreate(q), q # << >>
  PROVE  Head(q).op # "create"
<1>1. 1 \in DOMAIN q /\ Head(q) = q[1]
  OBVIOUS
<1>2. QED
  BY <1>1 DEF NoCreate

\* A step that leaves nothing to store on its thread leaves the drafts of the
\* other threads.
LEMMA DraftsLeft ==
  ASSUME TypeOK, TypeOK', NEW t \in Threads, NEW q, NoCreate(q), todo' = [todo EXCEPT ![t] = q]
  PROVE  \A u \in Threads : Doing(u, "create")' =>
           u # t /\ todo'[u] = todo[u] /\ Doing(u, "create")
<1>1. todo'[t] = q /\ q \in Seq(Op) /\ \A u \in Threads \ {t} : todo'[u] = todo[u]
  BY DEF TypeOK
<1>2. ~Doing(t, "create")'
  BY <1>1, NoCreateHead DEF Doing
<1>3. QED
  BY <1>1, <1>2 DEF Doing

\* The draft of a thread belongs to an id in use and not yet stored.
LEMMA DraftFacts ==
  ASSUME SafetyInv, NEW u \in Threads, Doing(u, "create")
  PROVE  /\ Head(todo[u]).id \in Intents /\ Head(todo[u]).id \in issued \ stored
         /\ Head(todo[u]).intent \in Intent
         /\ Sound(Head(todo[u]).intent, gateway[Head(todo[u]).id])
<1>1. todo[u] # << >> /\ Head(todo[u]).op = "create" /\ Head(todo[u]) \in Op
  BY HeadTail DEF Doing, SafetyInv
<1>2. QED
  BY <1>1, OpFields DEF SafetyInv, DraftsSound

\* What the steps that touch neither the intents nor the rail leave.
LEMMA PassesFrame ==
  ASSUME SafetyInv, NEW t \in Threads, Passes(t)
  PROVE  /\ UNCHANGED <<issued, stored, intents, gateway, lapsed>>
         /\ faults' \in {faults, faults + 1}
         /\ \E q : NoCreate(q) /\ todo' = [todo EXCEPT ![t] = q]
<1>1. todo[t] # << >> => NoCreate(Tail(todo[t]))
  BY TailNoCreate
<1>2. CASE AddRow(t) \/ EmitTransition(t) \/ AddChargeback(t) \/ UpdateChargeback(t)
           \/ DisputeIgnored(t)
  BY <1>1, <1>2 DEF AddRow, EmitTransition, AddChargeback, UpdateChargeback, DisputeIgnored,
                    PopOp, Doing
<1>3. CASE InsertLost(t) \/ Crash(t)
  BY <1>1, <1>3, EmptyNoCreate DEF InsertLost, Crash, PopOp, CountFault, Doing
<1>4. ASSUME NEW id \in Intents, NEW c \in Cases, NEW s \in ChargebackStage,
             NEW a \in WebhookAmounts, NEW o, ChargebackWebhook(t, id, c, s, a, o)
      PROVE  /\ UNCHANGED <<issued, stored, intents, gateway, lapsed>>
             /\ faults' \in {faults, faults + 1}
             /\ \E q : NoCreate(q) /\ todo' = [todo EXCEPT ![t] = q]
  <2> DEFINE q == ChargebackSteps(id, c, s, a, HasCase(id, c) /\ o # "sql_error")
  <2>1. NoCreate(q)
    BY ChargebackStepsNoCreate
  <2>2. todo' = [todo EXCEPT ![t] = q] /\ UNCHANGED <<issued, stored, intents, gateway, lapsed>>
        /\ faults' \in {faults, faults + 1}
    BY <1>4 DEF ChargebackWebhook, CountFault
  <2> HIDE DEF q
  <2>3. QED
    BY <2>1, <2>2
<1>5. QED
  BY <1>2, <1>3, <1>4 DEF Passes

\* A call of UpdateIntent leaves nothing to store.
LEMMA LeavesNoCreate ==
  ASSUME SafetyInv, NEW t \in Threads, NEW q, Leaves(t, q)
  PROVE  NoCreate(q)
<1>1. ~Idle(t) => NoCreate(Tail(todo[t]))
  BY TailNoCreate DEF Idle
<1>2. QED
  BY <1>1, EmptyNoCreate DEF Leaves, NoCreate

-----------------------------------------------------------------------------
(* The invariant is inductive, shape by shape.                             *)

LEMMA LedgerInit == Init => LedgerInv
<1> SUFFICES ASSUME Init
             PROVE  LedgerInv
  OBVIOUS
<1>1. SafetyInv
  BY SafetyInit
<1>2. UnissuedUntouched
  BY DEF Init, UnissuedUntouched
<1>3. DraftsKept
  BY DEF Init, DraftsKept, Doing
<1>4. StoredKept /\ lapsed \subseteq stored
  BY DEF Init, StoredKept
<1>5. QED
  BY <1>1, <1>2, <1>3, <1>4 DEF LedgerInv

\* What a step that leaves the intent and the ledger of j keeps for j.
LEMMA KeptFrame ==
  ASSUME NEW i, NEW g, faults \in Nat, faults' \in {faults, faults + 1}, Kept(i, g, faults)
  PROVE  Kept(i, g, faults')
BY KeptMonotone

LEMMA CreateKeeps ==
  ASSUME LedgerInv, SafetyInv', NEW t \in Threads, NEW id \in Intents, NEW i \in Intent,
         NEW g \in Ledger, NEW e \in SUBSET Status, Creates(t, id, i, g, e)
  PROVE  LedgerInv'
<1>1. /\ id \notin issued /\ issued' = issued \cup {id} /\ Fresh(i)
      /\ gateway' = [gateway EXCEPT ![id] = g]
      /\ UNCHANGED <<stored, intents, lapsed>> /\ faults' \in {faults, faults + 1}
  BY DEF Creates
<1>2. gateway[id] = EmptyLedger /\ faults \in Nat
      /\ gateway \in [Intents -> Ledger] /\ stored \subseteq issued /\ stored \subseteq Intents
  BY <1>1 DEF LedgerInv, UnissuedUntouched, SafetyInv, TypeOK, DraftsSound
<1>3. gateway'[id] = g /\ \A j \in Intents \ {id} : gateway'[j] = gateway[j]
  BY <1>1, <1>2
<1>4. gateway[id].captured = 0 /\ gateway[id].done = {}
  BY <1>2 DEF EmptyLedger
<1>5. Kept(i, g, faults')
  <2>1. i.captured \in Int
    BY MaxIntAssumption DEF Intent, Int64
  <2>2. faults' = 0 => g.captured = i.captured
    BY <1>2, <1>4, <2>1 DEF Creates
  <2>3. i.status = "3ds_pending" => g.captured = 0
    BY <1>4 DEF Creates
  <2>4. "void" \notin g.done
    BY <1>4 DEF Creates
  <2>5. QED
    BY <1>1, <2>2, <2>3, <2>4 DEF Kept, Fresh
<1>6. UnissuedUntouched'
  BY <1>1, <1>3 DEF LedgerInv, UnissuedUntouched
<1>7. StoredKept'
  <2> SUFFICES ASSUME NEW j \in stored
               PROVE  Kept(intents[j], gateway'[j], faults')
    BY <1>1 DEF StoredKept
  <2>1. j # id /\ gateway'[j] = gateway[j]
    BY <1>1, <1>2, <1>3
  <2>2. Kept(intents[j], gateway[j], faults)
    BY DEF LedgerInv, StoredKept
  <2>3. QED
    BY <1>1, <1>2, <2>1, <2>2, KeptFrame
<1>8. DraftsKept'
  <2>1. PICK q : StoresAndEmits(q, id, i) /\ todo' = [todo EXCEPT ![t] = q]
    BY DEF Creates
  <2> DEFINE create == [op |-> "create", id |-> id, intent |-> i]
  <2>2. Head(q) = create
    BY <2>1 DEF StoresAndEmits
  <2>3. create.id = id /\ create.intent = i
    OBVIOUS
  <2> HIDE DEF create
  <2>4. todo'[t] = q /\ \A u \in Threads \ {t} : todo'[u] = todo[u]
    BY <2>1 DEF LedgerInv, SafetyInv, TypeOK
  <2>5. Fresh(Head(todo'[t]).intent) /\ Kept(Head(todo'[t]).intent, gateway'[Head(todo'[t]).id], faults')
    BY <1>1, <1>3, <1>5, <2>2, <2>3, <2>4
  <2>6. ASSUME NEW u \in Threads \ {t}, Doing(u, "create")'
        PROVE  /\ Fresh(Head(todo'[u]).intent)
               /\ Kept(Head(todo'[u]).intent, gateway'[Head(todo'[u]).id], faults')
    <3>1. todo'[u] = todo[u] /\ Doing(u, "create")
      BY <2>4, <2>6 DEF Doing
    <3>2. Head(todo[u]).id \in issued /\ Head(todo[u]).id \in Intents
      BY <3>1, DraftFacts DEF LedgerInv
    <3>3. gateway'[Head(todo[u]).id] = gateway[Head(todo[u]).id]
      BY <1>1, <1>3, <3>2
    <3>4. /\ Fresh(Head(todo[u]).intent)
          /\ Kept(Head(todo[u]).intent, gateway[Head(todo[u]).id], faults)
      BY <3>1 DEF LedgerInv, DraftsKept
    <3>5. QED
      BY <1>1, <1>2, <3>1, <3>3, <3>4, KeptFrame
  <2>7. QED
    BY <2>5, <2>6 DEF DraftsKept
<1>9. (lapsed \subseteq stored)'
  BY <1>1 DEF LedgerInv
<1>10. QED
  BY <1>6, <1>7, <1>8, <1>9 DEF LedgerInv

LEMMA StoreKeeps ==
  ASSUME LedgerInv, SafetyInv', NEW t \in Threads, StoreIntent(t)
  PROVE  LedgerInv'
<1> DEFINE h == Head(todo[t])
<1>1. /\ Doing(t, "create") /\ stored' = stored \cup {h.id}
      /\ intents' = [intents EXCEPT ![h.id] = h.intent]
      /\ todo' = [todo EXCEPT ![t] = Tail(todo[t])]
      /\ UNCHANGED <<issued, gateway, lapsed, faults>>
  BY DEF StoreIntent, PopOp
<1>2. SafetyInv /\ TypeOK /\ TypeOK' /\ intents \in [Intents -> Intent] /\ stored \subseteq Intents
  BY DEF LedgerInv, SafetyInv, TypeOK
<1>3. h.id \in Intents /\ h.id \in issued \ stored
  BY <1>1, <1>2, DraftFacts
<1>4. Kept(h.intent, gateway[h.id], faults)
  BY <1>1 DEF LedgerInv, DraftsKept
<1>5. NoCreate(Tail(todo[t]))
  BY <1>1, <1>2, TailNoCreate DEF Doing
<1>6. \A u \in Threads : Doing(u, "create")' => todo'[u] = todo[u] /\ Doing(u, "create")
  BY <1>1, <1>2, <1>5, DraftsLeft
<1> HIDE DEF h
<1>7. intents'[h.id] = h.intent /\ \A j \in stored : intents'[j] = intents[j]
  BY <1>1, <1>2, <1>3
<1>8. StoredKept'
  BY <1>1, <1>4, <1>7 DEF LedgerInv, StoredKept
<1>9. DraftsKept'
  BY <1>1, <1>6 DEF LedgerInv, DraftsKept
<1>10. UnissuedUntouched' /\ (lapsed \subseteq stored)'
  BY <1>1 DEF LedgerInv, UnissuedUntouched
<1>11. QED
  BY <1>8, <1>9, <1>10 DEF LedgerInv

LEMMA UpdateKeeps ==
  ASSUME LedgerInv, SafetyInv', NEW t \in Threads, NEW id \in Intents, NEW c \in Intent,
         NEW h \in Ledger, NEW ok \in BOOLEAN, NEW to, Updates(t, id, c, h, ok, to)
  PROVE  LedgerInv'
<1> DEFINE i == intents[id]
           g == gateway[id]
<1>1. /\ id \in stored /\ gateway' = [gateway EXCEPT ![id] = h]
      /\ Requested(i, g, c, h, ok, to) \/ Disputed(i, g, c, h, ok, to)
      /\ lapsed' \in {lapsed, lapsed \cup {id}}
      /\ UNCHANGED <<issued, stored>>
  BY DEF Updates
<1>2. PICK q : Leaves(t, q)
  BY DEF Updates
<1>3. /\ SafetyInv /\ TypeOK /\ TypeOK' /\ faults \in Nat
      /\ intents \in [Intents -> Intent] /\ gateway \in [Intents -> Ledger]
      /\ stored \subseteq Intents /\ stored \subseteq issued
  BY DEF LedgerInv, SafetyInv, TypeOK, DraftsSound
<1>4. i \in Intent /\ g \in Ledger /\ Kept(i, g, faults) /\ 0 <= i.captured
  BY <1>1, <1>3 DEF LedgerInv, StoredKept, SafetyInv, Sound
<1>5. /\ Kept(c, h, faults) /\ Kept(c, h, faults + 1)
      /\ ~ok => Kept(i, h, faults)
      /\ Kept(i, h, faults + 1)
  <2> HIDE DEF i, g
  <2>1. QED
    BY <1>1, <1>3, <1>4, EffectKeeps
<1>6. \/ intents' = [intents EXCEPT ![id] = c] /\ faults' \in {faults, faults + 1}
      \/ intents' = intents /\ (faults' = faults + 1 \/ (~ok /\ faults' = faults))
  BY DEF Updates, Writes
<1>7. faults' \in {faults, faults + 1}
  BY <1>6
<1>8. intents'[id] \in {i, c} /\ Kept(intents'[id], h, faults')
  <2>1. CASE intents' = [intents EXCEPT ![id] = c] /\ faults' \in {faults, faults + 1}
    BY <1>3, <1>5, <2>1
  <2>2. CASE intents' = intents /\ (faults' = faults + 1 \/ (~ok /\ faults' = faults))
    BY <1>5, <2>2
  <2>3. QED
    BY <1>6, <2>1, <2>2
<1>9. gateway'[id] = h /\ \A j \in Intents \ {id} : gateway'[j] = gateway[j] /\ intents'[j] = intents[j]
  BY <1>1, <1>3, <1>6
<1>10. UnissuedUntouched'
  BY <1>1, <1>3, <1>9 DEF LedgerInv, UnissuedUntouched
<1>11. StoredKept'
  <2> SUFFICES ASSUME NEW j \in stored
               PROVE  Kept(intents'[j], gateway'[j], faults')
    BY <1>1 DEF StoredKept
  <2>1. CASE j = id
    BY <1>8, <1>9, <2>1
  <2>2. CASE j # id
    <3>1. Kept(intents[j], gateway[j], faults)
      BY DEF LedgerInv, StoredKept
    <3>2. intents'[j] = intents[j] /\ gateway'[j] = gateway[j]
      BY <1>3, <1>9, <2>2
    <3>3. QED
      BY <1>3, <1>7, <3>1, <3>2, KeptFrame
  <2>3. QED
    BY <2>1, <2>2
<1>12. DraftsKept'
  <2> SUFFICES ASSUME NEW u \in Threads, Doing(u, "create")'
               PROVE  /\ Fresh(Head(todo'[u]).intent)
                      /\ Kept(Head(todo'[u]).intent, gateway'[Head(todo'[u]).id], faults')
    BY DEF DraftsKept
  <2>1. todo'[u] = todo[u] /\ Doing(u, "create")
    BY <1>2, <1>3, LeavesNoCreate, DraftsLeft DEF Leaves
  <2>2. Head(todo[u]).id \in Intents /\ Head(todo[u]).id \notin stored
    BY <1>3, <2>1, DraftFacts
  <2>3. gateway'[Head(todo[u]).id] = gateway[Head(todo[u]).id]
    BY <1>1, <1>9, <2>2
  <2>4. Fresh(Head(todo[u]).intent) /\ Kept(Head(todo[u]).intent, gateway[Head(todo[u]).id], faults)
    BY <2>1 DEF LedgerInv, DraftsKept
  <2>5. QED
    BY <1>3, <1>7, <2>1, <2>3, <2>4, KeptFrame
<1>13. (lapsed \subseteq stored)'
  BY <1>1 DEF LedgerInv
<1>14. QED
  BY <1>10, <1>11, <1>12, <1>13 DEF LedgerInv

LEMMA PassKeeps ==
  ASSUME LedgerInv, SafetyInv', NEW t \in Threads, Passes(t)
  PROVE  LedgerInv'
<1>1. SafetyInv /\ TypeOK /\ TypeOK' /\ faults \in Nat
  BY DEF LedgerInv, SafetyInv, TypeOK
<1>2. UNCHANGED <<issued, stored, intents, gateway, lapsed>> /\ faults' \in {faults, faults + 1}
  BY <1>1, PassesFrame
<1>3. PICK q : NoCreate(q) /\ todo' = [todo EXCEPT ![t] = q]
  BY <1>1, PassesFrame
<1>4. \A u \in Threads : Doing(u, "create")' => todo'[u] = todo[u] /\ Doing(u, "create")
  BY <1>1, <1>3, DraftsLeft
<1>5. StoredKept'
  BY <1>1, <1>2, KeptFrame DEF LedgerInv, StoredKept
<1>6. DraftsKept'
  BY <1>1, <1>2, <1>4, KeptFrame DEF LedgerInv, DraftsKept
<1>7. UnissuedUntouched' /\ (lapsed \subseteq stored)'
  BY <1>2 DEF LedgerInv, UnissuedUntouched
<1>8. QED
  BY <1>5, <1>6, <1>7 DEF LedgerInv

LEMMA LedgerStep ==
  ASSUME AmountsFit
  PROVE  LedgerInv /\ [Next]_vars => LedgerInv'
<1> SUFFICES ASSUME LedgerInv, [Next]_vars
             PROVE  LedgerInv'
  OBVIOUS
<1>1. SafetyInv /\ SafetyInv'
  BY SafetyStep DEF LedgerInv
<1>2. ASSUME NEW t \in Threads, Request(t) \/ Continue(t) \/ InsertLost(t) \/ Crash(t)
      PROVE  LedgerInv'
  <2>1. Shaped(t)
    BY <1>1, <1>2, StepShape
  <2>2. QED
    BY <1>1, <2>1, CreateKeeps, StoreKeeps, UpdateKeeps, PassKeeps DEF Shaped, Drafts
<1>3. ASSUME NEW id \in Intents, WindowElapses(id)
      PROVE  LedgerInv'
  <2>1. /\ id \in stored /\ lapsed' = lapsed \cup {id}
        /\ UNCHANGED <<issued, stored, intents, gateway, todo, faults>>
    BY <1>3 DEF WindowElapses
  <2>2. (lapsed \subseteq stored)'
    BY <2>1 DEF LedgerInv
  <2>3. UnissuedUntouched' /\ StoredKept' /\ DraftsKept'
    BY <2>1 DEF LedgerInv, UnissuedUntouched, StoredKept, DraftsKept, Doing
  <2>4. QED
    BY <1>1, <2>2, <2>3 DEF LedgerInv
<1>4. CASE UNCHANGED vars
  BY <1>1, <1>4 DEF vars, LedgerInv, UnissuedUntouched, StoredKept, DraftsKept, Doing
<1>5. QED
  BY <1>2, <1>3, <1>4 DEF Next

-----------------------------------------------------------------------------
(* What follows.                                                           *)

\* LedgerInv holds in every reachable state, on both stores and under every
\* fault: what an intent says of the money agrees with what its handlers had
\* the rail do.
THEOREM LedgerInvariant ==
  ASSUME AmountsFit
  PROVE  Spec => []LedgerInv
<1>1. Init => LedgerInv
  BY LedgerInit
<1>2. LedgerInv /\ [Next]_vars => LedgerInv'
  BY LedgerStep
<1>3. QED
  BY <1>1, <1>2, PTL DEF Spec

\* Without a fault the captured amount of an intent is what Capture and Submit
\* had the rail capture.
THEOREM DriftNeedsFault ==
  ASSUME AmountsFit
  PROVE  Spec => []CaptureDriftNeedsFault
<1>1. LedgerInv => CaptureDriftNeedsFault
  <2> SUFFICES ASSUME LedgerInv, NEW id \in stored, intents[id].captured # gateway[id].captured
               PROVE  faults > 0
    BY DEF CaptureDriftNeedsFault
  <2>1. faults \in Nat /\ (faults = 0 => intents[id].captured = gateway[id].captured)
    BY DEF LedgerInv, SafetyInv, TypeOK, StoredKept, Kept
  <2>2. QED
    BY <2>1
<1>2. QED
  BY <1>1, LedgerInvariant, PTL

\* A settlement that does not match the captured amount leaves its
\* reconciliation break on the intent for good.
THEOREM BreaksSurface ==
  ASSUME AmountsFit
  PROVE  Spec => []BreakSurfaced
<1>1. LedgerInv => BreakSurfaced
  BY DEF LedgerInv, StoredKept, Kept, BreakSurfaced
<1>2. QED
  BY <1>1, LedgerInvariant, PTL

\* A refund that the rail makes within its limit does not wrap, so the sum that
\* Refund checks is the sum it books, however often a settled intent is refunded.
LEMMA RefundStep ==
  ASSUME RailFits, LedgerInv, RefundWithinCapture, [Next]_vars
  PROVE  RefundWithinCapture'
<1>1. /\ SafetyInv /\ intents \in [Intents -> Intent] /\ stored \subseteq Intents
      /\ \A j \in stored : 0 <= intents[j].refunded /\ intents[j].refunded <= intents[j].captured
  BY DEF LedgerInv, SafetyInv, TypeOK, RefundWithinCapture
<1>2. UNCHANGED <<stored, intents>> => RefundWithinCapture'
  BY DEF RefundWithinCapture
<1>3. ASSUME NEW t \in Threads, Request(t) \/ Continue(t) \/ InsertLost(t) \/ Crash(t)
      PROVE  RefundWithinCapture'
  <2>1. Shaped(t)
    BY <1>1, <1>3, StepShape
  <2>2. CASE Drafts(t) \/ Passes(t)
    <3>1. UNCHANGED <<stored, intents>>
      BY <1>1, <2>2, PassesFrame DEF Drafts, Creates
    <3>2. QED
      BY <1>2, <3>1
  <2>3. CASE StoreIntent(t)
    <3> DEFINE h == Head(todo[t])
    <3>1. /\ Doing(t, "create") /\ stored' = stored \cup {h.id}
          /\ intents' = [intents EXCEPT ![h.id] = h.intent]
      BY <2>3 DEF StoreIntent
    <3>2. h.id \in Intents /\ h.id \notin stored /\ Sound(h.intent, gateway[h.id])
      BY <1>1, <3>1, DraftFacts
    <3>3. Fresh(h.intent)
      BY <3>1 DEF LedgerInv, DraftsKept
    <3> HIDE DEF h
    <3>4. intents'[h.id] = h.intent /\ \A j \in stored : intents'[j] = intents[j]
      BY <1>1, <3>1, <3>2
    <3>5. 0 <= h.intent.refunded /\ h.intent.refunded <= h.intent.captured
      BY <3>2, <3>3 DEF Fresh, Sound
    <3>6. QED
      BY <1>1, <3>1, <3>4, <3>5 DEF RefundWithinCapture
  <2>4. ASSUME NEW id \in Intents, NEW c \in Intent, NEW h \in Ledger, NEW ok \in BOOLEAN,
               NEW to \in SUBSET Status, Updates(t, id, c, h, ok, to)
        PROVE  RefundWithinCapture'
    <3>1. /\ id \in stored /\ stored' = stored
          /\ intents' = [intents EXCEPT ![id] = c] \/ intents' = intents
          /\ \/ Requested(intents[id], gateway[id], c, h, ok, to)
             \/ Disputed(intents[id], gateway[id], c, h, ok, to)
      BY <2>4 DEF Updates, Writes
    <3>2. 0 <= c.refunded /\ c.refunded <= c.captured
      <4> DEFINE i == intents[id]
                 g == gateway[id]
      <4>1. /\ i \in Intent /\ 0 <= i.refunded /\ i.refunded <= i.captured
            /\ i.captured \in Int /\ i.refunded \in Int /\ c.captured \in Int /\ c.refunded \in Int
        BY <1>1, <3>1, MaxIntAssumption DEF Intent, Int64
      <4> HIDE DEF i, g
      <4>2. CASE Captures(i, g, c, h)
        BY <4>1, <4>2 DEF Captures
      <4>3. CASE Refunds(i, g, c, h, ok)
        BY <4>1, <4>3 DEF Refunds
      <4>4. CASE c.captured = i.captured /\ c.refunded = i.refunded
        BY <4>1, <4>4
      <4>5. QED
        BY <3>1, <4>2, <4>3, <4>4
        DEF Requested, Disputed, Voids, FailsChallenge, PassesChallenge, Settles, Disputes,
            SameMoney, i, g
    <3>3. QED
      BY <1>1, <3>1, <3>2 DEF RefundWithinCapture
  <2>5. QED
    BY <2>1, <2>2, <2>3, <2>4 DEF Shaped
<1>4. QED
  BY <1>2, <1>3 DEF Next, WindowElapses, vars

\* On either store, as long as the rail refuses before its totals overflow, the
\* refunded amount that Refund books stays within the captured amount: on
\* MemStore too, where each refund of a settled intent adds to it.
THEOREM RefundsStayWithinCaptureOnBoth ==
  ASSUME AmountsFit, RailFits
  PROVE  Spec => []RefundWithinCapture
<1>1. Init => RefundWithinCapture
  BY DEF Init, RefundWithinCapture
<1>2. LedgerInv /\ RefundWithinCapture /\ [Next]_vars => RefundWithinCapture'
  BY RefundStep
<1>3. QED
  BY <1>1, <1>2, LedgerInvariant, PTL DEF Spec

\* A step that finds the window of id over and the challenge not passed leaves
\* it so: of the calls of UpdateIntent only a challenge takes such an intent,
\* and it fails without a call to the rail.
LEMMA LapsedStep ==
  ASSUME LedgerInv, [Next]_vars, NEW id \in lapsed,
         intents[id].status \in {"3ds_pending", "failed"}
  PROVE  gateway'[id] = gateway[id] /\ intents'[id].status \in {"3ds_pending", "failed"}
<1>1. /\ SafetyInv /\ intents \in [Intents -> Intent] /\ gateway \in [Intents -> Ledger]
      /\ id \in stored /\ id \in Intents /\ stored \subseteq issued
  BY DEF LedgerInv, SafetyInv, TypeOK, DraftsSound
<1>2. ASSUME NEW t \in Threads, Request(t) \/ Continue(t) \/ InsertLost(t) \/ Crash(t)
      PROVE  gateway'[id] = gateway[id] /\ intents'[id].status \in {"3ds_pending", "failed"}
  <2>1. Shaped(t)
    BY <1>1, <1>2, StepShape
  <2>2. Drafts(t) => gateway'[id] = gateway[id] /\ intents' = intents
    BY <1>1 DEF Drafts, Creates
  <2>3. Passes(t) => gateway' = gateway /\ intents' = intents
    BY <1>1, PassesFrame
  <2>4. ASSUME StoreIntent(t)
        PROVE  gateway' = gateway /\ intents'[id] = intents[id]
    <3>1. Doing(t, "create") => Head(todo[t]).id \notin stored
      BY <1>1, DraftFacts
    <3>2. QED
      BY <1>1, <2>4, <3>1 DEF StoreIntent
  <2>5. ASSUME NEW j \in Intents, NEW c \in Intent, NEW h \in Ledger, NEW ok \in BOOLEAN,
               NEW to \in SUBSET Status, Updates(t, j, c, h, ok, to)
        PROVE  gateway'[id] = gateway[id] /\ intents'[id].status \in {"3ds_pending", "failed"}
    <3>1. /\ gateway' = [gateway EXCEPT ![j] = h]
          /\ intents' = [intents EXCEPT ![j] = c] \/ intents' = intents
          /\ \/ Requested(intents[j], gateway[j], c, h, ok, to)
             \/ Disputed(intents[j], gateway[j], c, h, ok, to)
          /\ j \in lapsed /\ intents[j].status = "3ds_pending" =>
               c.status = "failed" /\ h = gateway[j]
      BY <2>5 DEF Updates, Writes
    <3>2. CASE j # id
      BY <1>1, <3>1, <3>2
    <3>3. CASE j = id
      <4> DEFINE i == intents[id]
                 g == gateway[id]
      <4>1. Requested(i, g, c, h, ok, to) \/ Disputed(i, g, c, h, ok, to)
        BY <3>1, <3>3
      <4>2. i.status \in {"3ds_pending", "failed"}
        OBVIOUS
      <4>3. i.status = "3ds_pending"
        <5> HIDE DEF i, g
        <5>1. QED
          BY <4>1, <4>2 DEF Requested, Disputed, Captures, Voids, Refunds, FailsChallenge,
                            PassesChallenge, Settles, Disputes
      <4>4. QED
        BY <1>1, <3>1, <3>3, <4>3
    <3>4. QED
      BY <3>2, <3>3
  <2>6. QED
    BY <2>1, <2>2, <2>3, <2>4, <2>5 DEF Shaped
<1>3. QED
  BY <1>2 DEF Next, WindowElapses, vars

\* A payment that has not passed its challenge when the 3DS window is over stays
\* as it is at the rail and never leaves 3ds_pending and failed, on either store
\* and under every fault.
THEOREM LapsedStaysUncharged ==
  ASSUME AmountsFit
  PROVE  Spec => LapsedMovesNoMoney
<1>1. LedgerInv /\ [Next]_vars =>
        [\A id \in lapsed : intents[id].status \in {"3ds_pending", "failed"} =>
           /\ gateway'[id] = gateway[id]
           /\ intents'[id].status \in {"3ds_pending", "failed"}]_vars
  BY LapsedStep
<1>2. QED
  BY <1>1, LedgerInvariant, PTL DEF Spec, LapsedMovesNoMoney

-----------------------------------------------------------------------------
(* A cancelled payment.                                                    *)

\* Where no fault is configured none is counted.
LEMMA FaultFree ==
  ASSUME Faults = {}, faults = 0, [Next]_vars
  PROVE  faults' = 0
<1>1. \A kinds : Outcomes(kinds) = {"ok"}
  BY DEF Outcomes
<1>2. ASSUME NEW t \in Threads, CreateIntent(t)
      PROVE  faults' = faults
  BY <1>1, <1>2 DEF CreateIntent, CreateThreeDS, CreateFailed, CreateAuthorized,
                    CreateReplyLost, CreateInstant
<1>3. ASSUME NEW t, NEW id, NEW i, NEW ok, NEW to, NEW rest,
             UpdateIntentStep(t, id, i, ok, to, rest, "ok")
      PROVE  faults' = faults
  BY <1>3 DEF UpdateIntentStep, CountFault
<1>4. ASSUME NEW t \in Threads, Request(t)
      PROVE  faults' = faults
  <2>1. ASSUME NEW id \in Intents, NEW a,
               Capture(t, id, a, "ok") \/ Void(t, id, "ok") \/ Refund(t, id, a, "ok")
               \/ ChallengeExpired(t, id) \/ ChallengeRefused(t, id)
               \/ ChallengeVerified(t, id, "ok") \/ Settlement(t, id, a, "ok")
        PROVE  faults' = faults
    BY <1>3, <2>1 DEF Capture, Void, Refund, ChallengeExpired, ChallengeRefused, ChallengeFails,
                      ChallengeVerified, Settlement
  <2>2. ASSUME NEW id \in Intents, NEW c, NEW s, NEW a, ChargebackWebhook(t, id, c, s, a, "ok")
        PROVE  faults' = faults
    BY <2>2 DEF ChargebackWebhook, CountFault
  <2>3. ASSUME NEW id \in Intents
        PROVE  ~ChallengeReplyLost(t, id)
    BY <1>1 DEF ChallengeReplyLost
  <2>4. QED
    BY <1>1, <1>2, <1>4, <2>1, <2>2, <2>3 DEF Request
<1>5. ASSUME NEW t \in Threads, Continue(t)
      PROVE  faults' = faults
  <2>1. ASSUME NEW id, NEW from, NEW to, DisputeStep(t, id, from, to, "ok")
        PROVE  faults' = faults
    BY <1>3, <2>1 DEF DisputeStep
  <2>2. OpenDispute(t, "ok") \/ CloseDispute(t, "ok") => faults' = faults
    BY <2>1 DEF OpenDispute, CloseDispute
  <2>3. StoreIntent(t) \/ AddRow(t) \/ EmitTransition(t) \/ AddChargeback(t)
        \/ UpdateChargeback(t) => faults' = faults
    BY DEF StoreIntent, AddRow, EmitTransition, AddChargeback, UpdateChargeback
  <2>4. QED
    BY <1>1, <1>5, <2>2, <2>3 DEF Continue
<1>6. ASSUME NEW t \in Threads
      PROVE  ~InsertLost(t) /\ ~Crash(t)
  BY <1>1 DEF InsertLost, Crash
<1>7. ASSUME NEW id \in Intents, WindowElapses(id)
      PROVE  faults' = faults
  BY <1>7 DEF WindowElapses
<1>8. QED
  BY <1>4, <1>5, <1>6, <1>7 DEF Next, vars

\* A call that finds the payment cancelled has the rail move no money.
LEMMA CancelledEffect ==
  ASSUME NEW i, NEW g, NEW c, NEW h, NEW ok, NEW to, Kept(i, g, 0), "void" \in g.done,
         Requested(i, g, c, h, ok, to) \/ Disputed(i, g, c, h, ok, to)
  PROVE  h.captured = g.captured /\ h.refunded = g.refunded
<1>1. \/ i.status \in {"voided", "refunded"}
      \/ i.status = "settled" /\ i.captured = 0 /\ i.refunded = 0
  BY DEF Kept
<1>2. Refunds(i, g, c, h, ok) \/ h = g
  BY <1>1 DEF Requested, Disputed, Captures, Voids, FailsChallenge, PassesChallenge, Settles
<1>3. QED
  BY <1>1, <1>2 DEF Refunds

LEMMA CancelledStep ==
  ASSUME LedgerInv, faults = 0, [Next]_vars, NEW id \in Intents, "void" \in gateway[id].done
  PROVE  gateway'[id].captured = gateway[id].captured /\ gateway'[id].refunded = gateway[id].refunded
<1>1. gateway \in [Intents -> Ledger] /\ SafetyInv
  BY DEF LedgerInv, SafetyInv, TypeOK
<1>2. ASSUME NEW t \in Threads, Request(t) \/ Continue(t) \/ InsertLost(t) \/ Crash(t)
      PROVE  gateway'[id].captured = gateway[id].captured /\ gateway'[id].refunded = gateway[id].refunded
  <2>1. Shaped(t)
    BY <1>1, <1>2, StepShape
  <2>2. ASSUME NEW j \in Intents, NEW i \in Intent, NEW g \in Ledger, NEW e \in SUBSET Status,
               Creates(t, j, i, g, e)
        PROVE  gateway'[id] = gateway[id]
    <3>1. j \notin issued /\ gateway' = [gateway EXCEPT ![j] = g]
      BY <2>2 DEF Creates
    <3>2. gateway[j].done = {}
      BY <3>1 DEF LedgerInv, UnissuedUntouched, EmptyLedger
    <3>3. QED
      BY <1>1, <3>1, <3>2
  <2>3. StoreIntent(t) \/ Passes(t) => gateway' = gateway
    BY <1>1, PassesFrame DEF StoreIntent
  <2>4. ASSUME NEW j \in Intents, NEW c \in Intent, NEW h \in Ledger, NEW ok \in BOOLEAN,
               NEW to \in SUBSET Status, Updates(t, j, c, h, ok, to)
        PROVE  gateway'[id].captured = gateway[id].captured /\ gateway'[id].refunded = gateway[id].refunded
    <3>1. /\ j \in stored /\ gateway' = [gateway EXCEPT ![j] = h]
          /\ Requested(intents[j], gateway[j], c, h, ok, to)
             \/ Disputed(intents[j], gateway[j], c, h, ok, to)
      BY <2>4 DEF Updates
    <3>2. Kept(intents[j], gateway[j], 0)
      BY <3>1 DEF LedgerInv, StoredKept
    <3>3. CASE j = id
      BY <1>1, <3>1, <3>2, <3>3, CancelledEffect
    <3>4. CASE j # id
      BY <1>1, <3>1, <3>4
    <3>5. QED
      BY <3>3, <3>4
  <2>5. QED
    BY <2>1, <2>2, <2>3, <2>4 DEF Shaped, Drafts
<1>3. ASSUME NEW j \in Intents, WindowElapses(j)
      PROVE  gateway' = gateway
  BY <1>3 DEF WindowElapses
<1>4. QED
  BY <1>2, <1>3 DEF Next, vars

\* Where nothing fails, no request has the rail capture or refund a payment
\* after it was cancelled: a refund of a settled payment of which nothing was
\* captured is the one call that still reaches the rail, and it is for 0.
THEOREM VoidStaysFinal ==
  ASSUME AmountsFit, Faults = {}
  PROVE  Spec => VoidIsFinalAtRail
<1> DEFINE Quiet == \A id \in Intents : "void" \in gateway[id].done =>
                      /\ gateway'[id].captured = gateway[id].captured
                      /\ gateway'[id].refunded = gateway[id].refunded
           Clean == faults = 0
<1>1. Init => Clean
  BY DEF Init
<1>2. Clean /\ [Next]_vars => Clean'
  BY FaultFree
<1>3. LedgerInv /\ Clean /\ [Next]_vars => [Quiet]_vars
  BY CancelledStep
<1>4. VoidIsFinalAtRail <=> [][Quiet]_vars
  BY DEF VoidIsFinalAtRail
<1> HIDE DEF Quiet, Clean
<1>5. QED
  BY <1>1, <1>2, <1>3, <1>4, LedgerInvariant, PTL DEF Spec

-----------------------------------------------------------------------------
(* On Postgres the intents table implements PaymentLifecycle.              *)

\* What GET /v1/payments/:id shows of a stored intent.
Shown(i) == [status |-> i.status, amount |-> i.amount, captured |-> i.captured,
             refunded |-> i.refunded]

\* What is committed is a move of the lifecycle.
LEMMA EffectMoves ==
  ASSUME NEW i \in Intent, NEW g, NEW c \in Intent, NEW h, NEW to,
         Requested(i, g, c, h, TRUE, to) \/ Disputed(i, g, c, h, TRUE, to),
         i.status = "captured" => i.refunded = 0
  PROVE  Lifecycle!Move(Shown(i), Shown(c))
<1> DEFINE p == Shown(i)
           q == Shown(c)
<1>1. /\ p.status = i.status /\ p.amount = i.amount /\ p.captured = i.captured
      /\ p.refunded = i.refunded
      /\ q.status = c.status /\ q.amount = c.amount /\ q.captured = c.captured
      /\ q.refunded = c.refunded
  BY DEF Shown
<1>2. /\ i.amount \in Int /\ i.captured \in Int /\ c.captured \in Int
      /\ c.amount = i.amount
  <2>1. i.amount \in Int /\ i.captured \in Int /\ c.captured \in Int
    BY MaxIntAssumption DEF Intent, Int64
  <2>2. c.amount = i.amount
    BY Zenon DEF Requested, Disputed
  <2>3. QED
    BY <2>1, <2>2
<1> HIDE DEF p, q
<1>3. CASE Captures(i, g, c, h)
  <2>1. Lifecycle!CapturePart(p, q) \/ Lifecycle!CaptureLast(p, q)
    BY <1>1, <1>2, <1>3 DEF Captures, Lifecycle!CapturePart, Lifecycle!CaptureLast, Lifecycle!Moves
  <2>2. QED
    BY <2>1 DEF Lifecycle!Move, p, q
<1>4. CASE Voids(i, g, c, h)
  <2>1. Lifecycle!Void(p, q)
    BY <1>1, <1>2, <1>4 DEF Voids, Advances, SameMoney, Lifecycle!Void, Lifecycle!Moves,
                            Lifecycle!Keeps
  <2>2. QED
    BY <2>1 DEF Lifecycle!Move, p, q
<1>5. CASE Refunds(i, g, c, h, TRUE)
  <2>1. Lifecycle!Refund(p, q)
    BY <1>1, <1>2, <1>5 DEF Refunds, Lifecycle!Refund, Lifecycle!Moves
  <2>2. QED
    BY <2>1 DEF Lifecycle!Move, p, q
<1>6. CASE PassesChallenge(i, g, c, h)
  <2>1. Lifecycle!Resume(p, q)
    BY <1>1, <1>2, <1>6 DEF PassesChallenge, Advances, SameMoney, Lifecycle!Resume,
                            Lifecycle!Moves, Lifecycle!Keeps
  <2>2. QED
    BY <2>1 DEF Lifecycle!Move, p, q
<1>7. CASE Settles(i, c)
  <2>1. Lifecycle!Settle(p, q)
    BY <1>1, <1>2, <1>7 DEF Settles, Lifecycle!Settle, Lifecycle!Moves, Lifecycle!Keeps
  <2>2. QED
    BY <2>1 DEF Lifecycle!Move, p, q
<1>8. CASE Disputes(i, c)
  <2>1. Lifecycle!Dispute(p, q) \/ Lifecycle!Decide(p, q)
    BY <1>1, <1>2, <1>8 DEF Disputes, Advances, SameMoney, Lifecycle!Dispute, Lifecycle!Decide,
                            Lifecycle!Moves, Lifecycle!Keeps
  <2>2. QED
    BY <2>1 DEF Lifecycle!Move, p, q
<1>9. QED
  BY <1>3, <1>4, <1>5, <1>6, <1>7, <1>8 DEF Requested, Disputed

\* What CreateIntent stores appears as the lifecycle says.
LEMMA FreshOpens ==
  ASSUME NEW i \in Intent, Fresh(i)
  PROVE  Lifecycle!Move(Lifecycle!Unknown, Shown(i))
<1> DEFINE q == Shown(i)
<1>1. q.status = i.status /\ q.amount = i.amount /\ q.captured = i.captured /\ q.refunded = i.refunded
  BY DEF Shown
<1>2. i.amount \in Int /\ i.captured \in Int
  BY MaxIntAssumption DEF Intent, Int64
<1> HIDE DEF q
<1>3. Lifecycle!Open(Lifecycle!Unknown, q)
  BY <1>1, <1>2 DEF Fresh, Lifecycle!Open
<1>4. QED
  BY <1>3 DEF Lifecycle!Move, q

LEMMA SeenStored ==
  ASSUME NEW id \in Intents
  PROVE  /\ id \in stored => seen[id] = Shown(intents[id])
         /\ id \notin stored => seen[id] = Lifecycle!Unknown
BY DEF seen, Seen, Shown, Lifecycle!Unknown

\* A step that moves one payment, and no other, is a step of the lifecycle.
LEMMA OneMoves ==
  ASSUME NEW id \in Intents, \A j \in Intents \ {id} : seen'[j] = seen[j],
         Lifecycle!Move(seen[id], seen'[id])
  PROVE  Lifecycle!Next
<1>1. seen = [j \in Intents |-> seen[j]] /\ seen' = [j \in Intents |-> seen'[j]]
  BY DEF seen
<1>2. seen' = [seen EXCEPT ![id] = seen'[id]]
  BY <1>1
<1>3. QED
  BY <1>2 DEF Lifecycle!Next

\* A step that changes neither the intents table nor its keys is not seen.
LEMMA NothingSeen ==
  ASSUME UNCHANGED <<stored, intents>>
  PROVE  seen' = seen
BY DEF seen, Seen

LEMMA LifecycleStep ==
  ASSUME LedgerInv, LedgerInv', StoreKind = "postgres", [Next]_vars
  PROVE  [Lifecycle!Next]_seen
<1>1. /\ SafetyInv /\ intents \in [Intents -> Intent] /\ stored \subseteq Intents
  BY DEF LedgerInv, SafetyInv, TypeOK
<1>2. ASSUME NEW t \in Threads, Request(t) \/ Continue(t) \/ InsertLost(t) \/ Crash(t)
      PROVE  [Lifecycle!Next]_seen
  <2>1. Shaped(t)
    BY <1>1, <1>2, StepShape
  <2>2. ASSUME NEW id \in Intents, NEW i \in Intent, NEW g \in Ledger, NEW e \in SUBSET Status,
               Creates(t, id, i, g, e)
        PROVE  seen' = seen
    BY <2>2, NothingSeen DEF Creates
  <2>3. Passes(t) => seen' = seen
    BY <1>1, PassesFrame, NothingSeen
  <2>4. CASE StoreIntent(t)
    <3> DEFINE h == Head(todo[t])
    <3>1. /\ Doing(t, "create") /\ stored' = stored \cup {h.id}
          /\ intents' = [intents EXCEPT ![h.id] = h.intent]
      BY <2>4 DEF StoreIntent
    <3>2. h.id \in Intents /\ h.id \notin stored /\ h.intent \in Intent
      BY <1>1, <3>1, DraftFacts
    <3>3. Fresh(h.intent)
      BY <3>1 DEF LedgerInv, DraftsKept
    <3> HIDE DEF h
    <3>4. seen[h.id] = Lifecycle!Unknown /\ seen'[h.id] = Shown(h.intent)
      <4>1. intents'[h.id] = h.intent /\ h.id \in stored'
        BY <1>1, <3>1, <3>2
      <4>2. QED
        BY <3>2, <4>1, SeenStored DEF seen, Seen, Shown
    <3>5. \A j \in Intents \ {h.id} : seen'[j] = seen[j]
      BY <1>1, <3>1, <3>2 DEF seen, Seen
    <3>6. QED
      BY <3>2, <3>3, <3>4, <3>5, FreshOpens, OneMoves
  <2>5. ASSUME NEW id \in Intents, NEW c \in Intent, NEW h \in Ledger, NEW ok \in BOOLEAN,
               NEW to \in SUBSET Status, Updates(t, id, c, h, ok, to)
        PROVE  [Lifecycle!Next]_seen
    <3>1. id \in stored /\ stored' = stored
      BY <2>5 DEF Updates
    <3>2. CASE intents' = intents
      BY <3>1, <3>2, NothingSeen
    <3>3. CASE intents' = [intents EXCEPT ![id] = c] /\ ok
      <4>1. \/ Requested(intents[id], gateway[id], c, h, TRUE, to)
            \/ Disputed(intents[id], gateway[id], c, h, TRUE, to)
        BY <2>5, <3>3 DEF Updates
      <4>2. intents[id] \in Intent /\ (intents[id].status = "captured" => intents[id].refunded = 0)
        BY <1>1, <3>1 DEF SafetyInv, Sound
      <4>3. Lifecycle!Move(Shown(intents[id]), Shown(c))
        BY <4>1, <4>2, EffectMoves
      <4>4. seen[id] = Shown(intents[id]) /\ seen'[id] = Shown(c)
        BY <1>1, <3>1, <3>3 DEF seen, Seen, Shown
      <4>5. \A j \in Intents \ {id} : seen'[j] = seen[j]
        BY <1>1, <3>1, <3>3 DEF seen, Seen
      <4>6. QED
        BY <4>3, <4>4, <4>5, OneMoves
    <3>4. QED
      BY <2>5, <3>2, <3>3 DEF Updates, Writes
  <2>6. QED
    BY <2>1, <2>2, <2>3, <2>4, <2>5 DEF Shaped, Drafts
<1>3. ASSUME NEW id \in Intents, WindowElapses(id)
      PROVE  seen' = seen
  BY <1>3, NothingSeen DEF WindowElapses
<1>4. UNCHANGED vars => seen' = seen
  BY NothingSeen DEF vars
<1>5. QED
  BY <1>2, <1>3, <1>4 DEF Next

\* On Postgres, whatever replies are lost, writes fail and processes stop, the
\* intents table moves each payment as PaymentLifecycle promises.
THEOREM LifecycleImplemented ==
  ASSUME AmountsFit, StoreKind = "postgres"
  PROVE  Spec => LifecycleSpec
<1>1. Init => Lifecycle!Init
  BY DEF Init, Lifecycle!Init, Lifecycle!Unknown, seen, Seen
<1>2. LedgerInv /\ LedgerInv' /\ [Next]_vars => [Lifecycle!Next]_seen
  BY LifecycleStep
<1>3. QED
  BY <1>1, <1>2, LedgerInvariant, PTL DEF Spec, LifecycleSpec, Lifecycle!Spec
=============================================================================
