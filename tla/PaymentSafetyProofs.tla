------------------------- MODULE PaymentSafetyProofs --------------------------
(***************************************************************************)
(* The amounts of an intent are sound, whatever the threads interleave and *)
(* whichever fault happens: SafetyInv is inductive, and the safety         *)
(* properties of PaymentService follow from it.                            *)
(***************************************************************************)
EXTENDS PaymentServiceProofs

-----------------------------------------------------------------------------
(* One intent and one ledger: what each request does to Sound.             *)

\* Without overflow Wrap is the identity.
LEMMA WrapFits ==
  ASSUME NEW n \in Int, 0 <= n, n <= MaxInt
  PROVE  Wrap(n) = n
BY MaxIntAssumption DEF Wrap

\* What the rail does more for a payment never invalidates its books.
LEMMA RailOnlyAdds ==
  ASSUME NEW i \in Intent, NEW g \in Ledger, NEW a \in Int, 0 <= a, Sound(i, g)
  PROVE  /\ Sound(i, RailAuthorize(g))
         /\ Sound(i, RailCapture(g, a))
         /\ Sound(i, RailRefund(g, a))
         /\ Sound(i, RailVoid(g))
<1> USE DEF Sound, Ledger, Intent, Int64
<1>1. Sound(i, RailAuthorize(g))
  BY DEF RailAuthorize
<1>2. Sound(i, RailCapture(g, a))
  BY MaxIntAssumption DEF RailCapture
<1>3. Sound(i, RailRefund(g, a))
  BY MaxIntAssumption DEF RailRefund
<1>4. Sound(i, RailVoid(g))
  BY DEF RailVoid, RailRefund
<1>5. QED
  BY <1>1, <1>2, <1>3, <1>4

\* An allowed capture takes a positive amount out of what is left; the one
\* that takes all of it moves the intent to captured.
LEMMA CaptureSound ==
  ASSUME NEW i \in Intent, NEW g \in Ledger, NEW a \in CaptureAmounts(i),
         Sound(i, g), CaptureAllowed(i, a)
  PROVE  /\ 0 < a
         /\ Sound(i, RailCapture(g, a))
         /\ Sound(ApplyCapture(i, a), RailCapture(g, a))
<1> DEFINE c == [i EXCEPT !.captured = Wrap(@ + a)]
<1>1. i.amount \in Int /\ i.captured \in Int /\ i.refunded \in Int
      /\ 0 < i.amount /\ 2 * i.amount <= MaxInt /\ MaxInt \in Int
      /\ 0 <= i.captured /\ i.captured < i.amount
  BY MaxIntAssumption DEF Sound, CaptureAllowed, Intent, Int64
<1>2. Wrap(i.amount - i.captured) = i.amount - i.captured
  BY <1>1, WrapFits
<1>3. a \in Int /\ 0 < a /\ a <= i.amount
  BY <1>1, <1>2, RequestAmountTypes, MaxIntAssumption DEF CaptureAmounts, Int64
<1>4. Wrap(i.captured + a) = i.captured + a
  BY <1>1, <1>3, WrapFits
<1>5. c \in Intent /\ c.captured = i.captured + a /\ c.captured <= c.amount
      /\ c.status = "authorized" /\ c.rail = "card" /\ c.amount = i.amount
      /\ c.refunded = i.refunded
  <2>1. a \in Int64
    BY RequestAmountTypes
  <2>2. Wrap(i.captured + a) \in Int64
    BY <2>1, WrapType DEF Intent
  <2>3. QED
    BY <1>4, <2>2 DEF Intent, CaptureAllowed
<1>6. RailCapture(g, a).captured = g.captured + a /\ RailCapture(g, a).refunded = g.refunded
      /\ RailCapture(g, a).done = g.done /\ g.captured \in Int /\ g.refunded \in Int
  BY DEF RailCapture, Ledger
<1>7. Sound(i, RailCapture(g, a))
  BY <1>3, RailOnlyAdds
<1>8. CASE c.captured >= c.amount
  <2>1. ApplyCapture(i, a) = Transition(c, "captured")
    BY <1>8 DEF ApplyCapture
  <2>2. TransitionAllowed(c, "captured")
    BY <1>5 DEF TransitionAllowed, IsTerminal, CanTransition
  <2> DEFINE f == Transition(c, "captured")
  <2>3. /\ f \in Intent /\ f.rail = "card" /\ f.amount = i.amount
        /\ f.captured = i.captured + a /\ f.refunded = i.refunded /\ f.status = "captured"
    BY <1>5, <2>2, TransitionType DEF Status
  <2> HIDE DEF f, c
  <2>4. f.captured = f.amount
    BY <1>1, <1>3, <1>5, <1>8, <2>3
  <2>5. Sound(f, RailCapture(g, a))
    BY <1>1, <1>3, <1>6, <2>3, <2>4 DEF Sound, CaptureAllowed
  <2>6. QED
    BY <1>3, <1>7, <2>1, <2>5 DEF f
<1>9. CASE ~(c.captured >= c.amount)
  <2> DEFINE f == AppendEvent(c, "captured")
  <2>1. ApplyCapture(i, a) = f
    BY <1>9 DEF ApplyCapture
  <2>2. /\ f.rail = "card" /\ f.amount = i.amount
        /\ f.captured = i.captured + a /\ f.refunded = i.refunded /\ f.status = "authorized"
    BY <1>5 DEF AppendEvent, Intent
  <2> HIDE DEF f, c
  <2>3. f.captured < f.amount
    BY <1>1, <1>3, <1>5, <1>9, <2>2
  <2>4. Sound(f, RailCapture(g, a))
    BY <1>1, <1>3, <1>6, <2>2, <2>3 DEF Sound, CaptureAllowed
  <2>5. QED
    BY <1>3, <1>7, <2>1, <2>4
<1>10. QED
  BY <1>8, <1>9

\* A refund the rail has made keeps the books sound; the store may keep the
\* handler's record if the handler succeeded or if it is MemStore.
LEMMA RefundSound ==
  ASSUME NEW i \in Intent, NEW g \in Ledger, NEW a \in RefundAmounts(i),
         Sound(i, g), RefundAllowed(i, a)
  PROVE  /\ 0 <= a
         /\ Sound(i, RailRefund(g, a))
         /\ (StoreKind = "mem" \/ TransitionAllowed(i, "refunding")) =>
              Sound(ApplyRefund(i, a), RailRefund(g, a))
<1> DEFINE c == [i EXCEPT !.refunded = Wrap(@ + a)]
<1>1. i.amount \in Int /\ i.captured \in Int /\ i.refunded \in Int64 /\ i.refunded \in Int
      /\ MaxInt \in Nat /\ 0 <= i.captured
  BY MaxIntAssumption DEF Sound, Intent, Int64
<1>2. a \in Int64 /\ a \in Int /\ 0 <= a /\ a <= MaxInt
  BY <1>1, RequestAmountTypes, MaxIntAssumption DEF RefundAmounts, Int64
<1>3. Wrap(i.refunded + a) \in Int64 /\ Wrap(i.refunded + a) <= i.refunded + a
      /\ Wrap(i.refunded + a) \in Int
  BY <1>1, <1>2, WrapType DEF Wrap, Int64
<1>4. /\ c \in Intent /\ c.rail = i.rail /\ c.amount = i.amount /\ c.captured = i.captured
      /\ c.status = i.status /\ c.refunded = Wrap(i.refunded + a)
  BY <1>3 DEF Intent
<1>5. RailRefund(g, a).captured = g.captured /\ RailRefund(g, a).refunded = g.refunded + a
      /\ g.done \subseteq RailRefund(g, a).done /\ g.captured \in Int /\ g.refunded \in Int
  BY DEF RailRefund, Ledger
<1>6. Sound(i, RailRefund(g, a))
  BY <1>2, RailOnlyAdds
<1>7. StoreKind = "postgres" => c.refunded = a
  BY <1>1, <1>2, <1>4, WrapFits DEF Sound, RefundAllowed
<1>8. c.refunded <= g.refunded + a /\ c.refunded <= c.captured
  BY <1>1, <1>2, <1>3, <1>4, <1>5 DEF Sound, RefundAllowed
<1> HIDE DEF c
<1> DEFINE d == Transition(c, "refunding")
           f == Transition(d, "refunded")
<1>9. ApplyRefund(i, a) = f
  BY DEF ApplyRefund, c
<1>10. /\ d \in Intent /\ d.rail = i.rail /\ d.amount = i.amount /\ d.captured = i.captured
       /\ d.refunded = c.refunded
       /\ d.status = IF TransitionAllowed(c, "refunding") THEN "refunding" ELSE i.status
  BY <1>4, TransitionType DEF Status
<1>11. TransitionAllowed(c, "refunding") <=> TransitionAllowed(i, "refunding")
  BY <1>4 DEF TransitionAllowed
<1> HIDE DEF d
<1>12. /\ f \in Intent /\ f.rail = i.rail /\ f.amount = i.amount /\ f.captured = i.captured
       /\ f.refunded = c.refunded
       /\ f.status = IF TransitionAllowed(d, "refunded") THEN "refunded" ELSE d.status
  BY <1>10, TransitionType DEF Status
<1> HIDE DEF f
<1>13. TransitionAllowed(i, "refunding") => f.status = "refunded"
  BY <1>10, <1>11, <1>12 DEF TransitionAllowed, IsTerminal, CanTransition
<1>14. ~TransitionAllowed(i, "refunding") => f.status = "settled"
  <2>1. i.status = "captured" => TransitionAllowed(i, "refunding")
    BY DEF TransitionAllowed, IsTerminal, CanTransition
  <2>2. QED
    BY <1>10, <1>11, <1>12, <2>1 DEF TransitionAllowed, IsTerminal, RefundAllowed
<1>15. ASSUME StoreKind = "mem" \/ TransitionAllowed(i, "refunding")
       PROVE  Sound(f, RailRefund(g, a))
  <2>1. f.status \in {"refunded", "settled"} /\ i.status \in {"captured", "settled"}
    BY <1>13, <1>14 DEF RefundAllowed
  <2>2. StoreKind = "postgres" => f.status = "refunded"
    BY <1>13, <1>15
  <2>3. QED
    BY <1>1, <1>2, <1>4, <1>5, <1>7, <1>8, <1>12, <2>1, <2>2 DEF Sound
<1>16. QED
  BY <1>2, <1>6, <1>9, <1>15

\* The moves that leave the amounts alone.
QuietMove(from, to) ==
  \/ from = "authorized" /\ to = "voided"
  \/ from = "3ds_pending" /\ to \in {"authorized", "failed"}
  \/ from = "captured" /\ to \in {"settled", "charged_back"}
  \/ from = "charged_back" /\ to \in {"chargeback_won", "chargeback_lost"}

\* Void, the challenge, settlement and the dispute keep the books sound,
\* provided the rail has authorized what becomes authorized.
LEMMA QuietMoveSound ==
  ASSUME NEW i \in Intent, NEW g \in Ledger, NEW to \in Status, Sound(i, g),
         QuietMove(i.status, to), to = "authorized" => "authorize" \in g.done
  PROVE  TransitionAllowed(i, to) /\ Sound(Transition(i, to), g)
<1>1. TransitionAllowed(i, to)
  BY DEF QuietMove, TransitionAllowed, IsTerminal, CanTransition
<1> DEFINE f == Transition(i, to)
<1>2. /\ f.rail = i.rail /\ f.amount = i.amount /\ f.captured = i.captured
      /\ f.refunded = i.refunded /\ f.status = to
  BY <1>1, TransitionType
<1> HIDE DEF f
<1>3. Sound(f, g)
  <2> USE <1>2 DEF Sound, Intent, Int64
  <2>1. CASE i.status = "authorized" /\ to = "voided"
    BY <2>1, MaxIntAssumption
  <2>2. CASE i.status = "3ds_pending" /\ to \in {"authorized", "failed"}
    BY <2>2, MaxIntAssumption
  <2>3. CASE i.status = "captured" /\ to \in {"settled", "charged_back"}
    BY <2>3, MaxIntAssumption
  <2>4. CASE i.status = "charged_back" /\ to \in {"chargeback_won", "chargeback_lost"}
    BY <2>4, MaxIntAssumption
  <2>5. QED
    BY <2>1, <2>2, <2>3, <2>4 DEF QuietMove
<1>4. QED
  BY <1>1, <1>3 DEF f

LEMMA SettlementSound ==
  ASSUME NEW i \in Intent, NEW g \in Ledger, NEW a \in Int64, Sound(i, g),
         i.status = "captured"
  PROVE  Sound(ApplySettlement(i, a), g)
<1> DEFINE c == [i EXCEPT !.settled = Wrap(@ + a)]
           s == Transition(c, "settled")
           f == ApplySettlement(i, a)
<1>1. c \in Intent
  BY WrapType DEF Intent
<1>2. Sound(c, g) /\ c.status = "captured"
  BY DEF Sound, Intent
<1> HIDE DEF c
<1>3. s \in Intent /\ Sound(s, g)
  BY <1>1, <1>2, QuietMoveSound, TransitionType DEF QuietMove, Status
<1>4. f = IF s.settled # s.captured THEN AppendEvent(s, "reconciliation_break") ELSE s
  BY DEF ApplySettlement, c
<1> HIDE DEF s, f
<1>5. Sound(AppendEvent(s, "reconciliation_break"), g)
  BY <1>3 DEF AppendEvent, Sound, Intent
<1>6. QED
  BY <1>3, <1>4, <1>5 DEF f

-----------------------------------------------------------------------------
(* Threads: only the head of a program can store an intent.                *)

\* What UpdateIntentStep does to the intent, given that the record before and
\* the record the store may keep are both sound for the rail's new ledger.
LEMMA UpdateIntentStepSound ==
  ASSUME TypeOK, NEW t \in Threads, NEW id \in Intents, NEW i \in Intent, NEW g, NEW ok,
         NEW to, NEW rest, NEW o, NoCreate(rest),
         UpdateIntentStep(t, id, i, ok, to, rest, o),
         Sound(intents[id], g),
         StoreKind = "mem" \/ ok => Sound(i, g)
  PROVE  /\ Sound(intents'[id], g)
         /\ \A j \in Intents : j # id => intents'[j] = intents[j]
         /\ \E q : NoCreate(q) /\ todo' = [todo EXCEPT ![t] = q]
<1>1. Sound(intents'[id], g)
  BY DEF UpdateIntentStep, UpdateIntent, MemUpdateIntent, PgUpdateIntent, TypeOK
<1>2. \A j \in Intents : j # id => intents'[j] = intents[j]
  BY DEF UpdateIntentStep, TypeOK
<1>3. NoCreate(<< >>)
  BY DEF NoCreate
<1>4. \E q : NoCreate(q) /\ todo' = [todo EXCEPT ![t] = q]
  BY <1>3 DEF UpdateIntentStep
<1>5. QED
  BY <1>1, <1>2, <1>4

\* A step that stores no new intent, leaves on its thread no intent to store
\* and has the rail act only for stored ids keeps the drafts sound.
LEMMA DraftFrame ==
  ASSUME SafetyInv, NEW t \in Threads, NEW q, NoCreate(q), q \in Seq(Op),
         todo' = [todo EXCEPT ![t] = q],
         UNCHANGED <<issued, stored>>,
         \A id \in Intents \ stored : gateway'[id] = gateway[id]
  PROVE  DraftsSound'
<1>1. todo \in [Threads -> Seq(Op)] /\ issued \subseteq Intents
  BY DEF SafetyInv, TypeOK
<1>2. todo'[t] = q /\ \A u \in Threads \ {t} : todo'[u] = todo[u]
  BY <1>1
<1>3. q # << >> => NoCreate(Tail(q)) /\ Head(q).op # "create"
  <2> SUFFICES ASSUME q # << >>
               PROVE  NoCreate(Tail(q)) /\ Head(q).op # "create"
    OBVIOUS
  <2>1. Len(q) \in Nat /\ Len(q) > 0 /\ DOMAIN q = 1 .. Len(q) /\ Head(q) = q[1]
    OBVIOUS
  <2>2. /\ DOMAIN Tail(q) = 1 .. (Len(q) - 1)
        /\ \A k \in 1 .. (Len(q) - 1) : Tail(q)[k] = q[k + 1]
    BY <2>1
  <2>3. QED
    BY <2>1, <2>2 DEF NoCreate
<1>4. (stored \subseteq issued)'
  BY DEF SafetyInv, DraftsSound
<1>5. ASSUME NEW u \in Threads, todo'[u] # << >>
      PROVE  /\ NoCreate(Tail(todo'[u]))
             /\ Head(todo'[u]).op = "create" =>
                  /\ Head(todo'[u]).id \in issued' \ stored'
                  /\ Sound(Head(todo'[u]).intent, gateway'[Head(todo'[u]).id])
  <2>1. CASE u = t
    BY <1>2, <1>3, <1>5, <2>1
  <2>2. CASE u # t
    <3>1. todo'[u] = todo[u]
      BY <1>2, <2>2
    <3>2. /\ NoCreate(Tail(todo[u]))
          /\ Head(todo[u]).op = "create" =>
               /\ Head(todo[u]).id \in issued \ stored
               /\ Sound(Head(todo[u]).intent, gateway[Head(todo[u]).id])
      BY <1>5, <3>1 DEF SafetyInv, DraftsSound
    <3>3. Head(todo[u]).op = "create" =>
            gateway'[Head(todo[u]).id] = gateway[Head(todo[u]).id]
      BY <1>1, <3>2
    <3>4. QED
      BY <3>1, <3>2, <3>3
  <2>3. QED
    BY <2>1, <2>2
<1>6. ASSUME NEW u \in Threads, NEW v \in Threads, Doing(u, "create")', Doing(v, "create")',
             Head(todo'[u]).id = Head(todo'[v]).id
      PROVE  u = v
  <2>1. u # t /\ v # t
    BY <1>2, <1>3, <1>6 DEF Doing
  <2>2. todo'[u] = todo[u] /\ todo'[v] = todo[v]
    BY <1>2, <2>1
  <2>3. QED
    BY <1>6, <2>2 DEF SafetyInv, DraftsSound, Doing
<1>7. QED
  BY <1>4, <1>5, <1>6 DEF DraftsSound

\* The step of a handler that updates the stored intent id, after the rail has
\* brought its ledger for id to g.
LEMMA RequestFrame ==
  ASSUME SafetyInv, TypeOK', NEW t \in Threads, NEW id \in stored, NEW i \in Intent,
         NEW g \in Ledger, NEW ok, NEW to, NEW rest, NEW o, NoCreate(rest),
         UpdateIntentStep(t, id, i, ok, to, rest, o),
         gateway' = [gateway EXCEPT ![id] = g], 0 <= g.captured, 0 <= g.refunded,
         UNCHANGED <<issued, stored>>,
         Sound(intents[id], g),
         StoreKind = "mem" \/ ok => Sound(i, g)
  PROVE  SafetyInv'
<1>1. id \in Intents /\ stored \subseteq Intents /\ TypeOK
  BY DEF SafetyInv, TypeOK
<1>2. gateway'[id] = g /\ \A j \in Intents \ {id} : gateway'[j] = gateway[j]
  BY <1>1 DEF TypeOK
<1>3. /\ Sound(intents'[id], g)
      /\ \A j \in Intents : j # id => intents'[j] = intents[j]
      /\ \E q : NoCreate(q) /\ todo' = [todo EXCEPT ![t] = q]
  BY <1>1, UpdateIntentStepSound
<1>4. DraftsSound'
  <2>1. PICK q : NoCreate(q) /\ todo' = [todo EXCEPT ![t] = q]
    BY <1>3
  <2>2. q \in Seq(Op)
    BY <1>1, <2>1 DEF TypeOK
  <2>3. QED
    BY <1>2, <2>1, <2>2, DraftFrame
<1>5. RailAmounts'
  BY <1>2 DEF SafetyInv, RailAmounts
<1>6. \A j \in stored' : Sound(intents'[j], gateway'[j])
  BY <1>1, <1>2, <1>3 DEF SafetyInv
<1>7. QED
  BY <1>4, <1>5, <1>6 DEF SafetyInv

\* A step of thread t that touches neither the intents nor the rail.
LEMMA ThreadFrame ==
  ASSUME SafetyInv, TypeOK', NEW t \in Threads, NEW q, NoCreate(q),
         todo' = [todo EXCEPT ![t] = q], UNCHANGED <<issued, stored, intents, gateway>>
  PROVE  SafetyInv'
<1>1. q \in Seq(Op)
  BY DEF SafetyInv, TypeOK
<1>2. DraftsSound'
  BY <1>1, DraftFrame
<1>3. QED
  BY <1>2 DEF SafetyInv, RailAmounts

LEMMA EmptyNoCreate == NoCreate(<< >>)
BY DEF NoCreate

LEMMA AddRowNoCreate ==
  ASSUME NEW id \in Intents, NEW x \in Table, NEW a \in Int64
  PROVE  NoCreate(AddRowOp(id, x, a))
BY DEF NoCreate, AddRowOp

\* What is left after the head of a program stores nothing.
LEMMA TailNoCreate ==
  ASSUME SafetyInv, NEW t \in Threads, todo[t] # << >>
  PROVE  NoCreate(Tail(todo[t]))
BY DEF SafetyInv, DraftsSound

LEMMA ChargebackStepsNoCreate ==
  ASSUME NEW id \in Intents, NEW c \in Cases, NEW s \in ChargebackStage, NEW a, NEW found
  PROVE  NoCreate(ChargebackSteps(id, c, s, a, found))
<1> DEFINE row == [case |-> c, stage |-> s]
           outcome == IF a = 0 THEN "chargeback_won" ELSE "chargeback_lost"
           add == [op |-> "add_case", id |-> id, row |-> row]
           open == [op |-> "open_case", id |-> id]
           update == [op |-> "update_case", row |-> row]
           close == [op |-> "close_case", id |-> id, to |-> outcome]
<1>1. add.op # "create" /\ open.op # "create" /\ update.op # "create" /\ close.op # "create"
  OBVIOUS
<1>2. ChargebackSteps(id, c, s, a, found) \in
        {<< add >> \o << open >>, << add >> \o << >>, << update >> \o << close >>,
         << update >> \o << >>}
  BY DEF ChargebackSteps
<1> HIDE DEF add, open, update, close
<1>3. \A u, v \in Seq(Op) : NoCreate(u) /\ NoCreate(v) => NoCreate(u \o v)
  BY DEF NoCreate
<1>4. /\ NoCreate(<< add >>) /\ NoCreate(<< open >>) /\ NoCreate(<< update >>)
      /\ NoCreate(<< close >>) /\ NoCreate(<< >>)
  BY <1>1 DEF NoCreate
<1>5. add \in Op /\ open \in Op /\ update \in Op /\ close \in Op
  BY OpTypes DEF CaseRow, add, open, update, close
<1>6. /\ << add >> \in Seq(Op) /\ << open >> \in Seq(Op) /\ << >> \in Seq(Op)
      /\ << update >> \in Seq(Op) /\ << close >> \in Seq(Op)
  BY <1>5
<1>7. QED
  BY <1>2, <1>3, <1>4, <1>6

-----------------------------------------------------------------------------
(* SafetyInv is preserved, action by action.                               *)

LEMMA MoneyRequestSafe ==
  ASSUME SafetyInv, TypeOK', NEW t \in Threads, NEW id \in Intents, NEW o
  PROVE  /\ \A a \in CaptureAmounts(intents[id]) : Capture(t, id, a, o) => SafetyInv'
         /\ \A a \in RefundAmounts(intents[id]) : Refund(t, id, a, o) => SafetyInv'
         /\ Void(t, id, o) => SafetyInv'
<1>1. /\ intents[id] \in Intent /\ gateway[id] \in Ledger
      /\ 0 <= gateway[id].captured /\ 0 <= gateway[id].refunded
      /\ id \in stored => Sound(intents[id], gateway[id])
  BY DEF SafetyInv, TypeOK, RailAmounts
<1>2. "captures" \in Table /\ "refunds" \in Table /\ "voided" \in Status
  BY DEF Table, Status
<1>3. ASSUME NEW a \in CaptureAmounts(intents[id]), Capture(t, id, a, o)
      PROVE  SafetyInv'
  <2> DEFINE g == RailCapture(gateway[id], a)
             c == ApplyCapture(intents[id], a)
             rest == AddRowOp(id, "captures", a)
  <2>1. id \in stored /\ CaptureAllowed(intents[id], a)
    BY <1>3 DEF Capture
  <2>2. a \in Int64 /\ a \in Int
    BY <1>1, RequestAmountTypes, MaxIntAssumption DEF Int64
  <2>3. 0 < a /\ Sound(intents[id], g) /\ Sound(c, g)
    BY <1>1, <2>1, CaptureSound
  <2>4. c \in Intent /\ g \in Ledger /\ NoCreate(rest)
    BY <1>1, <1>2, <2>2, CaptureType, LedgerType, AddRowNoCreate
  <2>5. 0 <= g.captured /\ 0 <= g.refunded
    BY <1>1, <2>2, <2>3 DEF RailCapture, Ledger
  <2>6. /\ UpdateIntentStep(t, id, c, TRUE, {c.status}, rest, o)
        /\ gateway' = [gateway EXCEPT ![id] = g] /\ UNCHANGED <<issued, stored>>
    BY <1>3 DEF Capture
  <2> HIDE DEF g, c, rest
  <2>7. QED
    BY <2>1, <2>3, <2>4, <2>5, <2>6, RequestFrame
<1>4. ASSUME NEW a \in RefundAmounts(intents[id]), Refund(t, id, a, o)
      PROVE  SafetyInv'
  <2> DEFINE g == RailRefund(gateway[id], a)
             c == ApplyRefund(intents[id], a)
             ok == TransitionAllowed(intents[id], "refunding")
             to == IF ok THEN {"refunded"} ELSE {}
             rest == AddRowOp(id, "refunds", a)
  <2>1. id \in stored /\ RefundAllowed(intents[id], a)
    BY <1>4 DEF Refund
  <2>2. a \in Int64 /\ a \in Int
    BY <1>1, RequestAmountTypes, MaxIntAssumption DEF Int64
  <2>3. 0 <= a /\ Sound(intents[id], g) /\ (StoreKind = "mem" \/ ok => Sound(c, g))
    BY <1>1, <2>1, RefundSound
  <2>4. c \in Intent /\ g \in Ledger /\ NoCreate(rest)
    BY <1>1, <1>2, <2>2, RefundType, LedgerType, AddRowNoCreate
  <2>5. 0 <= g.captured /\ 0 <= g.refunded
    BY <1>1, <2>2, <2>3 DEF RailRefund, Ledger
  <2>6. /\ UpdateIntentStep(t, id, c, ok, to, rest, o)
        /\ gateway' = [gateway EXCEPT ![id] = g] /\ UNCHANGED <<issued, stored>>
    BY <1>4 DEF Refund
  <2> HIDE DEF g, c, ok, to, rest
  <2>7. QED
    BY <2>1, <2>3, <2>4, <2>5, <2>6, RequestFrame
<1>5. ASSUME Void(t, id, o)
      PROVE  SafetyInv'
  <2> DEFINE g == RailVoid(gateway[id])
             c == Transition(intents[id], "voided")
  <2>1. id \in stored /\ intents[id].status = "authorized"
    BY <1>5 DEF Void
  <2>2. g \in Ledger /\ Sound(intents[id], g)
    BY <1>1, <2>1, LedgerType, RailOnlyAdds, 0 \in Int
  <2>3. 0 <= g.captured /\ 0 <= g.refunded
    BY <1>1 DEF RailVoid, RailRefund, Ledger
  <2>4. /\ UpdateIntentStep(t, id, c, TRUE, {"voided"}, << >>, o)
        /\ gateway' = [gateway EXCEPT ![id] = g] /\ UNCHANGED <<issued, stored>>
    BY <1>5 DEF Void
  <2> HIDE DEF g
  <2>5. c \in Intent /\ Sound(c, g)
    BY <1>1, <1>2, <2>1, <2>2, QuietMoveSound, TransitionType DEF QuietMove
  <2> HIDE DEF c
  <2>6. QED
    BY <2>1, <2>2, <2>3, <2>4, <2>5, EmptyNoCreate, RequestFrame
<1>6. QED
  BY <1>3, <1>4, <1>5

LEMMA ChallengeSafe ==
  ASSUME SafetyInv, TypeOK', NEW t \in Threads, NEW id \in Intents, NEW o
  PROVE  /\ ChallengeExpired(t, id) => SafetyInv'
         /\ ChallengeRefused(t, id) => SafetyInv'
         /\ ChallengeReplyLost(t, id) => SafetyInv'
         /\ ChallengeVerified(t, id, o) => SafetyInv'
<1>1. /\ intents[id] \in Intent /\ gateway[id] \in Ledger
      /\ 0 <= gateway[id].captured /\ 0 <= gateway[id].refunded
      /\ id \in stored => Sound(intents[id], gateway[id])
      /\ gateway = [gateway EXCEPT ![id] = gateway[id]]
  BY DEF SafetyInv, TypeOK, RailAmounts
<1>2. "failed" \in Status /\ "authorized" \in Status
  BY DEF Status
<1> DEFINE g == RailAuthorize(gateway[id])
           failed == Transition(intents[id], "failed")
           authorized == Transition(intents[id], "authorized")
<1>3. g \in Ledger /\ 0 <= g.captured /\ 0 <= g.refunded /\ "authorize" \in g.done
  BY <1>1, LedgerType, 0 \in Int DEF RailAuthorize, Ledger
<1> HIDE DEF g
<1>4. ASSUME id \in stored, intents[id].status = "3ds_pending"
      PROVE  /\ failed \in Intent /\ Sound(failed, gateway[id]) /\ Sound(failed, g)
             /\ authorized \in Intent /\ Sound(authorized, g) /\ Sound(intents[id], g)
  <2>1. failed \in Intent /\ authorized \in Intent
    BY <1>1, <1>2, TransitionType
  <2>2. Sound(intents[id], g)
    BY <1>1, <1>4, RailOnlyAdds, 0 \in Int DEF g
  <2>3. Sound(failed, gateway[id])
    BY <1>1, <1>2, <1>4, QuietMoveSound DEF QuietMove
  <2>4. Sound(failed, g) /\ Sound(authorized, g)
    BY <1>1, <1>2, <1>3, <1>4, <2>2, QuietMoveSound DEF QuietMove
  <2>5. QED
    BY <2>1, <2>2, <2>3, <2>4
<1>5. ASSUME ChallengeFails(t, id), UNCHANGED gateway
      PROVE  SafetyInv'
  <2>1. id \in stored /\ intents[id].status = "3ds_pending"
    BY <1>5 DEF ChallengeFails
  <2>2. /\ UpdateIntentStep(t, id, failed, FALSE, {"failed"}, << >>, "ok")
        /\ UNCHANGED <<issued, stored>>
    BY <1>5 DEF ChallengeFails
  <2>3. gateway' = [gateway EXCEPT ![id] = gateway[id]]
    BY <1>1, <1>5
  <2>4. failed \in Intent /\ Sound(failed, gateway[id]) /\ Sound(intents[id], gateway[id])
    BY <1>1, <1>4, <2>1
  <2> HIDE DEF failed
  <2>5. QED
    BY <1>1, <2>1, <2>2, <2>3, <2>4, EmptyNoCreate, RequestFrame
<1>6. ASSUME ChallengeReplyLost(t, id)
      PROVE  SafetyInv'
  <2>1. id \in stored /\ intents[id].status = "3ds_pending" /\ todo[t] = << >>
    BY <1>6 DEF ChallengeReplyLost, Idle
  <2>2. /\ gateway' = [gateway EXCEPT ![id] = g] /\ UNCHANGED <<issued, stored, todo>>
        /\ intents' = [intents EXCEPT ![id] = UpdateIntent(intents[id], failed, FALSE)]
    BY <1>6 DEF ChallengeReplyLost, g
  <2>3. Sound(UpdateIntent(intents[id], failed, FALSE), g)
    BY <1>4, <2>1 DEF UpdateIntent, MemUpdateIntent, PgUpdateIntent
  <2> HIDE DEF failed
  <2>4. gateway'[id] = g /\ \A j \in Intents \ {id} : gateway'[j] = gateway[j]
    BY <2>2 DEF SafetyInv, TypeOK
  <2>5. Sound(intents'[id], g) /\ \A j \in Intents \ {id} : intents'[j] = intents[j]
    BY <2>2, <2>3 DEF SafetyInv, TypeOK
  <2>6. todo' = [todo EXCEPT ![t] = << >>] /\ << >> \in Seq(Op)
    BY <2>1, <2>2 DEF SafetyInv, TypeOK
  <2>7. DraftsSound'
    BY <2>1, <2>2, <2>4, <2>6, EmptyNoCreate, DraftFrame
  <2>8. RailAmounts'
    BY <1>3, <2>4 DEF SafetyInv, RailAmounts
  <2>9. \A j \in stored' : Sound(intents'[j], gateway'[j])
    BY <2>2, <2>4, <2>5 DEF SafetyInv, TypeOK
  <2>10. QED
    BY <2>7, <2>8, <2>9 DEF SafetyInv
<1>7. ASSUME ChallengeVerified(t, id, o)
      PROVE  SafetyInv'
  <2>1. id \in stored /\ intents[id].status = "3ds_pending"
    BY <1>7 DEF ChallengeVerified
  <2>2. /\ UpdateIntentStep(t, id, authorized, TRUE, {"authorized"}, << >>, o)
        /\ gateway' = [gateway EXCEPT ![id] = g] /\ UNCHANGED <<issued, stored>>
    BY <1>7 DEF ChallengeVerified, g
  <2>3. authorized \in Intent /\ Sound(authorized, g) /\ Sound(intents[id], g)
    BY <1>4, <2>1
  <2> HIDE DEF authorized
  <2>4. QED
    BY <1>3, <2>1, <2>2, <2>3, EmptyNoCreate, RequestFrame
<1>8. QED
  BY <1>5, <1>6, <1>7 DEF ChallengeExpired, ChallengeRefused

LEMMA WebhookSafe ==
  ASSUME SafetyInv, TypeOK', NEW t \in Threads, NEW id \in Intents, NEW o
  PROVE  /\ \A a \in WebhookAmounts : Settlement(t, id, a, o) => SafetyInv'
         /\ \A c \in Cases, s \in ChargebackStage, a \in WebhookAmounts :
              ChargebackWebhook(t, id, c, s, a, o) => SafetyInv'
<1>1. ASSUME NEW a \in WebhookAmounts, Settlement(t, id, a, o)
      PROVE  SafetyInv'
  <2> DEFINE c == ApplySettlement(intents[id], a)
             rest == AddRowOp(id, "settlements", a)
  <2>1. id \in stored /\ intents[id].status = "captured"
    BY <1>1 DEF Settlement
  <2>2. /\ a \in Int64 /\ intents[id] \in Intent /\ gateway[id] \in Ledger
        /\ 0 <= gateway[id].captured /\ 0 <= gateway[id].refunded
        /\ Sound(intents[id], gateway[id]) /\ "settlements" \in Table
    BY <2>1, ServiceAssumption DEF SafetyInv, TypeOK, RailAmounts, Table
  <2>3. c \in Intent /\ Sound(c, gateway[id]) /\ NoCreate(rest)
    BY <2>1, <2>2, SettlementType, SettlementSound, AddRowNoCreate
  <2>4. /\ UpdateIntentStep(t, id, c, TRUE, {"settled"}, rest, o)
        /\ UNCHANGED <<issued, stored, gateway>>
    BY <1>1 DEF Settlement
  <2>5. gateway' = [gateway EXCEPT ![id] = gateway[id]]
    BY <2>4 DEF SafetyInv, TypeOK
  <2> HIDE DEF c, rest
  <2>6. QED
    BY <2>1, <2>2, <2>3, <2>4, <2>5, RequestFrame
<1>2. ASSUME NEW c \in Cases, NEW s \in ChargebackStage, NEW a \in WebhookAmounts,
             ChargebackWebhook(t, id, c, s, a, o)
      PROVE  SafetyInv'
  <2> DEFINE q == ChargebackSteps(id, c, s, a, HasCase(id, c) /\ o # "sql_error")
  <2>1. NoCreate(q)
    BY ChargebackStepsNoCreate
  <2>2. todo' = [todo EXCEPT ![t] = q] /\ UNCHANGED <<issued, stored, intents, gateway>>
    BY <1>2 DEF ChargebackWebhook
  <2> HIDE DEF q
  <2>3. QED
    BY <2>1, <2>2, ThreadFrame
<1>3. QED
  BY <1>1, <1>2

\* A handler that has asked the rail for a fresh id and has a sound intent to
\* store first.
LEMMA CreateFrame ==
  ASSUME SafetyInv, TypeOK', NEW t \in Threads, NEW id \in Intents, NEW steps \in Seq(Op),
         BeginCreate(t, id, steps), steps # << >>, NoCreate(Tail(steps)),
         Head(steps).op = "create", Head(steps).id = id, NEW g \in Ledger,
         gateway' = [gateway EXCEPT ![id] = g], 0 <= g.captured, 0 <= g.refunded,
         Sound(Head(steps).intent, g)
  PROVE  SafetyInv'
<1>1. /\ id \notin issued /\ issued' = issued \cup {id}
      /\ todo' = [todo EXCEPT ![t] = steps] /\ UNCHANGED <<stored, intents>>
  BY DEF BeginCreate
<1>2. todo'[t] = steps /\ \A u \in Threads \ {t} : todo'[u] = todo[u]
  BY <1>1 DEF SafetyInv, TypeOK
<1>3. gateway'[id] = g /\ \A j \in Intents \ {id} : gateway'[j] = gateway[j]
  BY DEF SafetyInv, TypeOK
<1>4. stored \subseteq issued /\ issued \subseteq Intents /\ id \notin stored
  BY <1>1 DEF SafetyInv, DraftsSound, TypeOK
<1>5. ASSUME NEW u \in Threads \ {t}, todo[u] # << >>
      PROVE  /\ NoCreate(Tail(todo[u]))
             /\ Head(todo[u]).op = "create" =>
                  /\ Head(todo[u]).id \in issued \ stored
                  /\ Head(todo[u]).id # id
                  /\ Sound(Head(todo[u]).intent, gateway'[Head(todo[u]).id])
  <2>1. /\ NoCreate(Tail(todo[u]))
        /\ Head(todo[u]).op = "create" =>
             /\ Head(todo[u]).id \in issued \ stored
             /\ Sound(Head(todo[u]).intent, gateway[Head(todo[u]).id])
    BY <1>5 DEF SafetyInv, DraftsSound
  <2>2. QED
    BY <1>1, <1>3, <1>4, <2>1
<1>6. ASSUME NEW u \in Threads, todo'[u] # << >>
      PROVE  /\ NoCreate(Tail(todo'[u]))
             /\ Head(todo'[u]).op = "create" =>
                  /\ Head(todo'[u]).id \in issued' \ stored'
                  /\ Sound(Head(todo'[u]).intent, gateway'[Head(todo'[u]).id])
  <2>1. CASE u = t
    BY <1>1, <1>2, <1>3, <1>4, <2>1
  <2>2. CASE u # t
    BY <1>1, <1>2, <1>5, <1>6, <2>2
  <2>3. QED
    BY <2>1, <2>2
<1>7. ASSUME NEW u \in Threads, NEW v \in Threads, Doing(u, "create")', Doing(v, "create")',
             Head(todo'[u]).id = Head(todo'[v]).id
      PROVE  u = v
  <2>1. CASE u = t /\ v # t
    BY <1>2, <1>5, <1>7, <2>1 DEF Doing
  <2>2. CASE u # t /\ v = t
    BY <1>2, <1>5, <1>7, <2>2 DEF Doing
  <2>3. CASE u # t /\ v # t
    BY <1>2, <1>7, <2>3 DEF SafetyInv, DraftsSound, Doing
  <2>4. QED
    BY <2>1, <2>2, <2>3
<1>8. DraftsSound'
  BY <1>1, <1>4, <1>6, <1>7 DEF DraftsSound
<1>9. RailAmounts'
  BY <1>3 DEF SafetyInv, RailAmounts
<1>10. \A j \in stored' : Sound(intents'[j], gateway'[j])
  BY <1>1, <1>3, <1>4 DEF SafetyInv
<1>11. QED
  BY <1>8, <1>9, <1>10 DEF SafetyInv

LEMMA StoreAndEmitShape ==
  ASSUME NEW id \in Intents, NEW i \in Intent
  PROVE  /\ StoreAndEmit(id, i) # << >>
         /\ NoCreate(Tail(StoreAndEmit(id, i)))
         /\ Head(StoreAndEmit(id, i)) = [op |-> "create", id |-> id, intent |-> i]
<1> DEFINE create == [op |-> "create", id |-> id, intent |-> i]
           emit == [op |-> "emit", id |-> id, to |-> i.status]
<1>1. emit.op # "create"
  OBVIOUS
<1>2. StoreAndEmit(id, i) = << create, emit >>
  BY DEF StoreAndEmit
<1> HIDE DEF create, emit
<1>3. << create, emit >> # << >> /\ Head(<< create, emit >>) = create
      /\ Tail(<< create, emit >>) = << emit >>
  OBVIOUS
<1>4. NoCreate(<< emit >>)
  BY <1>1 DEF NoCreate
<1>5. QED
  BY <1>2, <1>3, <1>4 DEF create

\* A new intent is sound for a ledger the rail has authorized, if it is to be
\* authorized, and for any ledger otherwise.
LEMMA DraftSound ==
  ASSUME AmountsFit, NEW r \in Rail, NEW a \in IntentAmounts, NEW g \in Ledger,
         0 <= g.captured, 0 <= g.refunded
  PROVE  /\ \A s \in {"3ds_pending", "failed"} : Sound(Transition(Draft(r, a), s), g)
         /\ "authorize" \in g.done => Sound(Transition(Draft(r, a), "authorized"), g)
<1>1. a \in 1 .. MaxInt /\ a \in Int /\ 0 < a /\ 2 * a <= MaxInt /\ 0 \in 0 .. MaxInt
  BY ServiceAssumption, MaxIntAssumption DEF AmountsFit
<1>2. /\ Draft(r, a).rail = r /\ Draft(r, a).amount = a /\ Draft(r, a).captured = 0
      /\ Draft(r, a).refunded = 0 /\ Draft(r, a).status = "intent"
  BY DEF Draft
<1>3. Draft(r, a) \in Intent
  BY <1>1, DraftType
<1>4. ASSUME NEW s \in {"3ds_pending", "failed", "authorized"}
      PROVE  /\ Transition(Draft(r, a), s).rail = r /\ Transition(Draft(r, a), s).amount = a
             /\ Transition(Draft(r, a), s).captured = 0
             /\ Transition(Draft(r, a), s).refunded = 0
             /\ Transition(Draft(r, a), s).status = s
  <2>1. TransitionAllowed(Draft(r, a), s) /\ s \in Status
    BY <1>2 DEF TransitionAllowed, IsTerminal, CanTransition, Status
  <2>2. QED
    BY <1>2, <1>3, <2>1, TransitionType
<1>5. ASSUME NEW s \in {"3ds_pending", "failed"}
      PROVE  Sound(Transition(Draft(r, a), s), g)
  BY <1>1, <1>4, <1>5 DEF Sound, Ledger
<1>6. ASSUME "authorize" \in g.done
      PROVE  Sound(Transition(Draft(r, a), "authorized"), g)
  BY <1>1, <1>4, <1>6 DEF Sound, Ledger
<1>7. QED
  BY <1>5, <1>6

\* An instant rail's intent, with the amount n the rail has settled on.
LEMMA InstantSound ==
  ASSUME AmountsFit, NEW r \in Rail, IsInstant(r), NEW a \in IntentAmounts,
         NEW n \in 0 .. MaxInt, NEW g \in Ledger, n <= g.captured, 0 <= g.refunded,
         "authorize" \in g.done
  PROVE  LET i == Transition(Transition([Draft(r, a) EXCEPT !.captured = n], "authorized"),
                             "captured")
         IN i \in Intent /\ Sound(i, g)
<1> DEFINE d == [Draft(r, a) EXCEPT !.captured = n]
           e == Transition(d, "authorized")
           i == Transition(e, "captured")
<1>1. a \in 1 .. MaxInt /\ a \in Int /\ 0 < a /\ 2 * a <= MaxInt /\ n \in Int /\ 0 <= n
      /\ r # "card"
  BY ServiceAssumption, MaxIntAssumption DEF AmountsFit, IsInstant
<1>2. d \in Intent
  BY <1>1, DraftType, MaxIntAssumption
<1>3. /\ d.rail = r /\ d.amount = a /\ d.captured = n /\ d.refunded = 0
      /\ d.status = "intent"
  BY DEF Draft
<1> HIDE DEF d
<1>4. TransitionAllowed(d, "authorized")
  BY <1>3 DEF TransitionAllowed, IsTerminal, CanTransition
<1>5. /\ e \in Intent /\ e.rail = r /\ e.amount = a /\ e.captured = n /\ e.refunded = 0
      /\ e.status = "authorized"
  BY <1>2, <1>3, <1>4, TransitionType DEF Status
<1> HIDE DEF e
<1>6. TransitionAllowed(e, "captured")
  BY <1>5 DEF TransitionAllowed, IsTerminal, CanTransition
<1>7. /\ i \in Intent /\ i.rail = r /\ i.amount = a /\ i.captured = n /\ i.refunded = 0
      /\ i.status = "captured"
  BY <1>5, <1>6, TransitionType DEF Status
<1> HIDE DEF i
<1>8. Sound(i, g)
  BY <1>1, <1>7 DEF Sound, Ledger
<1>9. QED
  BY <1>7, <1>8 DEF i, e, d

LEMMA CreateIntentSafe ==
  ASSUME AmountsFit, SafetyInv, TypeOK', NEW t \in Threads, CreateIntent(t)
  PROVE  SafetyInv'
<1>1. PICK id \in Intents, a \in IntentAmounts :
        \/ CreateThreeDS(t, id, a)
        \/ \E r \in Rails :
             \/ CreateFailed(t, id, r, a)
             \/ CreateAuthorized(t, id, r, a)
             \/ \E n \in SubmitAmounts \cup {a} :
                  \/ CreateReplyLost(t, id, r, a, n)
                  \/ CreateInstant(t, id, r, a, n)
  BY DEF CreateIntent
<1>2. /\ a \in 1 .. MaxInt /\ 0 \in 0 .. MaxInt
      /\ \A n \in SubmitAmounts \cup {a} : n \in 0 .. MaxInt /\ n \in Int64 /\ n \in Int /\ 0 <= n
      /\ Rails \subseteq Rail /\ "card" \in Rail
  BY ServiceAssumption, MaxIntAssumption DEF Int64, Rail
<1>3. /\ gateway[id] \in Ledger /\ 0 <= gateway[id].captured /\ 0 <= gateway[id].refunded
      /\ gateway = [gateway EXCEPT ![id] = gateway[id]]
  BY DEF SafetyInv, TypeOK, RailAmounts
<1>4. ASSUME NEW i \in Intent, BeginCreate(t, id, StoreAndEmit(id, i)), NEW g \in Ledger,
             gateway' = [gateway EXCEPT ![id] = g], 0 <= g.captured, 0 <= g.refunded, Sound(i, g)
      PROVE  SafetyInv'
  <2> DEFINE steps == StoreAndEmit(id, i)
  <2>1. steps \in Seq(Op)
    BY StoreAndEmitType
  <2>2. /\ steps # << >> /\ NoCreate(Tail(steps)) /\ Head(steps).op = "create"
        /\ Head(steps).id = id /\ Head(steps).intent = i
    BY StoreAndEmitShape
  <2>3. BeginCreate(t, id, steps)
    BY <1>4
  <2> HIDE DEF steps
  <2>4. QED
    BY <1>4, <2>1, <2>2, <2>3, CreateFrame
<1>5. \A r \in Rail, s \in {"3ds_pending", "failed", "authorized"} :
        Transition(Draft(r, a), s) \in Intent
  BY <1>2, DraftType, TransitionType DEF Status
<1>6. ASSUME NEW r \in Rail, NEW s \in {"3ds_pending", "failed"}, UNCHANGED gateway,
             BeginCreate(t, id, StoreAndEmit(id, Transition(Draft(r, a), s)))
      PROVE  SafetyInv'
  <2>1. Sound(Transition(Draft(r, a), s), gateway[id]) /\ Transition(Draft(r, a), s) \in Intent
    BY <1>3, <1>5, DraftSound
  <2>2. gateway' = [gateway EXCEPT ![id] = gateway[id]]
    BY <1>3, <1>6
  <2>3. QED
    BY <1>3, <1>4, <1>6, <2>1, <2>2
<1>7. CASE CreateThreeDS(t, id, a)
  BY <1>2, <1>6, <1>7 DEF CreateThreeDS
<1>8. ASSUME NEW r \in Rails, CreateFailed(t, id, r, a)
      PROVE  SafetyInv'
  BY <1>2, <1>6, <1>8 DEF CreateFailed
<1> DEFINE authorized == RailAuthorize(gateway[id])
<1>9. authorized \in Ledger /\ 0 <= authorized.captured /\ 0 <= authorized.refunded
      /\ "authorize" \in authorized.done
  BY <1>3, LedgerType, 0 \in Int DEF RailAuthorize, Ledger
<1>10. ASSUME NEW n \in Int, 0 <= n
       PROVE  LET g == RailSubmit(gateway[id], n)
              IN /\ g \in Ledger /\ n <= g.captured /\ 0 <= g.captured /\ 0 <= g.refunded
                 /\ "authorize" \in g.done
  <2>1. RailSubmit(gateway[id], n) = RailCapture(authorized, n)
    BY DEF RailSubmit
  <2> HIDE DEF authorized
  <2>2. RailCapture(authorized, n) \in Ledger
    BY <1>9, <1>10, LedgerType
  <2>3. /\ RailCapture(authorized, n).captured = authorized.captured + n
        /\ RailCapture(authorized, n).refunded = authorized.refunded
        /\ RailCapture(authorized, n).done = authorized.done
        /\ authorized.captured \in Int /\ authorized.refunded \in Int
    BY <1>9 DEF RailCapture, Ledger
  <2>4. QED
    BY <1>9, <1>10, <2>1, <2>2, <2>3
<1>11. ASSUME NEW r \in Rails, CreateAuthorized(t, id, r, a)
       PROVE  SafetyInv'
  <2> DEFINE i == Transition(Draft(r, a), "authorized")
  <2>1. i \in Intent /\ Sound(i, authorized)
    BY <1>2, <1>5, <1>9, DraftSound
  <2>2. BeginCreate(t, id, StoreAndEmit(id, i)) /\ gateway' = [gateway EXCEPT ![id] = authorized]
    BY <1>11 DEF CreateAuthorized
  <2> HIDE DEF i, authorized
  <2>3. QED
    BY <1>4, <1>9, <2>1, <2>2
<1>12. ASSUME NEW r \in Rails, NEW n \in SubmitAmounts \cup {a}, CreateReplyLost(t, id, r, a, n)
       PROVE  SafetyInv'
  <2> DEFINE i == Transition(Draft(r, a), "failed")
             g == IF IsInstant(r) THEN RailSubmit(gateway[id], n) ELSE authorized
  <2>1. g \in Ledger /\ 0 <= g.captured /\ 0 <= g.refunded
    BY <1>2, <1>9, <1>10
  <2>2. BeginCreate(t, id, StoreAndEmit(id, i)) /\ gateway' = [gateway EXCEPT ![id] = g]
    BY <1>12 DEF CreateReplyLost
  <2> HIDE DEF g
  <2>3. i \in Intent /\ Sound(i, g)
    BY <1>2, <1>5, <2>1, DraftSound
  <2> HIDE DEF i
  <2>4. QED
    BY <1>4, <2>1, <2>2, <2>3
<1>13. ASSUME NEW r \in Rails, NEW n \in SubmitAmounts \cup {a}, CreateInstant(t, id, r, a, n)
       PROVE  SafetyInv'
  <2> DEFINE i == Transition(Transition([Draft(r, a) EXCEPT !.captured = n], "authorized"),
                             "captured")
             g == RailSubmit(gateway[id], n)
             create == [op |-> "create", id |-> id, intent |-> i]
             add == [op |-> "add_row", id |-> id, table |-> "captures", amount |-> n]
             emit == [op |-> "emit", id |-> id, to |-> i.status]
             steps == << create, add, emit >>
  <2>1. g \in Ledger /\ n <= g.captured /\ 0 <= g.captured /\ 0 <= g.refunded
        /\ "authorize" \in g.done
    BY <1>2, <1>10
  <2>2. IsInstant(r) /\ gateway' = [gateway EXCEPT ![id] = g]
    BY <1>13 DEF CreateInstant
  <2> HIDE DEF g
  <2>3. i \in Intent /\ Sound(i, g)
    BY <1>2, <2>1, <2>2, InstantSound
  <2>4. BeginCreate(t, id, << StoreAndEmit(id, i)[1], add, StoreAndEmit(id, i)[2] >>)
    BY <1>13 DEF CreateInstant
  <2> HIDE DEF i
  <2>5. StoreAndEmit(id, i)[1] = create /\ StoreAndEmit(id, i)[2] = emit
        /\ create \in Op /\ emit \in Op
    BY <2>3, StoreAndEmitType
  <2>6. add \in Op /\ add.op # "create" /\ emit.op # "create"
        /\ create.op = "create" /\ create.id = id /\ create.intent = i
    BY <1>2, OpTypes DEF Table
  <2> HIDE DEF create, add, emit
  <2>7. BeginCreate(t, id, steps)
    BY <2>4, <2>5
  <2>8. steps \in Seq(Op)
    BY <2>5, <2>6, OpSeqs
  <2>9. steps # << >> /\ Head(steps) = create /\ Tail(steps) = << add, emit >>
    BY <2>5, <2>6
  <2>10. NoCreate(<< add, emit >>)
    BY <2>6 DEF NoCreate
  <2> HIDE DEF steps
  <2>11. QED
    BY <2>1, <2>2, <2>3, <2>6, <2>7, <2>8, <2>9, <2>10, CreateFrame
<1>14. QED
  BY <1>1, <1>7, <1>8, <1>11, <1>12, <1>13

LEMMA ContinueSafe ==
  ASSUME SafetyInv, TypeOK', NEW t \in Threads, Continue(t)
  PROVE  SafetyInv'
<1> DEFINE h == Head(todo[t])
           q == Tail(todo[t])
<1>1. todo[t] # << >>
  BY DEF Continue, StoreIntent, AddRow, EmitTransition, AddChargeback, UpdateChargeback,
         OpenDispute, CloseDispute, Doing
<1>2. TypeOK /\ h \in Op /\ q \in Seq(Op) /\ NoCreate(q)
  BY <1>1, HeadTail, TailNoCreate DEF SafetyInv
<1>3. ASSUME PopOp(t), UNCHANGED <<issued, stored, intents, gateway>>
      PROVE  SafetyInv'
  BY <1>2, <1>3, ThreadFrame DEF PopOp
<1> HIDE DEF h, q
<1>4. CASE StoreIntent(t)
  <2>1. h.op = "create" /\ stored' = stored \cup {h.id}
        /\ intents' = [intents EXCEPT ![h.id] = h.intent]
        /\ todo' = [todo EXCEPT ![t] = q] /\ UNCHANGED <<issued, gateway>>
    BY <1>4 DEF StoreIntent, Doing, PopOp, h, q
  <2>2. h.id \in Intents /\ h.intent \in Intent
    BY <1>2, <2>1, OpFields
  <2>3. h.id \in issued \ stored /\ Sound(h.intent, gateway[h.id])
    BY <1>1, <2>1 DEF SafetyInv, DraftsSound, h
  <2>4. todo'[t] = q /\ \A u \in Threads \ {t} : todo'[u] = todo[u]
    BY <1>2, <2>1 DEF TypeOK
  <2>5. q # << >> => NoCreate(Tail(q)) /\ Head(q).op # "create"
    <3> SUFFICES ASSUME q # << >>
                 PROVE  NoCreate(Tail(q)) /\ Head(q).op # "create"
      OBVIOUS
    <3>1. Len(q) \in Nat /\ Len(q) > 0 /\ DOMAIN q = 1 .. Len(q) /\ Head(q) = q[1]
      BY <1>2
    <3>2. /\ DOMAIN Tail(q) = 1 .. (Len(q) - 1)
          /\ \A k \in 1 .. (Len(q) - 1) : Tail(q)[k] = q[k + 1]
      BY <1>2, <3>1
    <3>3. QED
      BY <1>2, <3>1, <3>2 DEF NoCreate
  <2>6. ASSUME NEW u \in Threads \ {t}, todo[u] # << >>
        PROVE  /\ NoCreate(Tail(todo[u]))
               /\ Head(todo[u]).op = "create" =>
                    /\ Head(todo[u]).id \in issued \ stored
                    /\ Head(todo[u]).id # h.id
                    /\ Sound(Head(todo[u]).intent, gateway[Head(todo[u]).id])
    <3>1. /\ NoCreate(Tail(todo[u]))
          /\ Head(todo[u]).op = "create" =>
               /\ Head(todo[u]).id \in issued \ stored
               /\ Sound(Head(todo[u]).intent, gateway[Head(todo[u]).id])
      BY <2>6 DEF SafetyInv, DraftsSound
    <3>2. Head(todo[u]).op = "create" => Head(todo[u]).id # h.id
      BY <1>1, <2>1, <2>6 DEF SafetyInv, DraftsSound, Doing, h
    <3>3. QED
      BY <3>1, <3>2
  <2>7. (stored \subseteq issued)'
    BY <2>1, <2>3 DEF SafetyInv, DraftsSound
  <2>8. ASSUME NEW u \in Threads, todo'[u] # << >>
        PROVE  /\ NoCreate(Tail(todo'[u]))
               /\ Head(todo'[u]).op = "create" =>
                    /\ Head(todo'[u]).id \in issued' \ stored'
                    /\ Sound(Head(todo'[u]).intent, gateway'[Head(todo'[u]).id])
    <3>1. CASE u = t
      BY <2>4, <2>5, <2>8, <3>1
    <3>2. CASE u # t
      BY <2>1, <2>4, <2>6, <2>8, <3>2
    <3>3. QED
      BY <3>1, <3>2
  <2>9. ASSUME NEW u \in Threads, NEW v \in Threads, Doing(u, "create")', Doing(v, "create")',
               Head(todo'[u]).id = Head(todo'[v]).id
        PROVE  u = v
    <3>1. u # t /\ v # t
      BY <2>4, <2>5, <2>9 DEF Doing
    <3>2. QED
      BY <2>4, <2>9, <3>1 DEF SafetyInv, DraftsSound, Doing
  <2>10. DraftsSound'
    BY <2>7, <2>8, <2>9 DEF DraftsSound
  <2>11. RailAmounts'
    BY <2>1 DEF SafetyInv, RailAmounts
  <2>12. \A j \in stored' : Sound(intents'[j], gateway'[j])
    BY <1>2, <2>1, <2>2, <2>3 DEF SafetyInv, TypeOK
  <2>13. QED
    BY <2>10, <2>11, <2>12 DEF SafetyInv
<1>5. CASE AddRow(t)
  BY <1>3, <1>5 DEF AddRow
<1>6. CASE EmitTransition(t)
  BY <1>3, <1>6 DEF EmitTransition
<1>7. CASE AddChargeback(t)
  BY <1>3, <1>7 DEF AddChargeback
<1>8. CASE UpdateChargeback(t)
  BY <1>3, <1>8 DEF UpdateChargeback
<1>9. ASSUME NEW id \in Intents, NEW from, NEW to \in Status, NEW o,
             DisputeStep(t, id, from, to, o),
             \A s \in from : QuietMove(s, to) \/ (s = "settled" /\ to = "charged_back"),
             to # "authorized"
      PROVE  SafetyInv'
  <2> DEFINE c == Transition(intents[id], to)
             ok == TransitionAllowed(intents[id], to)
             emits == IF ok THEN {to} ELSE {}
  <2>1. CASE id \in stored /\ intents[id].status \in from
    <3>1. /\ UpdateIntentStep(t, id, c, ok, emits, q, o)
          /\ UNCHANGED <<issued, stored, gateway>>
      BY <1>9, <2>1 DEF DisputeStep, q
    <3>2. /\ intents[id] \in Intent /\ gateway[id] \in Ledger
          /\ 0 <= gateway[id].captured /\ 0 <= gateway[id].refunded
          /\ Sound(intents[id], gateway[id])
      BY <2>1 DEF SafetyInv, TypeOK, RailAmounts
    <3>3. c \in Intent
      BY <3>2, TransitionType
    <3>4. Sound(c, gateway[id])
      <4>1. CASE QuietMove(intents[id].status, to)
        BY <1>9, <3>2, <4>1, QuietMoveSound
      <4>2. CASE intents[id].status = "settled"
        BY <3>2, <4>2 DEF Transition, TransitionAllowed, IsTerminal
      <4>3. QED
        BY <1>9, <2>1, <4>1, <4>2
    <3>5. gateway' = [gateway EXCEPT ![id] = gateway[id]]
      BY <3>1 DEF SafetyInv, TypeOK
    <3> HIDE DEF c, ok, emits
    <3>6. QED
      BY <1>2, <2>1, <3>1, <3>2, <3>3, <3>4, <3>5, RequestFrame
  <2>2. CASE ~(id \in stored /\ intents[id].status \in from)
    BY <1>3, <1>9, <2>2 DEF DisputeStep
  <2>3. QED
    BY <2>1, <2>2
<1>10. ASSUME NEW o, OpenDispute(t, o)
       PROVE  SafetyInv'
  <2>1. h.id \in Intents /\ "charged_back" \in Status
    BY <1>2, <1>10, OpFields DEF OpenDispute, Doing, h, Status
  <2>2. DisputeStep(t, h.id, {"captured", "settled"}, "charged_back", o)
    BY <1>10 DEF OpenDispute, h
  <2>3. QED
    BY <1>9, <2>1, <2>2 DEF QuietMove
<1>11. ASSUME NEW o, CloseDispute(t, o)
       PROVE  SafetyInv'
  <2>1. h.id \in Intents /\ h.to \in Status /\ h.to \in {"chargeback_won", "chargeback_lost"}
    BY <1>2, <1>11, OpFields DEF CloseDispute, Doing, h, Status
  <2>2. DisputeStep(t, h.id, {"charged_back"}, h.to, o)
    BY <1>11 DEF CloseDispute, h
  <2>3. QED
    BY <1>9, <2>1, <2>2 DEF QuietMove
<1>12. QED
  BY <1>4, <1>5, <1>6, <1>7, <1>8, <1>10, <1>11 DEF Continue

-----------------------------------------------------------------------------
(* The invariant and what follows from it.                                 *)

LEMMA SafetyInit == Init => SafetyInv
<1> SUFFICES ASSUME Init
             PROVE  SafetyInv
  OBVIOUS
<1>1. TypeOK
  BY TypeInit
<1>2. RailAmounts
  BY DEF Init, RailAmounts, EmptyLedger
<1>3. DraftsSound
  BY DEF Init, DraftsSound, Doing
<1>4. QED
  BY <1>1, <1>2, <1>3 DEF SafetyInv, Init

LEMMA SafetyStep ==
  ASSUME AmountsFit
  PROVE  SafetyInv /\ [Next]_vars => SafetyInv'
<1> SUFFICES ASSUME SafetyInv, [Next]_vars
             PROVE  SafetyInv'
  OBVIOUS
<1>1. TypeOK'
  BY TypeStep DEF SafetyInv
<1>2. ASSUME NEW t \in Threads, Request(t)
      PROVE  SafetyInv'
  BY <1>1, <1>2, CreateIntentSafe, MoneyRequestSafe, ChallengeSafe, WebhookSafe DEF Request
<1>3. ASSUME NEW t \in Threads, Continue(t)
      PROVE  SafetyInv'
  BY <1>1, <1>3, ContinueSafe
<1>4. ASSUME NEW t \in Threads, InsertLost(t)
      PROVE  SafetyInv'
  <2>1. NoCreate(Tail(todo[t]))
    BY <1>4, TailNoCreate DEF InsertLost, Doing
  <2>2. todo' = [todo EXCEPT ![t] = Tail(todo[t])] /\ UNCHANGED <<issued, stored, intents, gateway>>
    BY <1>4 DEF InsertLost, PopOp
  <2>3. QED
    BY <1>1, <2>1, <2>2, ThreadFrame
<1>5. ASSUME NEW t \in Threads, Crash(t)
      PROVE  SafetyInv'
  <2>1. todo' = [todo EXCEPT ![t] = << >>] /\ UNCHANGED <<issued, stored, intents, gateway>>
    BY <1>5 DEF Crash
  <2>2. QED
    BY <1>1, <2>1, EmptyNoCreate, ThreadFrame
<1>6. ASSUME NEW id \in Intents, WindowElapses(id)
      PROVE  SafetyInv'
  BY <1>1, <1>6 DEF WindowElapses, SafetyInv, RailAmounts, DraftsSound, Doing
<1>7. CASE UNCHANGED vars
  BY <1>1, <1>7 DEF vars, SafetyInv, RailAmounts, DraftsSound, Doing
<1>8. QED
  BY <1>2, <1>3, <1>4, <1>5, <1>6, <1>7 DEF Next

\* SafetyInv holds in every reachable state, whichever store is configured and
\* whichever faults happen, if no intent's amount is above half of MaxInt.
THEOREM SafetyInvariant ==
  ASSUME AmountsFit
  PROVE  Spec => []SafetyInv
<1>1. Init => SafetyInv
  BY SafetyInit
<1>2. SafetyInv /\ [Next]_vars => SafetyInv'
  BY SafetyStep
<1>3. QED
  BY <1>1, <1>2, PTL DEF Spec

\* The books never run ahead of the rail.
THEOREM BooksStayWithinRail ==
  ASSUME AmountsFit
  PROVE  Spec => []BooksWithinRail
<1>1. SafetyInv => BooksWithinRail
  BY DEF SafetyInv, Sound, BooksWithinRail
<1>2. QED
  BY <1>1, SafetyInvariant, PTL

\* Card captures never exceed, and when complete equal, the authorized amount.
THEOREM CapturesStayWithinAuthorization ==
  ASSUME AmountsFit
  PROVE  Spec => []CaptureWithinAuthorization
<1>1. SafetyInv => CaptureWithinAuthorization
  BY DEF SafetyInv, Sound, CaptureWithinAuthorization
<1>2. QED
  BY <1>1, SafetyInvariant, PTL

\* On Postgres the refunded amount of an intent never exceeds its captured
\* amount.
THEOREM RefundsStayWithinCapture ==
  ASSUME AmountsFit, StoreKind = "postgres"
  PROVE  Spec => []RefundWithinCapture
<1>1. SafetyInv => RefundWithinCapture
  BY DEF SafetyInv, Sound, RefundWithinCapture
<1>2. QED
  BY <1>1, SafetyInvariant, PTL
=============================================================================
