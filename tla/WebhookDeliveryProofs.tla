------------------------ MODULE WebhookDeliveryProofs ------------------------
(***************************************************************************)
(* Proofs about WebhookDelivery, for any number of payments, of events and *)
(* of concurrent requests: how often an event is processed on MemStore,    *)
(* and what a 200 means on either store.                                   *)
(***************************************************************************)
EXTENDS WebhookDelivery, TLAPS

\* A request that is past RecordWebhook has its event in the webhooks table.
PastRecord == \A t \in Threads : handling[t].pc \in {"apply", "mark"} => handling[t].event \in recorded

\* What the refusal of a second record buys on MemStore: at most one request
\* is between RecordWebhook and processWebhook with an event, and then the
\* event has left no entry.
OneProcesses ==
  backend = "mem" =>
    /\ \A e \in Events : noted[e] > 0 => e \in recorded
    /\ \A t \in Threads : At(t, "apply") => noted[handling[t].event] = 0
    /\ \A t, u \in Threads :
         At(t, "apply") /\ At(u, "apply") /\ handling[t].event = handling[u].event => t = u

\* The payment that e names is past captured, or e was dropped before that.
Dealt(e) == e \in early \/ status[about[e]] \in {"settled", "left"}

\* What a request is about to answer 200 to has been dealt with; on MemStore so
\* has each recorded event, unless a request is about to process it, so that
\* a duplicate can be answered at once.
AnswersDealt ==
  /\ \A t \in Threads : At(t, "mark") /\ handling[t].ok => Dealt(handling[t].event)
  /\ backend = "mem" => \A e \in recorded : Dealt(e) \/ Processing(e)

DeliveryInv ==
  /\ TypeOK
  /\ PastRecord
  /\ OneProcesses
  /\ AnswersDealt
  /\ MemProcessesOnce
  /\ AckedLeavesNoneWaiting

-----------------------------------------------------------------------------
(* What one step of a request leaves.                                      *)

\* CountFault keeps the number of faults within its bound, and without a
\* fault, as always on MemStore, the outcome is "ok".
LEMMA OutcomeFacts ==
  ASSUME TypeOK, NEW kinds, NEW o \in Outcomes(kinds), CountFault(o)
  PROVE  /\ faults' \in 0 .. MaxFaults
         /\ backend = "mem" => o = "ok"
  BY DeliveryAssumption DEF TypeOK, Outcomes, CountFault

\* Goes moves one request on, and keeps its event.
LEMMA GoesFacts ==
  ASSUME TypeOK, NEW t \in Threads, NEW s \in Step, NEW ok \in BOOLEAN, Goes(t, s, ok)
  PROVE  /\ handling' \in [Threads -> [pc : Step, event : Events, ok : BOOLEAN]]
         /\ handling'[t].pc = s /\ handling'[t].ok = ok
         /\ handling'[t].event = handling[t].event
         /\ \A u \in Threads : u # t => handling'[u] = handling[u]
  BY DEF TypeOK, Goes

\* What has been dealt with stays so: no payment comes back to captured.
LEMMA DealtStays ==
  ASSUME TypeOK, UNCHANGED about, early \subseteq early',
         \A p \in Payments : status[p] \in {"settled", "left"} => status'[p] \in {"settled", "left"}
  PROVE  \A e \in Events : Dealt(e) => Dealt(e)'
  BY DEF TypeOK, Dealt

-----------------------------------------------------------------------------
LEMMA DeliveryInit == Init => DeliveryInv
  <1> SUFFICES ASSUME Init
               PROVE  DeliveryInv
    OBVIOUS
  <1>1. /\ handling \in [Threads -> [pc : Step, event : Events, ok : BOOLEAN]]
        /\ \A t \in Threads : handling[t].pc = "idle"
    BY DEF Init, Step
  <1>2. TypeOK
    BY <1>1, DeliveryAssumption DEF Init, TypeOK, PaymentStatus
  <1>3. PastRecord /\ OneProcesses /\ AnswersDealt
    BY <1>1 DEF Init, PastRecord, OneProcesses, AnswersDealt, At
  <1>4. MemProcessesOnce /\ AckedLeavesNoneWaiting
    BY DEF Init, MemProcessesOnce, AckedLeavesNoneWaiting
  <1> QED
    BY <1>2, <1>3, <1>4 DEF DeliveryInv

LEMMA RecordKeeps ==
  ASSUME DeliveryInv, NEW t \in Threads, NEW o \in Outcomes({"sql_error"}), RecordWebhook(t, o)
  PROVE  DeliveryInv'
  <1> USE DEF DeliveryInv
  <1>0. PICK e \in Events : e = handling[t].event
    BY DEF TypeOK
  <1> DEFINE new == IF backend = "mem" THEN MemRecordWebhook(e) ELSE PgRecordWebhook(e)
             s == IF o = "ok" /\ new THEN "apply" ELSE "idle"
  <1>1. /\ At(t, "record") /\ Goes(t, s, FALSE) /\ CountFault(o)
        /\ recorded' = IF o = "ok" THEN recorded \cup {e} ELSE recorded
        /\ acked' = IF o = "ok" /\ ~new THEN acked \cup {e} ELSE acked
        /\ UNCHANGED <<backend, about, status, lapsed, marked, noted, early>>
    BY <1>0 DEF RecordWebhook
  <1>2. s \in Step
    BY DEF Step
  <1>3. faults' \in 0 .. MaxFaults /\ (backend = "mem" => o = "ok")
    BY <1>1, OutcomeFacts
  <1>4. /\ handling' \in [Threads -> [pc : Step, event : Events, ok : BOOLEAN]]
        /\ handling'[t].pc = s /\ handling'[t].ok = FALSE
        /\ handling'[t].event = e
        /\ \A u \in Threads : u # t => handling'[u] = handling[u]
    BY <1>0, <1>1, <1>2, GoesFacts
  <1>5. TypeOK'
    BY <1>1, <1>3, <1>4 DEF TypeOK
  <1>6. PastRecord'
    BY <1>1, <1>4 DEF PastRecord
  <1>7. OneProcesses'
    <2> SUFFICES ASSUME backend = "mem"
                 PROVE  OneProcesses'
      BY <1>1 DEF OneProcesses
    <2>1. \A u \in Threads : handling'[u].pc = "apply" =>
            \/ u = t /\ handling'[u].event = e /\ e \notin recorded
            \/ u # t /\ handling'[u] = handling[u] /\ handling[u].event \in recorded
      BY <1>4 DEF PastRecord, MemRecordWebhook
    <2>2. e \notin recorded => noted[e] = 0
      BY DEF OneProcesses, TypeOK
    <2>3. \A u \in Threads : handling'[u].pc = "apply" => noted[handling'[u].event] = 0
      BY <2>1, <2>2 DEF OneProcesses, At
    <2>4. \A u, v \in Threads :
            handling'[u].pc = "apply" /\ handling'[v].pc = "apply"
            /\ handling'[u].event = handling'[v].event => u = v
      BY <2>1 DEF OneProcesses, At
    <2> QED
      BY <2>3, <2>4, <1>1 DEF OneProcesses, At
  <1>8. \A f \in Events : Processing(f) => Processing(f)'
    BY <1>1, <1>4 DEF Processing, At
  <1>9. backend = "mem" /\ new => Processing(e)'
    BY <1>1, <1>3, <1>4 DEF Processing, At
  <1>10. \A f : Dealt(f)' <=> Dealt(f)
    BY <1>1 DEF Dealt
  <1>11. AnswersDealt'
    <2>1. \A u \in Threads, f \in Events :
            handling'[u].pc = "mark" /\ handling'[u].ok /\ handling'[u].event = f => Dealt(f)'
      BY <1>4, <1>10 DEF AnswersDealt, At
    <2>2. backend = "mem" => \A f \in recorded' : Dealt(f)' \/ Processing(f)'
      BY <1>1, <1>8, <1>9, <1>10 DEF AnswersDealt, MemRecordWebhook, TypeOK
    <2> QED
      BY <2>1, <2>2, <1>1, <1>5 DEF AnswersDealt, At, Dealt, TypeOK
  <1>12. AckedLeavesNoneWaiting'
    <2>1. \A f \in acked' : f \in acked \/ (f = e /\ backend = "mem" /\ e \in recorded)
      BY <1>1 DEF MemRecordWebhook, PgRecordWebhook
    <2>2. \A f \in acked' : Dealt(f) \/ (backend = "mem" /\ Processing(f))
      BY <2>1 DEF AckedLeavesNoneWaiting, AnswersDealt, Dealt
    <2>3. \A f \in acked' : Dealt(f)' \/ (backend = "mem" /\ Processing(f)')
      BY <2>2, <1>5, <1>8, <1>10 DEF TypeOK
    <2> QED
      BY <2>3, <1>1 DEF AckedLeavesNoneWaiting, Dealt
  <1>13. MemProcessesOnce'
    BY <1>1 DEF MemProcessesOnce
  <1> QED
    BY <1>5, <1>6, <1>7, <1>11, <1>12, <1>13

LEMMA ProcessKeeps ==
  ASSUME DeliveryInv, NEW t \in Threads, NEW o \in Outcomes({"sql_error"}), ProcessWebhook(t, o)
  PROVE  DeliveryInv'
  <1> USE DEF DeliveryInv
  <1>0. PICK e \in Events, p \in Payments : e = handling[t].event /\ p = about[e]
    BY DEF TypeOK
  <1> DEFINE ok == o = "ok"
  <1>1. /\ about[e] = p /\ At(t, "apply") /\ Goes(t, "mark", ok) /\ CountFault(o)
        /\ status' = IF o = "ok" /\ status[p] = "captured"
                     THEN [status EXCEPT ![p] = "settled"]
                     ELSE status
        /\ noted' = IF o = "ok" /\ status[p] # "unknown" /\ noted[e] < 2
                    THEN [noted EXCEPT ![e] = @ + 1]
                    ELSE noted
        /\ early' = IF o = "ok" /\ status[p] \in {"unknown", "open"}
                    THEN early \cup {e}
                    ELSE early
        /\ UNCHANGED <<backend, about, lapsed, recorded, marked, acked>>
    BY <1>0 DEF ProcessWebhook
  <1>2. "mark" \in Step /\ ok \in BOOLEAN
    BY DEF Step
  <1>3. faults' \in 0 .. MaxFaults /\ (backend = "mem" => o = "ok")
    BY <1>1, OutcomeFacts
  <1>4. /\ handling' \in [Threads -> [pc : Step, event : Events, ok : BOOLEAN]]
        /\ handling'[t].pc = "mark" /\ handling'[t].ok = ok
        /\ handling'[t].event = e
        /\ \A u \in Threads : u # t => handling'[u] = handling[u]
    BY <1>0, <1>1, <1>2, GoesFacts
  <1>5. /\ noted' \in [Events -> 0 .. 2]
        /\ \A f \in Events \ {e} : noted'[f] = noted[f]
        /\ noted'[e] <= noted[e] + 1
    BY <1>1 DEF TypeOK
  <1>6. /\ status' \in [Payments -> PaymentStatus]
        /\ \A q \in Payments : status[q] \in {"settled", "left"} => status'[q] \in {"settled", "left"}
        /\ o = "ok" /\ status[p] = "captured" => status'[p] = "settled"
        /\ status[p] \in {"unknown", "open", "captured", "settled", "left"}
    BY <1>1 DEF TypeOK, PaymentStatus
  <1>7. TypeOK'
    BY <1>1, <1>3, <1>4, <1>5, <1>6 DEF TypeOK
  <1>8. PastRecord'
    BY <1>0, <1>1, <1>4 DEF PastRecord, At
  <1>9. OneProcesses' /\ MemProcessesOnce'
    <2> SUFFICES ASSUME backend = "mem"
                 PROVE  OneProcesses' /\ MemProcessesOnce'
      BY <1>1 DEF OneProcesses, MemProcessesOnce
    <2>1. noted[e] = 0 /\ e \in recorded
      BY <1>0, <1>1 DEF OneProcesses, PastRecord, At
    <2>2. \A f \in Events : noted'[f] > 0 => f \in recorded
      BY <2>1, <1>5 DEF OneProcesses, TypeOK
    <2>3. \A u \in Threads : handling'[u].pc = "apply" =>
            u # t /\ handling[u].pc = "apply" /\ handling[u].event # e
            /\ handling[u].event \in Events
      BY <1>0, <1>1, <1>4 DEF OneProcesses, At, TypeOK
    <2>4. \A u \in Threads : handling'[u].pc = "apply" => noted'[handling'[u].event] = 0
      BY <2>3, <1>4, <1>5 DEF OneProcesses, At
    <2>5. \A u, v \in Threads :
            handling'[u].pc = "apply" /\ handling'[v].pc = "apply"
            /\ handling'[u].event = handling'[v].event => u = v
      BY <2>3, <1>4 DEF OneProcesses, At
    <2>6. MemProcessesOnce'
      BY <2>1, <1>1, <1>5 DEF MemProcessesOnce, TypeOK
    <2> QED
      BY <2>2, <2>4, <2>5, <2>6, <1>1 DEF OneProcesses, At
  <1>10. \A f \in Events : Dealt(f) => Dealt(f)'
    BY <1>1, <1>6, DealtStays
  <1>11. o = "ok" => Dealt(e)'
    BY <1>1, <1>6 DEF Dealt
  <1>12. \A f \in Events \ {e} : Processing(f) => Processing(f)'
    BY <1>0, <1>1, <1>4 DEF Processing, At
  <1>13. \A f \in Events : Dealt(f) \/ (backend = "mem" /\ Processing(f)) =>
           Dealt(f)' \/ (backend = "mem" /\ Processing(f)')
    BY <1>3, <1>10, <1>11, <1>12
  <1>14. AnswersDealt'
    <2>1. \A u \in Threads, f \in Events :
            handling'[u].pc = "mark" /\ handling'[u].ok /\ handling'[u].event = f => Dealt(f)'
      BY <1>4, <1>10, <1>11 DEF AnswersDealt, At, TypeOK
    <2>2. backend = "mem" => \A f \in recorded : Dealt(f)' \/ Processing(f)'
      BY <1>13 DEF AnswersDealt, TypeOK
    <2> QED
      BY <2>1, <2>2, <1>1, <1>7 DEF AnswersDealt, At, Dealt, TypeOK
  <1>15. AckedLeavesNoneWaiting'
    <2>1. \A f \in acked : Dealt(f) \/ (backend = "mem" /\ Processing(f))
      BY DEF AckedLeavesNoneWaiting, Dealt
    <2>2. \A f \in acked : Dealt(f)' \/ (backend = "mem" /\ Processing(f)')
      BY <2>1, <1>13 DEF TypeOK
    <2> QED
      BY <2>2, <1>1 DEF AckedLeavesNoneWaiting, Dealt
  <1> QED
    BY <1>7, <1>8, <1>9, <1>14, <1>15

LEMMA MarkKeeps ==
  ASSUME DeliveryInv, NEW t \in Threads, NEW o \in Outcomes({"sql_error"}),
         MarkWebhookProcessed(t, o)
  PROVE  DeliveryInv'
  <1> USE DEF DeliveryInv
  <1>0. PICK e \in Events : e = handling[t].event
    BY DEF TypeOK
  <1>1. /\ At(t, "mark") /\ Goes(t, "idle", FALSE) /\ CountFault(o)
        /\ marked' = IF o = "ok" THEN marked \cup {e} ELSE marked
        /\ acked' = IF handling[t].ok THEN acked \cup {e} ELSE acked
        /\ UNCHANGED <<backend, about, status, lapsed, recorded, noted, early>>
    BY <1>0 DEF MarkWebhookProcessed
  <1>2. "idle" \in Step
    BY DEF Step
  <1>3. faults' \in 0 .. MaxFaults
    BY <1>1, OutcomeFacts
  <1>4. /\ handling' \in [Threads -> [pc : Step, event : Events, ok : BOOLEAN]]
        /\ handling'[t].pc = "idle"
        /\ \A u \in Threads : u # t => handling'[u] = handling[u]
    BY <1>1, <1>2, GoesFacts
  <1>5. TypeOK'
    BY <1>0, <1>1, <1>3, <1>4 DEF TypeOK, PastRecord, At
  <1>6. PastRecord' /\ OneProcesses' /\ MemProcessesOnce'
    BY <1>1, <1>4 DEF PastRecord, OneProcesses, MemProcessesOnce, At
  <1>7. \A f : (Dealt(f)' <=> Dealt(f)) /\ (Processing(f) => Processing(f)')
    BY <1>1, <1>4 DEF Dealt, Processing, At
  <1>8. AnswersDealt'
    <2>1. \A u \in Threads, f \in Events :
            handling'[u].pc = "mark" /\ handling'[u].ok /\ handling'[u].event = f => Dealt(f)'
      BY <1>4, <1>7 DEF AnswersDealt, At
    <2> QED
      BY <2>1, <1>1, <1>5, <1>7 DEF AnswersDealt, At, Dealt, TypeOK
  <1>9. AckedLeavesNoneWaiting'
    <2>1. \A f \in acked' : Dealt(f) \/ (backend = "mem" /\ Processing(f))
      BY <1>0, <1>1 DEF AckedLeavesNoneWaiting, AnswersDealt, Dealt, At
    <2>2. \A f \in acked' : Dealt(f)' \/ (backend = "mem" /\ Processing(f)')
      BY <2>1, <1>7
    <2> QED
      BY <2>2, <1>1 DEF AckedLeavesNoneWaiting, Dealt
  <1> QED
    BY <1>5, <1>6, <1>8, <1>9

LEMMA CrashKeeps ==
  ASSUME DeliveryInv, NEW t \in Threads, Crash(t)
  PROVE  DeliveryInv'
  <1> USE DEF DeliveryInv
  <1>1. /\ "crash" \in Outcomes({"crash"}) /\ CountFault("crash") /\ Goes(t, "idle", FALSE)
        /\ UNCHANGED <<backend, about, status, lapsed, recorded, marked, noted, early, acked>>
    BY DEF Crash
  <1>2. "idle" \in Step
    BY DEF Step
  <1>3. faults' \in 0 .. MaxFaults /\ backend # "mem"
    BY <1>1, OutcomeFacts
  <1>4. /\ handling' \in [Threads -> [pc : Step, event : Events, ok : BOOLEAN]]
        /\ handling'[t].pc = "idle"
        /\ \A u \in Threads : u # t => handling'[u] = handling[u]
    BY <1>1, <1>2, GoesFacts
  <1>5. TypeOK'
    BY <1>1, <1>3, <1>4 DEF TypeOK
  <1>6. PastRecord' /\ OneProcesses' /\ MemProcessesOnce'
    BY <1>1, <1>4 DEF PastRecord, OneProcesses, MemProcessesOnce, At
  <1>7. \A f : Dealt(f)' <=> Dealt(f)
    BY <1>1 DEF Dealt
  <1>8. AnswersDealt'
    <2>1. \A u \in Threads, f \in Events :
            handling'[u].pc = "mark" /\ handling'[u].ok /\ handling'[u].event = f => Dealt(f)'
      BY <1>4, <1>7 DEF AnswersDealt, At
    <2> QED
      BY <2>1, <1>1, <1>3, <1>5 DEF AnswersDealt, At, Dealt, TypeOK
  <1>9. AckedLeavesNoneWaiting'
    BY <1>1, <1>3 DEF AckedLeavesNoneWaiting
  <1> QED
    BY <1>5, <1>6, <1>8, <1>9

LEMMA ReceiveKeeps ==
  ASSUME DeliveryInv, NEW t \in Threads, NEW e \in Events, Webhook(t, e)
  PROVE  DeliveryInv'
  <1> USE DEF DeliveryInv
  <1>1. /\ At(t, "idle")
        /\ handling' = [handling EXCEPT ![t] = [pc |-> "record", event |-> e, ok |-> FALSE]]
        /\ UNCHANGED <<backend, about, status, lapsed, recorded, marked, noted, early, acked, faults>>
    BY DEF Webhook
  <1>2. /\ handling' \in [Threads -> [pc : Step, event : Events, ok : BOOLEAN]]
        /\ handling'[t].pc = "record" /\ handling'[t].event = e
        /\ \A u \in Threads : u # t => handling'[u] = handling[u]
    BY <1>1 DEF TypeOK, Step
  <1>3. TypeOK'
    BY <1>1, <1>2 DEF TypeOK
  <1>4. PastRecord' /\ OneProcesses' /\ MemProcessesOnce'
    BY <1>1, <1>2 DEF PastRecord, OneProcesses, MemProcessesOnce, At
  <1>5. \A f : (Dealt(f)' <=> Dealt(f)) /\ (Processing(f) => Processing(f)')
    BY <1>1, <1>2 DEF Dealt, Processing, At
  <1>6. AnswersDealt'
    <2>1. \A u \in Threads, f \in Events :
            handling'[u].pc = "mark" /\ handling'[u].ok /\ handling'[u].event = f => Dealt(f)'
      BY <1>2, <1>5 DEF AnswersDealt, At
    <2> QED
      BY <2>1, <1>1, <1>3, <1>5 DEF AnswersDealt, At, Dealt, TypeOK
  <1>7. AckedLeavesNoneWaiting'
    BY <1>1, <1>5 DEF AckedLeavesNoneWaiting
  <1> QED
    BY <1>3, <1>4, <1>6, <1>7

\* What the other handlers do to a payment never brings it back to captured
\* once it is past it.
LEMMA MoveKeeps ==
  ASSUME DeliveryInv, NEW p \in Payments,
         PaymentStored(p) \/ PaymentCaptured(p) \/ PaymentLeaves(p)
  PROVE  DeliveryInv'
  <1> USE DEF DeliveryInv
  <1>1. PICK to \in PaymentStatus :
          /\ status[p] \notin {"settled", "left"}
          /\ status' = [status EXCEPT ![p] = to]
          /\ UNCHANGED <<backend, about, lapsed, recorded, marked, noted, early, acked, handling,
                         faults>>
    BY DEF PaymentStored, PaymentCaptured, PaymentLeaves, PaymentMoves, PaymentStatus
  <1>2. /\ status' \in [Payments -> PaymentStatus]
        /\ \A q \in Payments : status[q] \in {"settled", "left"} => status'[q] \in {"settled", "left"}
    BY <1>1 DEF TypeOK
  <1>3. TypeOK'
    BY <1>1, <1>2 DEF TypeOK
  <1>4. PastRecord' /\ OneProcesses' /\ MemProcessesOnce'
    BY <1>1 DEF PastRecord, OneProcesses, MemProcessesOnce, At
  <1>5. \A f \in Events : (Dealt(f) => Dealt(f)') /\ (Processing(f) => Processing(f)')
    BY <1>1, <1>2, DealtStays DEF Processing, At
  <1>6. AnswersDealt'
    BY <1>1, <1>5 DEF AnswersDealt, At, TypeOK
  <1>7. AckedLeavesNoneWaiting'
    <2>1. \A f \in acked : Dealt(f) \/ (backend = "mem" /\ Processing(f))
      BY DEF AckedLeavesNoneWaiting, Dealt
    <2>2. \A f \in acked : Dealt(f)' \/ (backend = "mem" /\ Processing(f)')
      BY <2>1, <1>5 DEF TypeOK
    <2> QED
      BY <2>2, <1>1 DEF AckedLeavesNoneWaiting, Dealt
  <1> QED
    BY <1>3, <1>4, <1>6, <1>7

LEMMA DeliveryStep == DeliveryInv /\ [Next]_vars => DeliveryInv'
  <1> SUFFICES ASSUME DeliveryInv, [Next]_vars
               PROVE  DeliveryInv'
    OBVIOUS
  <1>1. ASSUME UNCHANGED <<backend, about, status, recorded, marked, noted, early, acked, handling,
                           faults>>, lapsed' \subseteq Events
        PROVE  DeliveryInv'
    BY <1>1 DEF DeliveryInv, TypeOK, PastRecord, OneProcesses, AnswersDealt, MemProcessesOnce,
                AckedLeavesNoneWaiting, Dealt, Processing, At
  <1>2. ASSUME NEW e \in Events, WindowElapses(e)
        PROVE  DeliveryInv'
    BY <1>1, <1>2 DEF WindowElapses, DeliveryInv, TypeOK
  <1>3. CASE UNCHANGED vars
    BY <1>1, <1>3 DEF vars, DeliveryInv, TypeOK
  <1> QED
    BY <1>2, <1>3, MoveKeeps, ReceiveKeeps, RecordKeeps, ProcessKeeps, MarkKeeps, CrashKeeps
    DEF Next, Proceed

-----------------------------------------------------------------------------
(* The properties.                                                         *)

\* DeliveryInv is an invariant of Webhook and processWebhook on either store,
\* for any number of payments, events, requests and faults.
THEOREM DeliveryInvariant == Spec => []DeliveryInv
  BY DeliveryInit, DeliveryStep, PTL DEF Spec

\* The webhooks table, the counts and the requests keep their types, and only
\* a recorded webhook is marked as processed, however requests interleave.
THEOREM DeliveryTypes == Spec => []TypeOK
  <1>1. DeliveryInv => TypeOK
    BY DEF DeliveryInv
  <1> QED
    BY <1>1, DeliveryInvariant, PTL

\* MemStore.RecordWebhook makes the handling of an event exclusive: any number
\* of concurrent or repeated deliveries leaves at most one history entry.
THEOREM MemDeliversOnce == Spec => []MemProcessesOnce
  <1>1. DeliveryInv => MemProcessesOnce
    BY DEF DeliveryInv
  <1> QED
    BY <1>1, DeliveryInvariant, PTL

\* Whatever calls fail, wherever the process stops and however a payment is
\* settled, refunded or charged back meanwhile, a settlement that Webhook has
\* answered 200 leaves no captured payment waiting for it, unless it overtook
\* the capture or, on MemStore, is being processed.
THEOREM AnswersLeaveNoneWaiting == Spec => []AckedLeavesNoneWaiting
  <1>1. DeliveryInv => AckedLeavesNoneWaiting
    BY DEF DeliveryInv
  <1> QED
    BY <1>1, DeliveryInvariant, PTL
=============================================================================
