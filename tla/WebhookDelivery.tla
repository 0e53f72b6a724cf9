--------------------------- MODULE WebhookDelivery ---------------------------
(***************************************************************************)
(* The Webhook handler around processWebhook: the replay window, the       *)
(* de-duplication by (rail, external_event_id), the processed mark and the *)
(* answer the rail gets.  A rail repeats an event until it is answered 200 *)
(* and may repeat it after that, so deliveries of one event run            *)
(* concurrently.                                                           *)
(*                                                                         *)
(* The events are settlements, for which processWebhook is one call of     *)
(* UpdateIntent, and several may name one payment.  A settlement takes     *)
(* effect only while its payment is captured: before that, and once the    *)
(* payment was settled, refunded or charged back, it is noted in the       *)
(* history and dropped.  The amounts are PaymentService's.  A chargeback   *)
(* event takes several calls that fail one by one: those are actions of    *)
(* PaymentService.                                                         *)
(*                                                                         *)
(* An operator named Mutant... is a plausible bug in the definition after  *)
(* it, which the specification never uses.                                 *)
(***************************************************************************)
EXTENDS Integers

CONSTANTS
  Payments,   \* payment ids
  Events,     \* signed settlement events with an external_event_id
  Threads,    \* concurrent webhook requests
  Backends,   \* implementations of store.Store to consider
  Faults,     \* the kinds of fault that may happen, and
  MaxFaults   \*   how many of them in one behaviour

ASSUME DeliveryAssumption ==
  /\ Backends \subseteq {"mem", "postgres"}
  /\ Faults \subseteq {"sql_error", "crash"}
  /\ MaxFaults \in Nat

VARIABLES
  backend,    \* the store in use
  about,      \* the payment an event names
  status,     \* how far a payment is
  lapsed,     \* events whose signed timestamp is out of the replay window
  recorded,   \* the webhooks table
  marked,     \* its rows with processed_at set
  noted,      \* history entries an event has left (2: more than one)
  early,      \* events that were dropped because they overtook the capture
  acked,      \* events that were answered 200
  handling,   \* per thread, the step it is at, its event and its answer
  faults      \* faults so far

vars == <<backend, about, status, lapsed, recorded, marked, noted, early, acked,
          handling, faults>>

\* Not in the store; stored and not captured; captured; settled; refunded,
\* charged back or settled by a webhook without an event id.
PaymentStatus == {"unknown", "open", "captured", "settled", "left"}

Step == {"idle", "record", "apply", "mark"}

At(t, step) == handling[t].pc = step

Goes(t, step, ok) ==
  handling' = [handling EXCEPT ![t] = [pc |-> step, event |-> @.event, ok |-> ok]]

Outcomes(kinds) ==
  {"ok"} \cup (IF backend = "postgres" /\ faults < MaxFaults THEN kinds \cap Faults ELSE {})

CountFault(o) == faults' = IF o = "ok" THEN faults ELSE faults + 1

-----------------------------------------------------------------------------
Init ==
  /\ backend \in Backends
  /\ about \in [Events -> Payments]
  /\ status = [p \in Payments |-> "unknown"]
  /\ lapsed = {} /\ recorded = {} /\ marked = {} /\ early = {} /\ acked = {}
  /\ noted = [e \in Events |-> 0]
  /\ handling \in [Threads -> [pc : {"idle"}, event : Events, ok : {FALSE}]]
  /\ faults = 0

-----------------------------------------------------------------------------
(* What the other handlers do to a payment.                                *)

PaymentMoves(p, from, to) ==
  /\ status[p] = from
  /\ status' = [status EXCEPT ![p] = to]
  /\ UNCHANGED <<backend, about, lapsed, recorded, marked, noted, early, acked, handling,
                 faults>>

\* CreateIntent stores an instant payment as captured, any other one before.
PaymentStored(p) == PaymentMoves(p, "unknown", "open") \/ PaymentMoves(p, "unknown", "captured")

PaymentCaptured(p) == PaymentMoves(p, "open", "captured")

\* No handler moves a payment back to captured.
PaymentLeaves(p) == PaymentMoves(p, "captured", "left")

-----------------------------------------------------------------------------
WindowElapses(e) ==
  /\ e \notin lapsed
  /\ lapsed' = lapsed \cup {e}
  /\ UNCHANGED <<backend, about, status, recorded, marked, noted, early, acked, handling,
                 faults>>

\* An event is received, its signature verified and its timestamp compared.
\* One that is too old is answered 401 and leaves no trace.
Webhook(t, e) ==
  /\ At(t, "idle")
  /\ e \notin lapsed
  /\ handling' = [handling EXCEPT ![t] = [pc |-> "record", event |-> e, ok |-> FALSE]]
  /\ UNCHANGED <<backend, about, status, lapsed, recorded, marked, noted, early, acked, faults>>

MutantMemRecords(e) == TRUE

\* MemStore refuses a second record of an event.
MemRecordWebhook(e) == e \notin recorded

\* ON CONFLICT DO NOTHING: the row is kept once, the caller is told nothing.
PgRecordWebhook(e) == TRUE

MutantKeepsNoRow(t, o) ==
  /\ At(t, "record")
  /\ Goes(t, IF o = "ok" THEN "apply" ELSE "idle", FALSE)
  /\ CountFault(o)
  /\ UNCHANGED <<backend, about, status, lapsed, recorded, marked, noted, early, acked>>

MutantPlainInsert(t, o) ==
  LET e   == handling[t].event
      new == e \notin recorded
  IN /\ At(t, "record")
     /\ recorded' = IF o = "ok" THEN recorded \cup {e} ELSE recorded
     /\ acked' = IF o = "ok" /\ ~new /\ backend = "mem" THEN acked \cup {e} ELSE acked
     /\ Goes(t, IF o = "ok" /\ new THEN "apply" ELSE "idle", FALSE)
     /\ CountFault(o)
     /\ UNCHANGED <<backend, about, status, lapsed, marked, noted, early>>

\* ErrDuplicateWebhook is answered 200; any other error, 500.
RecordWebhook(t, o) ==
  LET e   == handling[t].event
      new == IF backend = "mem" THEN MemRecordWebhook(e) ELSE PgRecordWebhook(e)
  IN /\ At(t, "record")
     /\ recorded' = IF o = "ok" THEN recorded \cup {e} ELSE recorded
     /\ acked' = IF o = "ok" /\ ~new THEN acked \cup {e} ELSE acked
     /\ Goes(t, IF o = "ok" /\ new THEN "apply" ELSE "idle", FALSE)
     /\ CountFault(o)
     /\ UNCHANGED <<backend, about, status, lapsed, marked, noted, early>>

\* handleSettlementWebhook.  A captured payment is settled; for any other one
\* that is stored the event is noted as ignored; both leave a history entry,
\* and they and an unknown payment are answered 200 alike.
ProcessWebhook(t, o) ==
  LET e == handling[t].event
      p == about[e]
  IN /\ At(t, "apply")
     /\ status' = IF o = "ok" /\ status[p] = "captured"
                  THEN [status EXCEPT ![p] = "settled"]
                  ELSE status
     /\ noted' = IF o = "ok" /\ status[p] # "unknown" /\ noted[e] < 2
                 THEN [noted EXCEPT ![e] = @ + 1]
                 ELSE noted
     /\ early' = IF o = "ok" /\ status[p] \in {"unknown", "open"}
                 THEN early \cup {e}
                 ELSE early
     /\ Goes(t, "mark", o = "ok")
     /\ CountFault(o)
     /\ UNCHANGED <<backend, about, lapsed, recorded, marked, acked>>

MutantAcksAll(t, o) ==
  LET e == handling[t].event
  IN /\ At(t, "mark")
     /\ marked' = IF o = "ok" THEN marked \cup {e} ELSE marked
     /\ acked' = acked \cup {e}
     /\ Goes(t, "idle", FALSE)
     /\ CountFault(o)
     /\ UNCHANGED <<backend, about, status, lapsed, recorded, noted, early>>

\* The deferred call marks the row whatever the answer is, and drops an error.
MarkWebhookProcessed(t, o) ==
  LET e == handling[t].event
  IN /\ At(t, "mark")
     /\ marked' = IF o = "ok" THEN marked \cup {e} ELSE marked
     /\ acked' = IF handling[t].ok THEN acked \cup {e} ELSE acked
     /\ Goes(t, "idle", FALSE)
     /\ CountFault(o)
     /\ UNCHANGED <<backend, about, status, lapsed, recorded, noted, early>>

Crash(t) ==
  /\ "crash" \in Outcomes({"crash"})
  /\ ~At(t, "idle")
  /\ Goes(t, "idle", FALSE)
  /\ CountFault("crash")
  /\ UNCHANGED <<backend, about, status, lapsed, recorded, marked, noted, early, acked>>

Proceed(t) ==
  \E o \in Outcomes({"sql_error"}) :
    \/ RecordWebhook(t, o)
    \/ ProcessWebhook(t, o)
    \/ MarkWebhookProcessed(t, o)

Next ==
  \/ \E p \in Payments : PaymentStored(p) \/ PaymentCaptured(p) \/ PaymentLeaves(p)
  \/ \E e \in Events : WindowElapses(e)
  \/ \E t \in Threads :
       \/ \E e \in Events : Webhook(t, e)
       \/ Proceed(t)
       \/ Crash(t)

Spec == Init /\ [][Next]_vars

\* A handler that has begun goes on.
FairSpec == Spec /\ \A t \in Threads : WF_vars(Proceed(t))

-----------------------------------------------------------------------------
(* Properties.                                                             *)

TypeOK ==
  /\ backend \in Backends
  /\ about \in [Events -> Payments]
  /\ status \in [Payments -> PaymentStatus]
  /\ \A s \in {lapsed, recorded, marked, early, acked} : s \subseteq Events
  /\ marked \subseteq recorded
  /\ noted \in [Events -> 0 .. 2]
  /\ handling \in [Threads -> [pc : Step, event : Events, ok : BOOLEAN]]
  /\ faults \in 0 .. MaxFaults

\* On MemStore concurrent and repeated deliveries of an event are processed
\* once: it leaves at most one entry in the history of its payment.
MemProcessesOnce == backend = "mem" => \A e \in Events : noted[e] <= 1

\* Some request has recorded e and is about to process it.
Processing(e) == \E t \in Threads : At(t, "apply") /\ handling[t].event = e

\* An acknowledged settlement leaves no payment waiting for it: whatever fails
\* and whichever delivery is answered, once a rail has been told 200 the
\* payment is past captured, unless the event overtook the capture or, on
\* MemStore, the delivery that a duplicate was refused for is still to process
\* it.
AckedLeavesNoneWaiting ==
  \A e \in acked \ early :
    \/ status[about[e]] \in {"settled", "left"}
    \/ backend = "mem" /\ Processing(e)

\* A captured payment whose settlement the rail keeps repeating does not stay
\* captured: on Postgres whatever happened to earlier deliveries, on MemStore
\* unless one of them overtook the capture.
RepeatedMovesOn ==
  \A e \in Events :
    []<>(\E t \in Threads : At(t, "record") /\ handling[t].event = e) =>
      (status[about[e]] = "captured"
         ~> status[about[e]] # "captured" \/ (backend = "mem" /\ e \in early))

\* "Duplicate webhook with the same external_event_id is processed exactly
\* once": the Postgres store does not report the duplicate, so each delivery
\* is processed and leaves a history entry of its own.
ProcessedOnce == \A e \in Events : noted[e] <= 1
=============================================================================
