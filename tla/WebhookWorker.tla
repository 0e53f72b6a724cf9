---------------------------- MODULE WebhookWorker ----------------------------
(***************************************************************************)
(* webhook.Worker: a bounded channel of persisted webhooks, goroutines     *)
(* that take them off it and process them, the counter of webhooks in      *)
(* flight, the backlog gauge, Stop, and Idle, which polls channel and      *)
(* counter.  The channel and the counters are separate, so every access is *)
(* a step of its own.                                                      *)
(*                                                                         *)
(* An operator named Mutant... is a plausible bug in the definition after  *)
(* it, which the specification never uses.                                 *)
(***************************************************************************)
EXTENDS Integers, Sequences, FiniteSets

CONSTANTS
  Webhooks,     \* persisted webhooks, each enqueued at most once
  Workers,      \* goroutines that Start launches
  BufferSize    \* capacity of the channel

ASSUME WorkerAssumption ==
  /\ IsFiniteSet(Webhooks)
  /\ IsFiniteSet(Workers)
  /\ BufferSize \in Nat \ {0}

VARIABLES
  offered,    \* webhooks given to Enqueue
  dropped,    \* ... that found the channel full
  queue,      \* the channel
  counting,   \* Enqueue calls that have sent and not yet counted it
  gauge,      \* metrics.WebhookBacklog
  worker,     \* per goroutine, the step it is at and its webhook
  inflight,   \* Worker.inflight
  processed,  \* webhooks with processed_at set
  stopped,    \* is stopCh closed
  waiter      \* the caller of Idle: its step, and what was accepted before it

vars == <<offered, dropped, queue, counting, gauge, worker, inflight, processed, stopped,
          waiter>>

Step == {"select", "taken", "counted", "handling", "marked", "gone"}

At(w, step) == worker[w].pc = step

Goes(w, step) == worker' = [worker EXCEPT ![w].pc = step]

InQueue == {queue[k] : k \in DOMAIN queue}

\* The webhooks a goroutine has taken and not yet marked.
InHand == {worker[w].hook : w \in {v \in Workers : worker[v].pc \in {"taken", "counted", "handling"}}}

-----------------------------------------------------------------------------
Init ==
  /\ offered = {} /\ dropped = {} /\ processed = {}
  /\ queue = << >>
  /\ counting = 0 /\ gauge = 0 /\ inflight = 0
  /\ worker \in [Workers -> [pc : {"select"}, hook : Webhooks]]
  /\ stopped = FALSE
  /\ waiter = [pc |-> "off", accepted |-> {}]

\* The send and the count of Enqueue; with the channel full it warns and drops.
Enqueue(h) ==
  /\ h \notin offered
  /\ offered' = offered \cup {h}
  /\ IF Len(queue) < BufferSize
     THEN /\ queue' = Append(queue, h)
          /\ counting' = counting + 1
          /\ UNCHANGED dropped
     ELSE /\ dropped' = dropped \cup {h}
          /\ UNCHANGED <<queue, counting>>
  /\ UNCHANGED <<gauge, worker, inflight, processed, stopped, waiter>>

IncWebhookBacklog ==
  /\ counting > 0
  /\ counting' = counting - 1
  /\ gauge' = gauge + 1
  /\ UNCHANGED <<offered, dropped, queue, worker, inflight, processed, stopped, waiter>>

-----------------------------------------------------------------------------
(* run.  With both cases of the select ready, either is taken.             *)

Take(w) ==
  /\ At(w, "select")
  /\ queue # << >>
  /\ queue' = Tail(queue)
  /\ worker' = [worker EXCEPT ![w] = [pc |-> "taken", hook |-> Head(queue)]]
  /\ UNCHANGED <<offered, dropped, counting, gauge, inflight, processed, stopped, waiter>>

MutantNoCount(w) ==
  /\ At(w, "taken")
  /\ Goes(w, "counted")
  /\ UNCHANGED <<offered, dropped, queue, counting, gauge, inflight, processed, stopped, waiter>>

DecWebhookBacklog(w) ==
  /\ At(w, "taken")
  /\ gauge' = gauge - 1
  /\ Goes(w, "counted")
  /\ UNCHANGED <<offered, dropped, queue, counting, inflight, processed, stopped, waiter>>

BeginHandler(w) ==
  /\ At(w, "counted")
  /\ inflight' = inflight + 1
  /\ Goes(w, "handling")
  /\ UNCHANGED <<offered, dropped, queue, counting, gauge, processed, stopped, waiter>>

MutantErrorSkipsMark(w) ==
  /\ At(w, "handling")
  /\ \/ processed' = processed \cup {worker[w].hook} /\ Goes(w, "marked")
     \/ Goes(w, "select") /\ UNCHANGED processed
  /\ UNCHANGED <<offered, dropped, queue, counting, gauge, inflight, stopped, waiter>>

\* The handler returns, with an error or without, and the webhook is marked.
MarkProcessed(w) ==
  /\ At(w, "handling")
  /\ processed' = processed \cup {worker[w].hook}
  /\ Goes(w, "marked")
  /\ UNCHANGED <<offered, dropped, queue, counting, gauge, inflight, stopped, waiter>>

MutantNoDecrement(w) ==
  /\ At(w, "marked")
  /\ Goes(w, "select")
  /\ UNCHANGED <<offered, dropped, queue, counting, gauge, inflight, processed, stopped, waiter>>

EndHandler(w) ==
  /\ At(w, "marked")
  /\ inflight' = inflight - 1
  /\ Goes(w, "select")
  /\ UNCHANGED <<offered, dropped, queue, counting, gauge, processed, stopped, waiter>>

MutantQuitsEarly(w) ==
  /\ stopped
  /\ worker[w].pc \in {"select", "counted"}
  /\ Goes(w, "gone")
  /\ UNCHANGED <<offered, dropped, queue, counting, gauge, inflight, processed, stopped, waiter>>

MutantOneQuits(w) ==
  /\ stopped
  /\ At(w, "select")
  /\ \A v \in Workers : ~At(v, "gone")
  /\ Goes(w, "gone")
  /\ UNCHANGED <<offered, dropped, queue, counting, gauge, inflight, processed, stopped, waiter>>

Quit(w) ==
  /\ stopped
  /\ At(w, "select")
  /\ Goes(w, "gone")
  /\ UNCHANGED <<offered, dropped, queue, counting, gauge, inflight, processed, stopped, waiter>>

-----------------------------------------------------------------------------
(* Stop and Idle.                                                          *)

Stop ==
  /\ ~stopped
  /\ stopped' = TRUE
  /\ UNCHANGED <<offered, dropped, queue, counting, gauge, worker, inflight, processed, waiter>>

CallIdle ==
  /\ waiter.pc = "off"
  /\ waiter' = [pc |-> "poll", accepted |-> offered \ dropped]
  /\ UNCHANGED <<offered, dropped, queue, counting, gauge, worker, inflight, processed, stopped>>

MutantIgnoresBacklog ==
  /\ waiter.pc = "poll"
  /\ waiter' = [waiter EXCEPT !.pc = "empty"]
  /\ UNCHANGED <<offered, dropped, queue, counting, gauge, worker, inflight, processed, stopped>>

\* Backlog() == 0 is read first, inflight.Load() == 0 after it.
PollBacklog ==
  /\ waiter.pc = "poll"
  /\ queue = << >>
  /\ waiter' = [waiter EXCEPT !.pc = "empty"]
  /\ UNCHANGED <<offered, dropped, queue, counting, gauge, worker, inflight, processed, stopped>>

PollInflight ==
  /\ waiter.pc = "empty"
  /\ waiter' = [waiter EXCEPT !.pc = IF inflight = 0 THEN "returned" ELSE "poll"]
  /\ UNCHANGED <<offered, dropped, queue, counting, gauge, worker, inflight, processed, stopped>>

-----------------------------------------------------------------------------
Run(w) ==
  \/ Take(w)
  \/ DecWebhookBacklog(w)
  \/ BeginHandler(w)
  \/ MarkProcessed(w)
  \/ EndHandler(w)
  \/ Quit(w)

Idle == CallIdle \/ PollBacklog \/ PollInflight

Next ==
  \/ \E h \in Webhooks : Enqueue(h)
  \/ IncWebhookBacklog
  \/ \E w \in Workers : Run(w)
  \/ Stop
  \/ Idle

Spec == Init /\ [][Next]_vars

\* A goroutine that can go on does; nobody has to call Enqueue, Stop or Idle.
FairSpec == Spec /\ WF_vars(IncWebhookBacklog) /\ \A w \in Workers : WF_vars(Run(w))

-----------------------------------------------------------------------------
(* Properties.                                                             *)

TypeOK ==
  /\ offered \subseteq Webhooks /\ dropped \subseteq offered /\ processed \subseteq offered
  /\ queue \in Seq(Webhooks) /\ Len(queue) <= BufferSize
  /\ counting \in Nat /\ gauge \in Int
  /\ inflight \in 0 .. Cardinality(Workers)
  /\ worker \in [Workers -> [pc : Step, hook : Webhooks]]
  /\ stopped \in BOOLEAN
  /\ waiter \in [pc : {"off", "poll", "empty", "returned"}, accepted : SUBSET Webhooks]

\* A webhook that Enqueue accepted is waiting, with one goroutine or processed,
\* also while Stop takes the goroutines down.
NoneLost == offered = dropped \cup InQueue \cup InHand \cup processed

\* The backlog gauge and the channel differ only by the updates that are still
\* to come from Enqueue and from the goroutines (it may be negative till then).
GaugeTracksQueue ==
  gauge + counting = Len(queue) + Cardinality({w \in Workers : At(w, "taken")})

\* A webhook that Enqueue accepted is processed in the end, whether its handler
\* errs or not, unless Stop is called.
AcceptedIsProcessed ==
  \A h \in Webhooks : h \in offered \ dropped ~> h \in processed \/ stopped

\* Stop does not wait for ever: every goroutine comes to its end.
StopReturns == stopped ~> \A w \in Workers : At(w, "gone")

\* Idle promises that the queue is drained and the handlers have completed.  A
\* goroutine that has received a webhook and not yet counted it is seen neither
\* in the channel nor in the counter; such webhooks are all that Idle can miss,
\* whatever moves between its two reads.
IdleMissesOnlyTaken ==
  [][waiter.pc # "returned" /\ waiter'.pc = "returned" =>
       waiter.accepted \subseteq
         processed \cup {worker[w].hook : w \in {v \in Workers : worker[v].pc \in {"taken", "counted"}}}]_vars
=============================================================================
