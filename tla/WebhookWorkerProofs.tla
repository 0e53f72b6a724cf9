------------------------- MODULE WebhookWorkerProofs -------------------------
(***************************************************************************)
(* Proofs about WebhookWorker, for any number of goroutines and webhooks   *)
(* and any capacity of the channel: no accepted webhook is lost, the gauge *)
(* follows the channel, and what Idle can miss.                            *)
(***************************************************************************)
EXTENDS WebhookWorker, FiniteSetTheorems, SequenceTheorems, TLAPS

\* The goroutines at one of the steps P.
AtOneOf(P) == {w \in Workers : worker[w].pc \in P}

\* Worker.inflight counts the goroutines between the two updates of it.
InflightCounts == inflight = Cardinality(AtOneOf({"handling", "marked"}))

\* What Idle was promised is in the channel, in a goroutine's hands or
\* processed; once it has seen the channel empty, it is not in the channel.
IdleSees ==
  /\ waiter.accepted \subseteq offered \ dropped
  /\ waiter.pc = "empty" => waiter.accepted \subseteq InHand \cup processed

WorkerInv ==
  /\ TypeOK
  /\ NoneLost
  /\ GaugeTracksQueue
  /\ InflightCounts
  /\ IdleSees

-----------------------------------------------------------------------------
(* Goroutines and the channel.                                             *)

\* A goroutine that moves joins or leaves the goroutines at the steps P, or
\* leaves their number alone.
LEMMA Joins ==
  ASSUME TypeOK, NEW w \in Workers, NEW r \in [pc : Step, hook : Webhooks],
         worker' = [worker EXCEPT ![w] = r], NEW P
  PROVE  /\ IsFiniteSet(AtOneOf(P)) /\ Cardinality(AtOneOf(P)) \in Nat
         /\ (worker[w].pc \in P <=> r.pc \in P) => AtOneOf(P)' = AtOneOf(P)
         /\ worker[w].pc \notin P /\ r.pc \in P =>
              Cardinality(AtOneOf(P)') = Cardinality(AtOneOf(P)) + 1
         /\ worker[w].pc \in P /\ r.pc \notin P =>
              Cardinality(AtOneOf(P)') = Cardinality(AtOneOf(P)) - 1
  <1>1. IsFiniteSet(AtOneOf(P)) /\ Cardinality(AtOneOf(P)) \in Nat
    BY WorkerAssumption, FS_Subset, FS_CardinalityType DEF AtOneOf
  <1>2. /\ worker'[w] = r
        /\ \A v \in Workers : v # w => worker'[v] = worker[v]
    BY DEF TypeOK
  <1>3. (worker[w].pc \in P <=> r.pc \in P) => AtOneOf(P)' = AtOneOf(P)
    BY <1>2 DEF AtOneOf
  <1>4. worker[w].pc \notin P /\ r.pc \in P =>
          AtOneOf(P)' = AtOneOf(P) \cup {w} /\ w \notin AtOneOf(P)
    BY <1>2 DEF AtOneOf
  <1>5. worker[w].pc \in P /\ r.pc \notin P =>
          AtOneOf(P)' = AtOneOf(P) \ {w} /\ w \in AtOneOf(P)
    BY <1>2 DEF AtOneOf
  <1>6. /\ w \notin AtOneOf(P) => Cardinality(AtOneOf(P) \cup {w}) = Cardinality(AtOneOf(P)) + 1
        /\ w \in AtOneOf(P) => Cardinality(AtOneOf(P) \ {w}) = Cardinality(AtOneOf(P)) - 1
    BY <1>1, FS_AddElement, FS_RemoveElement
  <1> QED
    BY <1>1, <1>3, <1>4, <1>5, <1>6

\* The counter stays between 0 and the number of goroutines.
LEMMA InflightBound ==
  ASSUME InflightCounts
  PROVE  inflight \in 0 .. Cardinality(Workers)
  <1>1. IsFiniteSet(AtOneOf({"handling", "marked"})) /\ Cardinality(AtOneOf({"handling", "marked"})) <= Cardinality(Workers)
    BY WorkerAssumption, FS_Subset DEF AtOneOf
  <1>2. Cardinality(AtOneOf({"handling", "marked"})) \in Nat /\ Cardinality(Workers) \in Nat
    BY <1>1, WorkerAssumption, FS_CardinalityType
  <1> QED
    BY <1>1, <1>2 DEF InflightCounts

\* The gauge, in terms of AtOneOf.
LEMMA GaugeFact ==
  /\ GaugeTracksQueue <=> gauge + counting = Len(queue) + Cardinality(AtOneOf({"taken"}))
  /\ GaugeTracksQueue' <=> gauge' + counting' = Len(queue') + Cardinality(AtOneOf({"taken"})')
  <1>1. {w \in Workers : At(w, "taken")} = AtOneOf({"taken"})
    BY DEF AtOneOf, At
  <1>2. {w \in Workers : At(w, "taken")}' = AtOneOf({"taken"})'
    BY DEF AtOneOf, At
  <1> QED
    BY <1>1, <1>2 DEF GaugeTracksQueue

\* What a goroutine that moves with its webhook, or with a new one, does to
\* the webhooks in hand.
LEMMA HandFacts ==
  ASSUME TypeOK, NEW w \in Workers, NEW r \in [pc : Step, hook : Webhooks],
         worker' = [worker EXCEPT ![w] = r]
  PROVE  LET held == {"taken", "counted", "handling"}
         IN /\ worker[w].pc \in held /\ r.pc \in held /\ r.hook = worker[w].hook => InHand' = InHand
            /\ worker[w].pc \notin held /\ r.pc \notin held => InHand' = InHand
            /\ worker[w].pc \notin held /\ r.pc \in held => InHand' = InHand \cup {r.hook}
            /\ worker[w].pc \in held /\ r.pc \notin held =>
                 /\ worker[w].hook \in InHand
                 /\ InHand' \cup {worker[w].hook} = InHand
  <1> DEFINE held == {"taken", "counted", "handling"}
  <1>1. /\ worker'[w] = r
        /\ \A v \in Workers : v # w => worker'[v] = worker[v]
    BY DEF TypeOK
  <1>2. /\ \A h : h \in InHand <=> \E v \in Workers : worker[v].pc \in held /\ h = worker[v].hook
        /\ \A h : h \in InHand' <=> \E v \in Workers : worker'[v].pc \in held /\ h = worker'[v].hook
    BY DEF InHand
  <1> HIDE DEF held
  <1>3. worker[w].pc \in held /\ r.pc \in held /\ r.hook = worker[w].hook => InHand' = InHand
    <2> SUFFICES ASSUME worker[w].pc \in held /\ r.pc \in held /\ r.hook = worker[w].hook
                 PROVE  \A h : h \in InHand' <=> h \in InHand
      OBVIOUS
    <2>1. \A v \in Workers : worker'[v].pc \in held <=> worker[v].pc \in held
      BY <1>1
    <2>2. \A v \in Workers : worker[v].pc \in held => worker'[v].hook = worker[v].hook
      BY <1>1
    <2> QED
      BY <1>2, <2>1, <2>2
  <1>4. worker[w].pc \notin held /\ r.pc \notin held => InHand' = InHand
    <2> SUFFICES ASSUME worker[w].pc \notin held /\ r.pc \notin held
                 PROVE  \A h : h \in InHand' <=> h \in InHand
      OBVIOUS
    <2>1. \A v \in Workers : worker'[v].pc \in held <=> worker[v].pc \in held
      BY <1>1
    <2>2. \A v \in Workers : worker[v].pc \in held => worker'[v].hook = worker[v].hook
      BY <1>1
    <2> QED
      BY <1>2, <2>1, <2>2
  <1>5. worker[w].pc \notin held /\ r.pc \in held => InHand' = InHand \cup {r.hook}
    BY <1>1, <1>2
  <1>6. worker[w].pc \in held /\ r.pc \notin held =>
                 /\ worker[w].hook \in InHand
                 /\ InHand' \cup {worker[w].hook} = InHand
    BY <1>1, <1>2
  <1> QED
    BY <1>3, <1>4, <1>5, <1>6 DEF held

\* A send adds the webhook to the channel.
LEMMA Sends ==
  ASSUME TypeOK, NEW h \in Webhooks, queue' = Append(queue, h)
  PROVE  /\ queue' \in Seq(Webhooks) /\ Len(queue') = Len(queue) + 1
         /\ InQueue' = InQueue \cup {h}
  <1>1. /\ queue' \in Seq(Webhooks) /\ Len(queue') = Len(queue) + 1
        /\ \A k \in 1 .. Len(queue) : queue'[k] = queue[k]
        /\ queue'[Len(queue) + 1] = h
    BY AppendProperties DEF TypeOK
  <1>2. /\ DOMAIN queue = 1 .. Len(queue) /\ Len(queue) \in Nat
        /\ DOMAIN queue' = 1 .. (Len(queue) + 1)
    BY <1>1, LenProperties DEF TypeOK
  <1>3. InQueue' \subseteq InQueue \cup {h}
    BY <1>1, <1>2 DEF InQueue
  <1>4. \A k \in 1 .. Len(queue) : queue[k] \in InQueue'
    BY <1>1, <1>2 DEF InQueue
  <1>5. h \in InQueue'
    BY <1>1, <1>2 DEF InQueue
  <1> QED
    BY <1>1, <1>2, <1>3, <1>4, <1>5 DEF InQueue

\* A receive takes the first webhook off the channel.
LEMMA Receives ==
  ASSUME TypeOK, queue # << >>, queue' = Tail(queue)
  PROVE  /\ queue' \in Seq(Webhooks) /\ Len(queue') = Len(queue) - 1
         /\ Head(queue) \in Webhooks
         /\ InQueue = InQueue' \cup {Head(queue)}
  <1>1. /\ Head(queue) \in Webhooks
        /\ queue' \in Seq(Webhooks) /\ Len(queue') = Len(queue) - 1
        /\ \A k \in 1 .. Len(queue') : queue'[k] = queue[k + 1]
    BY HeadTailProperties DEF TypeOK
  <1>2. /\ DOMAIN queue = 1 .. Len(queue) /\ Len(queue) \in Nat \ {0}
        /\ DOMAIN queue' = 1 .. (Len(queue) - 1)
        /\ Head(queue) = queue[1]
    BY <1>1, LenProperties, EmptySeq DEF TypeOK
  <1>3. InQueue' \cup {Head(queue)} \subseteq InQueue
    BY <1>1, <1>2 DEF InQueue
  <1>4. \A k \in 2 .. Len(queue) : queue[k] \in InQueue'
    <2> TAKE k \in 2 .. Len(queue)
    <2>1. k - 1 \in DOMAIN queue' /\ queue'[k - 1] = queue[k]
      BY <1>1, <1>2
    <2> QED
      BY <2>1 DEF InQueue
  <1>5. InQueue \subseteq InQueue' \cup {Head(queue)}
    BY <1>2, <1>4 DEF InQueue
  <1> QED
    BY <1>1, <1>3, <1>5

\* A step of the gauge, of Stop or of Idle leaves the goroutines alone.
LEMMA SameHands ==
  ASSUME UNCHANGED worker
  PROVE  InHand' = InHand /\ \A P : AtOneOf(P)' = AtOneOf(P)
  BY DEF InHand, AtOneOf

-----------------------------------------------------------------------------
LEMMA WorkerInit == Init => WorkerInv
  <1> SUFFICES ASSUME Init
               PROVE  WorkerInv
    OBVIOUS
  <1>1. worker \in [Workers -> [pc : Step, hook : Webhooks]] /\ \A w \in Workers : worker[w].pc = "select"
    BY DEF Init, Step
  <1>2. InHand = {} /\ AtOneOf({"taken"}) = {} /\ AtOneOf({"handling", "marked"}) = {}
    BY <1>1 DEF InHand, AtOneOf
  <1>3. queue = << >> /\ queue \in Seq(Webhooks) /\ Len(queue) = 0 /\ InQueue = {}
    BY DEF Init, InQueue
  <1>4. InflightCounts
    BY <1>2, FS_EmptySet DEF Init, InflightCounts
  <1>5. TypeOK
    <2>1. inflight \in 0 .. Cardinality(Workers)
      BY <1>4, InflightBound
    <2>2. waiter \in [pc : {"off", "poll", "empty", "returned"}, accepted : SUBSET Webhooks]
      BY DEF Init
    <2>3. Len(queue) <= BufferSize
      BY <1>3, WorkerAssumption
    <2>4. offered \subseteq Webhooks /\ dropped \subseteq offered /\ processed \subseteq offered
      BY DEF Init
    <2>5. counting \in Nat /\ gauge \in Int
      BY DEF Init
    <2>6. stopped \in BOOLEAN
      BY DEF Init
    <2> QED
      BY <1>1, <1>3, <2>1, <2>2, <2>3, <2>4, <2>5, <2>6 DEF TypeOK
  <1>6. NoneLost /\ IdleSees
    BY <1>2, <1>3 DEF Init, NoneLost, IdleSees
  <1>7. GaugeTracksQueue
    BY <1>2, <1>3, FS_EmptySet, GaugeFact DEF Init
  <1> QED
    BY <1>4, <1>5, <1>6, <1>7 DEF WorkerInv

LEMMA EnqueueKeeps ==
  ASSUME WorkerInv, NEW h \in Webhooks, Enqueue(h)
  PROVE  WorkerInv'
  <1> USE DEF WorkerInv
  <1>1. /\ h \notin offered /\ offered' = offered \cup {h}
        /\ UNCHANGED <<gauge, worker, inflight, processed, stopped, waiter>>
    BY DEF Enqueue
  <1>2. InHand' = InHand /\ \A P : AtOneOf(P)' = AtOneOf(P)
    BY <1>1, SameHands
  <1>3. InflightCounts'
    BY <1>1, <1>2 DEF InflightCounts
  <1>4. CASE Len(queue) < BufferSize
    <2>1. queue' = Append(queue, h) /\ counting' = counting + 1 /\ dropped' = dropped
      BY <1>4 DEF Enqueue
    <2>2. /\ queue' \in Seq(Webhooks) /\ Len(queue') = Len(queue) + 1
          /\ InQueue' = InQueue \cup {h}
      BY <2>1, Sends
    <2>3. Len(queue) \in Nat /\ Cardinality(AtOneOf({"taken"})) \in Nat
      BY WorkerAssumption, FS_Subset, FS_CardinalityType DEF TypeOK, AtOneOf
    <2>4. TypeOK'
      BY <1>1, <1>4, <2>1, <2>2, <2>3, WorkerAssumption DEF TypeOK
    <2>5. NoneLost'
      BY <1>1, <1>2, <2>1, <2>2 DEF NoneLost
    <2>6. GaugeTracksQueue'
      <3>1. gauge \in Int /\ counting \in Nat
        BY DEF TypeOK
      <3>2. gauge + counting = Len(queue) + Cardinality(AtOneOf({"taken"}))
        BY GaugeFact
      <3>3. gauge' + counting' = Len(queue') + Cardinality(AtOneOf({"taken"}))
        BY <1>1, <2>1, <2>2, <2>3, <3>1, <3>2
      <3> QED
        BY <1>2, <3>3, GaugeFact
    <2>7. IdleSees'
      BY <1>1, <1>2, <2>1 DEF IdleSees
    <2> QED
      BY <1>3, <2>4, <2>5, <2>6, <2>7
  <1>5. CASE ~(Len(queue) < BufferSize)
    <2>1. dropped' = dropped \cup {h} /\ queue' = queue /\ counting' = counting
      BY <1>5 DEF Enqueue
    <2>2. TypeOK'
      BY <1>1, <2>1 DEF TypeOK
    <2>3. NoneLost'
      BY <1>1, <1>2, <2>1 DEF NoneLost, InQueue
    <2>4. GaugeTracksQueue'
      BY <1>1, <1>2, <2>1, GaugeFact
    <2>5. IdleSees'
      BY <1>1, <1>2, <2>1 DEF IdleSees
    <2> QED
      BY <1>3, <2>2, <2>3, <2>4, <2>5
  <1> QED
    BY <1>4, <1>5

LEMMA TakeKeeps ==
  ASSUME WorkerInv, NEW w \in Workers, Take(w)
  PROVE  WorkerInv'
  <1> DEFINE r == [pc |-> "taken", hook |-> Head(queue)]
  <1> USE DEF WorkerInv
  <1>1. /\ worker[w].pc = "select" /\ queue # << >> /\ queue' = Tail(queue)
        /\ worker' = [worker EXCEPT ![w] = r]
        /\ UNCHANGED <<offered, dropped, counting, gauge, inflight, processed, stopped, waiter>>
    BY DEF Take, At
  <1>2. /\ queue' \in Seq(Webhooks) /\ Len(queue') = Len(queue) - 1
        /\ Head(queue) \in Webhooks
        /\ InQueue = InQueue' \cup {Head(queue)}
    BY <1>1, Receives
  <1>3. r \in [pc : Step, hook : Webhooks] /\ r.pc = "taken" /\ r.hook = Head(queue)
    BY <1>2 DEF Step
  <1> HIDE DEF r
  <1>4. InHand' = InHand \cup {Head(queue)}
    BY <1>1, <1>3, HandFacts
  <1>5. /\ Cardinality(AtOneOf({"taken"})') = Cardinality(AtOneOf({"taken"})) + 1
        /\ Cardinality(AtOneOf({"taken"})) \in Nat
    BY <1>1, <1>3, Joins
  <1>6. AtOneOf({"handling", "marked"})' = AtOneOf({"handling", "marked"})
    BY <1>1, <1>3, Joins
  <1>7. InflightCounts'
    BY <1>1, <1>6 DEF InflightCounts
  <1>8. TypeOK'
    <2>1. Len(queue) \in Nat /\ Len(queue) <= BufferSize /\ BufferSize \in Nat
      BY WorkerAssumption DEF TypeOK
    <2>2. Len(queue') <= BufferSize
      BY <1>2, <2>1
    <2>3. worker' \in [Workers -> [pc : Step, hook : Webhooks]]
      BY <1>1, <1>3 DEF TypeOK
    <2> QED
      BY <1>1, <1>2, <2>2, <2>3 DEF TypeOK
  <1>9. NoneLost'
    BY <1>1, <1>2, <1>4 DEF NoneLost
  <1>10. GaugeTracksQueue'
    <2>1. Len(queue) \in Nat /\ gauge \in Int /\ counting \in Nat
      BY DEF TypeOK
    <2> QED
      BY <1>1, <1>2, <1>5, <2>1, GaugeFact
  <1>11. IdleSees'
    BY <1>1, <1>4 DEF IdleSees
  <1> QED
    BY <1>7, <1>8, <1>9, <1>10, <1>11

\* The steps of a goroutine that keeps its webhook.
LEMMA GoesFacts ==
  ASSUME TypeOK, NEW w \in Workers, NEW s \in Step, Goes(w, s)
  PROVE  LET r == [pc |-> s, hook |-> worker[w].hook]
         IN /\ r \in [pc : Step, hook : Webhooks] /\ r.pc = s /\ r.hook = worker[w].hook
            /\ worker' = [worker EXCEPT ![w] = r]
            /\ worker' \in [Workers -> [pc : Step, hook : Webhooks]]
  <1> DEFINE r == [pc |-> s, hook |-> worker[w].hook]
  <1>1. worker[w] = [pc |-> worker[w].pc, hook |-> worker[w].hook] /\ worker[w].hook \in Webhooks
    BY DEF TypeOK
  <1>2. r \in [pc : Step, hook : Webhooks]
    BY <1>1
  <1>3. [worker[w] EXCEPT !.pc = s] = r
    BY <1>1
  <1>4. worker' = [worker EXCEPT ![w] = r]
    BY <1>3 DEF Goes
  <1> QED
    BY <1>2, <1>4 DEF TypeOK

LEMMA RunKeeps ==
  ASSUME WorkerInv, NEW w \in Workers,
         \/ DecWebhookBacklog(w) \/ BeginHandler(w) \/ MarkProcessed(w) \/ EndHandler(w) \/ Quit(w)
  PROVE  WorkerInv'
  <1> DEFINE goes(from, s) ==
               /\ worker[w].pc = from /\ s \in Step
               /\ \E r \in [pc : Step, hook : Webhooks] :
                    r.pc = s /\ r.hook = worker[w].hook /\ worker' = [worker EXCEPT ![w] = r]
               /\ worker' \in [Workers -> [pc : Step, hook : Webhooks]]
             busy == Cardinality(AtOneOf({"handling", "marked"}))
             taken == Cardinality(AtOneOf({"taken"}))
  <1> USE DEF WorkerInv
  <1>1. \A from, s \in Step : At(w, from) /\ Goes(w, s) => goes(from, s)
    BY GoesFacts DEF At
  <1>2. UNCHANGED <<offered, dropped, queue, counting, stopped, waiter>> /\ InQueue' = InQueue
    BY DEF DecWebhookBacklog, BeginHandler, MarkProcessed, EndHandler, Quit, InQueue
  <1>3. /\ Len(queue) \in Nat /\ gauge \in Int /\ counting \in Nat /\ inflight = busy
        /\ gauge + counting = Len(queue) + taken
        /\ busy \in Nat /\ taken \in Nat
    BY GaugeFact, WorkerAssumption, FS_Subset, FS_CardinalityType
    DEF TypeOK, InflightCounts, AtOneOf
  <1>4. SUFFICES /\ worker' \in [Workers -> [pc : Step, hook : Webhooks]]
                 /\ inflight' = busy' /\ gauge' \in Int
                 /\ gauge' + counting = Len(queue) + taken'
                 /\ processed \subseteq processed'
                 /\ InHand' \cup processed' = InHand \cup processed
    <2>1. InflightCounts' /\ GaugeTracksQueue'
      BY <1>2, <1>4, GaugeFact DEF InflightCounts
    <2>2. NoneLost' /\ IdleSees'
      BY <1>2, <1>4 DEF NoneLost, IdleSees
    <2>3. processed' \subseteq offered'
      BY <2>2 DEF NoneLost
    <2>4. TypeOK'
      <3>1. inflight' \in 0 .. Cardinality(Workers)
        <4>1. InflightCounts => inflight \in 0 .. Cardinality(Workers)
          BY InflightBound
        <4>2. Cardinality(AtOneOf({"handling", "marked"})') \in Nat
              /\ Cardinality(AtOneOf({"handling", "marked"})') <= Cardinality(Workers)
          BY WorkerAssumption, FS_Subset, FS_CardinalityType DEF AtOneOf
        <4>3. Cardinality(Workers) \in Nat
          BY WorkerAssumption, FS_CardinalityType
        <4> QED
          BY <2>1, <4>2, <4>3 DEF InflightCounts
      <3> QED
        BY <1>2, <1>4, <2>3, <3>1 DEF TypeOK
    <2> QED
      BY <2>1, <2>2, <2>4
  <1> HIDE DEF busy, taken
  <1>5. CASE DecWebhookBacklog(w)
    <2>1. /\ gauge' = gauge - 1 /\ UNCHANGED <<inflight, processed>> /\ goes("taken", "counted")
      BY <1>1, <1>5 DEF DecWebhookBacklog, Step
    <2>2. InHand' = InHand
      BY <2>1, HandFacts
    <2>3. busy' = busy /\ taken' = taken - 1
      BY <2>1, Joins DEF busy, taken
    <2> QED
      BY <1>3, <2>1, <2>2, <2>3
  <1>6. CASE BeginHandler(w)
    <2>1. /\ inflight' = inflight + 1 /\ UNCHANGED <<gauge, processed>> /\ goes("counted", "handling")
      BY <1>1, <1>6 DEF BeginHandler, Step
    <2>2. InHand' = InHand
      BY <2>1, HandFacts
    <2>3. busy' = busy + 1 /\ taken' = taken
      BY <2>1, Joins DEF busy, taken
    <2> QED
      BY <1>3, <2>1, <2>2, <2>3
  <1>7. CASE MarkProcessed(w)
    <2>1. /\ processed' = processed \cup {worker[w].hook} /\ UNCHANGED <<gauge, inflight>>
          /\ goes("handling", "marked")
      BY <1>1, <1>7 DEF MarkProcessed, Step
    <2>2. worker[w].hook \in InHand /\ InHand' \cup {worker[w].hook} = InHand
      BY <2>1, HandFacts
    <2>3. busy' = busy /\ taken' = taken
      <3>1. /\ AtOneOf({"handling", "marked"})' = AtOneOf({"handling", "marked"})
            /\ AtOneOf({"taken"})' = AtOneOf({"taken"})
        BY <2>1, Joins
      <3> QED
        BY <3>1 DEF busy, taken
    <2> QED
      BY <1>3, <2>1, <2>2, <2>3
  <1>8. CASE EndHandler(w)
    <2>1. /\ inflight' = inflight - 1 /\ UNCHANGED <<gauge, processed>> /\ goes("marked", "select")
      BY <1>1, <1>8 DEF EndHandler, Step
    <2>2. InHand' = InHand
      BY <2>1, HandFacts
    <2>3. busy' = busy - 1 /\ taken' = taken
      BY <2>1, Joins DEF busy, taken
    <2> QED
      BY <1>3, <2>1, <2>2, <2>3
  <1>9. CASE Quit(w)
    <2>1. UNCHANGED <<gauge, inflight, processed>> /\ goes("select", "gone")
      BY <1>1, <1>9 DEF Quit, Step
    <2>2. InHand' = InHand
      BY <2>1, HandFacts
    <2>3. busy' = busy /\ taken' = taken
      BY <2>1, Joins DEF busy, taken
    <2> QED
      BY <1>3, <2>1, <2>2, <2>3
  <1> QED
    BY <1>5, <1>6, <1>7, <1>8, <1>9

\* The late update of the gauge, Stop and the reads of Idle.
LEMMA OthersKeep ==
  ASSUME WorkerInv, IncWebhookBacklog \/ Stop \/ Idle \/ UNCHANGED vars
  PROVE  WorkerInv'
  <1> USE DEF WorkerInv
  <1>1. UNCHANGED <<offered, dropped, queue, worker, inflight, processed>> /\ InQueue' = InQueue
    BY DEF IncWebhookBacklog, Stop, Idle, CallIdle, PollBacklog, PollInflight, vars, InQueue
  <1>2. InHand' = InHand /\ \A P : AtOneOf(P)' = AtOneOf(P)
    BY <1>1, SameHands
  <1>3. NoneLost' /\ InflightCounts'
    BY <1>1, <1>2 DEF NoneLost, InflightCounts
  <1>4. /\ counting' \in Nat /\ gauge' \in Int /\ stopped' \in BOOLEAN
        /\ gauge' + counting' = gauge + counting
    <2>1. counting \in Nat /\ gauge \in Int /\ stopped \in BOOLEAN
      BY DEF TypeOK
    <2>2. CASE IncWebhookBacklog
      BY <2>1, <2>2 DEF IncWebhookBacklog
    <2>3. CASE Stop
      BY <2>1, <2>3 DEF Stop
    <2>4. CASE Idle \/ UNCHANGED vars
      BY <2>1, <2>4 DEF Idle, CallIdle, PollBacklog, PollInflight, vars
    <2> QED
      BY <2>2, <2>3, <2>4
  <1>5. GaugeTracksQueue'
    BY <1>1, <1>2, <1>4, GaugeFact
  <1>6. IdleSees' /\ waiter' \in [pc : {"off", "poll", "empty", "returned"}, accepted : SUBSET Webhooks]
    <2>1. CASE UNCHANGED waiter
      BY <1>1, <1>2, <2>1 DEF IdleSees, TypeOK
    <2>2. CASE CallIdle
      BY <1>1, <1>2, <2>2 DEF CallIdle, IdleSees, TypeOK
    <2>3. CASE PollBacklog
      <3>1. InQueue = {}
        BY <2>3 DEF PollBacklog, InQueue
      <3> QED
        BY <1>1, <1>2, <2>3, <3>1 DEF PollBacklog, IdleSees, TypeOK, NoneLost
    <2>4. CASE PollInflight
      BY <1>1, <1>2, <2>4 DEF PollInflight, IdleSees, TypeOK
    <2> QED
      BY <2>1, <2>2, <2>3, <2>4 DEF IncWebhookBacklog, Stop, Idle, vars
  <1>7. TypeOK'
    BY <1>1, <1>4, <1>6 DEF TypeOK
  <1> QED
    BY <1>3, <1>5, <1>6, <1>7

LEMMA WorkerStep == WorkerInv /\ [Next]_vars => WorkerInv'
  BY EnqueueKeeps, TakeKeeps, RunKeeps, OthersKeep DEF Next, Run

-----------------------------------------------------------------------------
(* The properties.                                                         *)

\* WorkerInv is an invariant of Enqueue, the goroutines, Stop and Idle, for any
\* number of webhooks and goroutines and any size of the channel.
THEOREM WorkerInvariant == Spec => []WorkerInv
  BY WorkerInit, WorkerStep, PTL DEF Spec

\* Worker.inflight is never negative and never above the number of goroutines,
\* the channel never exceeds its buffer, and only offered webhooks are dropped
\* or marked.
THEOREM WorkerTypes == Spec => []TypeOK
  <1>1. WorkerInv => TypeOK
    BY DEF WorkerInv
  <1> QED
    BY <1>1, WorkerInvariant, PTL

\* A webhook that Enqueue accepted is in the channel, in a goroutine's hands or
\* processed between any two steps, before and after Stop.
THEOREM NoWebhookLost == Spec => []NoneLost
  <1>1. WorkerInv => NoneLost
    BY DEF WorkerInv
  <1> QED
    BY <1>1, WorkerInvariant, PTL

\* IncWebhookBacklog and DecWebhookBacklog balance: the gauge is off by exactly
\* the updates that are under way.
THEOREM GaugeIsBacklog == Spec => []GaugeTracksQueue
  <1>1. WorkerInv => GaugeTracksQueue
    BY DEF WorkerInv
  <1> QED
    BY <1>1, WorkerInvariant, PTL

\* Idle reads the channel, then the counter: when it returns, a webhook that
\* was accepted before the call is processed or has just been received.
THEOREM IdleIsAlmostRight == Spec => IdleMissesOnlyTaken
  <1> DEFINE received == {worker[w].hook : w \in {v \in Workers : worker[v].pc \in {"taken", "counted"}}}
             promise == waiter.pc # "returned" /\ waiter'.pc = "returned" =>
                          waiter.accepted \subseteq processed \cup received
  <1>1. ASSUME WorkerInv, [Next]_vars
        PROVE  [promise]_vars
    <2> SUFFICES ASSUME waiter.pc # "returned", waiter'.pc = "returned"
                 PROVE  waiter.accepted \subseteq processed \cup received
      OBVIOUS
    <2>1. PollInflight
      BY <1>1 DEF Next, vars, Enqueue, IncWebhookBacklog, Run, Take, DecWebhookBacklog,
                  BeginHandler, MarkProcessed, EndHandler, Quit, Stop, Idle, CallIdle,
                  PollBacklog, WorkerInv, TypeOK
    <2>2. waiter.pc = "empty" /\ inflight = 0
      BY <1>1, <2>1 DEF PollInflight, WorkerInv, TypeOK
    <2>3. waiter.accepted \subseteq InHand \cup processed
      BY <1>1, <2>2 DEF WorkerInv, IdleSees
    <2>4. AtOneOf({"handling", "marked"}) = {}
      <3>1. IsFiniteSet(AtOneOf({"handling", "marked"}))
        BY WorkerAssumption, FS_Subset DEF AtOneOf
      <3> QED
        BY <1>1, <2>2, <3>1, FS_EmptySet DEF WorkerInv, InflightCounts
    <2>5. InHand \subseteq received
      BY <2>4 DEF InHand, AtOneOf
    <2> QED
      BY <2>3, <2>5
  <1> QED
    BY <1>1, WorkerInvariant, PTL DEF Spec, IdleMissesOnlyTaken
=============================================================================
