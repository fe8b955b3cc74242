-------------------------- MODULE BackplaneProofs --------------------------
(***************************************************************************)
(* The circuit breaker for every number of callers and every threshold;    *)
(* then what the cache adapter, the producers and the consumers do around  *)
(* it, for any number of messages.                                         *)
(***************************************************************************)
EXTENDS Backplane, TLAPS

\* Every step of the breaker keeps BreakerInv.
LEMMA StepBreakerInv == ASSUME BreakerInv, [Next]_vars PROVE BreakerInv'
<1> USE ThresholdAssumption DEF BreakerInv, TypeOK, TimerIffOpen,
      ClosedBelowThreshold, States, Outcomes
<1>1. CASE Reset
  BY <1>1 DEF Reset
<1>2. ASSUME NEW c \in Calls, Execute(c) PROVE BreakerInv'
  BY <1>2 DEF Execute
<1>3. ASSUME NEW c \in Calls, Reject(c) PROVE BreakerInv'
  BY <1>3 DEF Reject
<1>4. ASSUME NEW c \in Calls, Succeed(c) PROVE BreakerInv'
  BY <1>4 DEF Succeed
<1>5. ASSUME NEW c \in Calls, FailCall(c) PROVE BreakerInv'
  <2>1. failures' \in 0..MaxFailures
    BY <1>5 DEF FailCall, Increment
  <2>2. CASE Trips(failures')
    BY <1>5, <2>1, <2>2 DEF FailCall
  <2>3. CASE ~Trips(failures')
    BY <1>5, <2>1, <2>3 DEF FailCall, Trips
  <2> QED BY <2>2, <2>3
<1>6. CASE UNCHANGED vars
  BY <1>6 DEF vars
<1> QED BY <1>1, <1>2, <1>3, <1>4, <1>5, <1>6 DEF Next

\* BreakerInv holds in every reachable state.
THEOREM BreakerInvariant == Spec => []BreakerInv
<1>1. Init => BreakerInv
  <2> SUFFICES ASSUME Init PROVE BreakerInv
    OBVIOUS
  <2>1. TypeOK
    <3>1. state \in States /\ failures \in 0..MaxFailures
      BY ThresholdAssumption DEF Init, States
    <3>2. resetTimer \in BOOLEAN
      BY DEF Init
    <3>3. call \in [Calls -> Outcomes \cup {"running"}]
      BY DEF Init, Outcomes
    <3> QED BY <3>1, <3>2, <3>3 DEF TypeOK
  <2>2. TimerIffOpen
    BY DEF Init, TimerIffOpen
  <2>3. ClosedBelowThreshold
    BY ThresholdAssumption DEF Init, ClosedBelowThreshold
  <2> QED BY <2>1, <2>2, <2>3 DEF BreakerInv
<1>2. BreakerInv /\ [Next]_vars => BreakerInv'
  BY StepBreakerInv
<1> QED BY <1>1, <1>2, PTL DEF Spec

\* Whatever calls are in flight, the reset timer is armed exactly while the
\* breaker is open.
THEOREM TimerArmed == Spec => []TimerIffOpen
<1>1. BreakerInv => TimerIffOpen
  BY DEF BreakerInv
<1> QED BY <1>1, BreakerInvariant, PTL

\* A closed breaker can take one more failure, whatever was counted before.
THEOREM ClosedHasRoom == Spec => []ClosedBelowThreshold
<1>1. BreakerInv => ClosedBelowThreshold
  BY DEF BreakerInv
<1> QED BY <1>1, BreakerInvariant, PTL

\* Only the timer ends the open state.
THEOREM OpenUntilReset == Spec => LateAnswersKeepItOpen
<1>1. ASSUME [Next]_vars, state = "OPEN" PROVE state' \in {"OPEN", "HALF_OPEN"}
  BY <1>1 DEF Next, Reset, Execute, Reject, Succeed, FailCall, Trips, vars
<1>2. [Next]_vars => [state = "OPEN" => state' \in {"OPEN", "HALF_OPEN"}]_vars
  BY <1>1
<1> QED BY <1>2, PTL DEF Spec, LateAnswersKeepItOpen

-----------------------------------------------------------------------------
\* The timer's callback is a step of the breaker.
LEMMA BreakerResetStep == BreakerReset => Next
  BY DEF BreakerReset, Next

\* A caller of the cache calls the breaker or leaves it alone.
LEMMA CacheStep ==
  ASSUME NEW c \in Calls, Cache(c) PROVE [Next]_vars
<1>1. CASE Command(c)
  BY <1>1 DEF Command, Next
<1>2. CASE CommandRejected(c)
  BY <1>2 DEF CommandRejected, Next
<1>3. CASE ReadSource(c)
  BY <1>3 DEF ReadSource
<1>4. CASE ChangeSource(c)
  BY <1>4 DEF ChangeSource
<1> QED BY <1>1, <1>2, <1>3, <1>4 DEF Cache

\* So does a caller of a producer; a transaction fails before it is asked.
LEMMA ProducerStep ==
  ASSUME NEW c \in Calls, Producer(c) PROVE [Next]_vars
<1>1. ASSUME NEW n \in {1, 2}, Send(c, n) PROVE Next
  BY <1>1 DEF Send, Next
<1>2. ASSUME NEW n \in {1, 2}, SendRejected(c, n) PROVE Next
  BY <1>2 DEF SendRejected, Next
<1>3. CASE SendTransaction(c)
  BY <1>3 DEF SendTransaction
<1> QED BY <1>1, <1>2, <1>3 DEF Producer

\* So does a consumer that takes a message or passes it.
LEMMA ConsumerStep ==
  ASSUME NEW c \in Calls, Consumer(c) PROVE [Next]_vars
<1>1. CASE EachMessage(c)
  BY <1>1 DEF EachMessage, Next
<1>2. CASE MessageRejected(c)
  BY <1>2 DEF MessageRejected, Next
<1>3. CASE MessageUnreadable(c) \/ CommitOffset(c)
  BY <1>3 DEF MessageUnreadable, CommitOffset
<1> QED BY <1>1, <1>2, <1>3 DEF Consumer

\* What a call awaits ends as the breaker's success or failure.
LEMMA AnswerStep ==
  ASSUME NEW c \in Calls, Answer(c) PROVE Next
<1>1. CASE CommandDone(c) \/ SendDone(c) \/ MessageHandled(c)
  BY <1>1 DEF CommandDone, SendDone, MessageHandled, Next
<1>2. CASE CommandFailed(c) \/ SendFailed(c) \/ HandlerFailed(c)
  BY <1>2 DEF CommandFailed, SendFailed, HandlerFailed, Next
<1> QED BY <1>1, <1>2 DEF Answer

\* By construction of the owners: each of their steps is a step of the breaker or
\* leaves it alone, so that what holds of it alone holds in them.
LEMMA Driven == BackplaneSpec => Spec
<1>1. BackplaneInit => Init
  BY DEF BackplaneInit
<1>2. ASSUME [BackplaneNext]_backplaneVars PROVE [Next]_vars
  <2>1. CASE BreakerReset
    BY <2>1, BreakerResetStep
  <2>2. ASSUME NEW c \in Calls,
               Cache(c) \/ Producer(c) \/ Consumer(c) PROVE [Next]_vars
    BY <2>2, CacheStep, ProducerStep, ConsumerStep
  <2>3. ASSUME NEW c \in Calls, Answer(c) PROVE Next
    BY <2>3, AnswerStep
  <2>4. ASSUME NEW c \in Calls, Rebalance(c) PROVE UNCHANGED vars
    BY <2>4 DEF Rebalance
  <2>5. ASSUME NEW e \in late, RunLate(e) PROVE UNCHANGED vars
    BY <2>5 DEF RunLate
  <2>6. CASE DeliverInvalidation \/ Expire \/ Post
    BY <2>6 DEF DeliverInvalidation, Expire, Post
  <2>7. CASE Idle \/ UNCHANGED backplaneVars
    BY <2>7 DEF Idle, backplaneVars
  <2> QED BY <1>2, <2>1, <2>2, <2>3, <2>4, <2>5, <2>6, <2>7 DEF BackplaneNext
<1> QED BY <1>1, <1>2, PTL DEF BackplaneSpec, Spec

\* In every owner the breaker's timer is armed exactly while it is open, and a
\* closed breaker has room for one more failure.
THEOREM OwnersBreakerInvariant == BackplaneSpec => []BreakerInv
  BY Driven, BreakerInvariant, PTL

-----------------------------------------------------------------------------
(***************************************************************************)
(* The producers' log.  AnswersMatchLog rests on what TLC's run suggests:  *)
(* a message has one sender, and what nobody has asked for is in no topic. *)
(***************************************************************************)
Used == {n \in Nat : n < next}
ProducerTypes ==
  /\ next \in Nat
  /\ call \in [Calls -> Outcomes \cup {"running"}]
  /\ sending \in [Calls -> SUBSET Used]
  /\ log \subseteq Used

OneSender ==
  \A c, d \in Calls : c # d => sending[c] \cap sending[d] = {}

Matched ==
  \A c \in Calls :
    /\ call[c] = "resolved" => sending[c] \subseteq log
    /\ call[c] = "rejected" => sending[c] \cap log = {}

ProducerInv ==
  adapter = "producer" => ProducerTypes /\ OneSender /\ Matched

\* What asks for messages takes some that nobody has.
LEMMA AsksStep ==
  ASSUME ProducerTypes, OneSender, Matched,
         NEW c \in Calls, NEW n \in {1, 2}, Asks(c, n),
         NEW to \in {"running", "rejected"}, call' = [call EXCEPT ![c] = to],
         UNCHANGED <<adapter, log>>
  PROVE  ProducerInv'
<1> USE DEF ProducerTypes, Used, OneSender, Matched,
      Asks, Take, Messages
<1>1. /\ \A m \in Messages(n) : m \in Nat /\ m >= next /\ m < next'
      /\ next' \in Nat /\ next' >= next
  OBVIOUS
<1>2. sending' \in [Calls -> SUBSET Used']
  BY <1>1
<1>3. ProducerTypes'
  BY <1>1, <1>2 DEF Outcomes
<1>4. OneSender'
  BY <1>1
<1>5. Matched'
  BY <1>1
<1> QED BY <1>3, <1>4, <1>5 DEF ProducerInv

\* What leaves the calls and the producer's variables alone keeps the invariant.
LEMMA Untouched ==
  ASSUME ProducerInv, UNCHANGED <<adapter, call, producerVars>>
  PROVE  ProducerInv'
  BY DEF ProducerInv, ProducerTypes, Used, OneSender, Matched,
    producerVars

\* A call that ends adds to the log what is its own.
LEMMA EndStep ==
  ASSUME ProducerTypes, OneSender, Matched,
         NEW c \in Calls, NEW sent \in SUBSET sending[c],
         NEW to \in {"resolved", "failed"}, call[c] = "running",
         to = "resolved" => sent = sending[c],
         call' = [call EXCEPT ![c] = to], log' = log \cup sent,
         UNCHANGED <<adapter, next, sending>>
  PROVE  ProducerInv'
<1> USE DEF ProducerTypes, Used, OneSender, Matched
<1>1. ProducerTypes'
  BY DEF Outcomes
<1>2. OneSender'
  OBVIOUS
<1>3. Matched'
  <2> SUFFICES ASSUME NEW d \in Calls
               PROVE  /\ call'[d] = "resolved" => sending[d] \subseteq log'
                      /\ call'[d] = "rejected" => sending[d] \cap log' = {}
    OBVIOUS
  <2>1. CASE d = c
    BY <2>1
  <2>2. CASE d # c
    <3>1. call'[d] = call[d] /\ sending[d] \cap sent = {}
      BY <2>2
    <3> QED BY <3>1
  <2> QED BY <2>1, <2>2
<1> QED BY <1>1, <1>2, <1>3 DEF ProducerInv

\* A caller of a producer keeps the invariant.
LEMMA ProducerKeeps ==
  ASSUME ProducerTypes, OneSender, Matched, adapter = "producer",
         NEW c \in Calls, Producer(c)
  PROVE  ProducerInv'
<1>1. ASSUME NEW n \in {1, 2}, Send(c, n) PROVE ProducerInv'
  <2>1. Asks(c, n) /\ call' = [call EXCEPT ![c] = "running"]
        /\ UNCHANGED <<adapter, log>>
    BY <1>1 DEF Send, Execute, OnlyProducer
  <2> QED BY <2>1, AsksStep
<1>2. ASSUME NEW n \in {1, 2}, SendRejected(c, n) PROVE ProducerInv'
  <2>1. Asks(c, n) /\ call' = [call EXCEPT ![c] = "rejected"]
        /\ UNCHANGED <<adapter, log>>
    BY <1>2 DEF SendRejected, Reject, OnlyProducer
  <2> QED BY <2>1, AsksStep
<1>3. CASE SendTransaction(c)
  <2> USE DEF ProducerTypes, Used, OneSender, Matched
  <2>1. /\ next' \in Nat /\ next' >= next
        /\ sending' = [sending EXCEPT ![c] = {}]
        /\ UNCHANGED <<adapter, call, log>>
    BY <1>3 DEF SendTransaction, Take, OnlyProducer, vars
  <2>2. Used \subseteq Used'
    BY <2>1
  <2>3. ProducerTypes'
    BY <2>1, <2>2
  <2>4. OneSender'
    BY <2>1
  <2>5. Matched'
    BY <2>1
  <2> QED BY <2>3, <2>4, <2>5 DEF ProducerInv
<1> QED BY <1>1, <1>2, <1>3 DEF Producer

\* Every step keeps ProducerInv.
LEMMA StepProducerInv ==
  ASSUME ProducerInv, [BackplaneNext]_backplaneVars PROVE ProducerInv'
<1>1. CASE adapter # "producer"
  <2>1. adapter' = adapter
    BY DEF BackplaneNext, BreakerReset, Cache, Producer, Consumer, Answer,
      Command, CommandRejected, ReadSource, ChangeSource, OnlyCache,
      Send, SendRejected, SendTransaction, OnlyProducer, EachMessage, MessageRejected,
      MessageUnreadable, CommitOffset, OnlyConsumer, CommandDone,
      CommandFailed, SendDone, SendFailed, MessageHandled, HandlerFailed,
      Rebalance, RunLate, DeliverInvalidation, Expire, Post, Idle,
      backplaneVars
  <2> QED BY <1>1, <2>1 DEF ProducerInv
<1>2. CASE adapter = "producer"
  <2> USE <1>2
  <2>0. ProducerTypes /\ OneSender /\ Matched
    BY DEF ProducerInv
  <2>1. CASE BreakerReset
    BY <2>1, Untouched DEF BreakerReset, Reset
  <2>2. ASSUME NEW c \in Calls, Producer(c) PROVE ProducerInv'
    BY <2>2, <2>0, ProducerKeeps
  <2>3. ASSUME NEW c \in Calls, Cache(c) \/ Consumer(c) \/ Rebalance(c)
        PROVE  UNCHANGED <<adapter, call, producerVars>>
    BY <2>3 DEF Cache, Command, CommandRejected, ReadSource, ChangeSource,
      Consumer, EachMessage, MessageRejected, MessageUnreadable, CommitOffset,
      Waiting, Rebalance
  <2>4. ASSUME NEW c \in Calls, Answer(c) PROVE ProducerInv'
    <3>1. CASE SendDone(c)
      <4>1. /\ call[c] = "running" /\ call' = [call EXCEPT ![c] = "resolved"]
            /\ log' = log \cup sending[c]
            /\ UNCHANGED <<adapter, next, sending>>
        BY <3>1 DEF SendDone, Succeed, OnlyProducer
      <4> QED BY <4>1, <2>0, EndStep
    <3>2. CASE SendFailed(c)
      <4>1. /\ call[c] = "running" /\ call' = [call EXCEPT ![c] = "failed"]
            /\ UNCHANGED <<adapter, next, sending>>
        BY <3>2 DEF SendFailed, FailCall, OnlyProducer
      <4>2. PICK sent \in SUBSET sending[c] : log' = log \cup sent
        BY <3>2 DEF SendFailed
      <4> QED BY <4>1, <4>2, <2>0, EndStep
    <3> QED BY <2>4, <3>1, <3>2
          DEF Answer, CommandDone, CommandFailed, MessageHandled, HandlerFailed
  <2>5. ASSUME NEW e \in late, RunLate(e)
        PROVE  UNCHANGED <<adapter, call, producerVars>>
    BY <2>5 DEF RunLate, OnlyCache, vars
  <2>6. CASE DeliverInvalidation \/ Expire \/ Post
    <3>1. UNCHANGED <<adapter, call, producerVars>>
      BY <2>6 DEF DeliverInvalidation, Expire, Post, OnlyCache, OnlyConsumer,
        vars
    <3> QED BY <3>1, Untouched
  <2>7. CASE Idle \/ UNCHANGED backplaneVars
    <3>1. UNCHANGED <<adapter, call, producerVars>>
      BY <2>7 DEF Idle, backplaneVars, vars
    <3> QED BY <3>1, Untouched
  <2> QED BY <2>1, <2>2, <2>3, <2>4, <2>5, <2>6, <2>7, Untouched
        DEF BackplaneNext
<1> QED BY <1>1, <1>2

\* ProducerInv holds in every reachable state.
THEOREM ProducerInvariant == BackplaneSpec => []ProducerInv
<1>1. BackplaneInit => ProducerInv
  BY DEF BackplaneInit, Init, ProducerInv, ProducerTypes, Used,
    OneSender, Matched, Outcomes
<1>2. ProducerInv /\ [BackplaneNext]_backplaneVars => ProducerInv'
  BY StepProducerInv
<1> QED BY <1>1, <1>2, PTL DEF BackplaneSpec

\* For any number of senders and messages, an answered send has its messages in
\* the topic and a refused one has none of them there.
THEOREM AnswersAreTrue == BackplaneSpec => []AnswersMatchLog
<1>1. ProducerInv => AnswersMatchLog
  BY DEF ProducerInv, Matched, AnswersMatchLog
<1> QED BY <1>1, ProducerInvariant, PTL

-----------------------------------------------------------------------------
(***************************************************************************)
(* The consumers' messages: one caller at a time has one, and what it has  *)
(* not passed it has not handled.                                          *)
(***************************************************************************)
Busy(c) == call[c] = "running" \/ place[c] = "passed"

ConsumerTypes ==
  /\ posted \in 0 .. MaxMessages
  /\ offset \in 0 .. posted
  /\ rebalances \in Nat
  /\ handled \in [Message -> Nat]
  /\ call \in [Calls -> Outcomes \cup {"running"}]
  /\ place \in [Calls -> {"start", "passed"}]

OneBusy ==
  /\ \A c, d \in Calls : Busy(c) /\ Busy(d) => c = d
  /\ \A c \in Calls :
       /\ Busy(c) => offset < posted
       /\ call[c] = "running" => place[c] = "start"

\* The messages that have been handled, once each.
SoFar ==
  rebalances = 0 =>
    \A m \in Message :
      /\ handled[m] <= 1
      /\ m > offset + 1 => handled[m] = 0
      /\ m = offset + 1 /\ (\A c \in Calls : place[c] = "start") => handled[m] = 0

ConsumerInv ==
  IF adapter = "consumer" THEN ConsumerTypes /\ OneBusy /\ SoFar
  ELSE handled = [m \in Message |-> 0]

\* What leaves the consumers and their calls alone keeps the invariant.
LEMMA ConsumerUntouched ==
  ASSUME ConsumerInv, UNCHANGED <<adapter, call, place, consumerVars>>
  PROVE  ConsumerInv'
BY DEF ConsumerInv, ConsumerTypes, OneBusy, Busy, SoFar, consumerVars

\* A caller takes a message, or passes it unhandled.
LEMMA TakesStep ==
  ASSUME ConsumerInv, adapter = "consumer", NEW c \in Calls, Waiting,
         NEW to \in Outcomes \cup {"running"},
         \/ call' = [call EXCEPT ![c] = to] /\ UNCHANGED place /\ to = "running"
         \/ (call' = [call EXCEPT ![c] = to] \/ UNCHANGED call) /\ to # "running"
              /\ place' = [place EXCEPT ![c] = "passed"],
         UNCHANGED <<adapter, consumerVars>>
  PROVE  ConsumerInv'
<1>1. ConsumerTypes /\ OneBusy /\ SoFar
  BY DEF ConsumerInv
<1>2. \A d \in Calls : ~Busy(d)
  BY <1>1 DEF Waiting, Free, Busy, ConsumerTypes
<1>3. \A d \in Calls \ {c} : ~Busy(d)'
  BY <1>1, <1>2 DEF Busy, ConsumerTypes
<1>4. ConsumerTypes'
  BY <1>1 DEF ConsumerTypes, consumerVars
<1>5. OneBusy'
  <2>1. offset' < posted'
    BY DEF Waiting, consumerVars
  <2>2. call'[c] = "running" => place'[c] = "start"
    BY <1>1, <1>2 DEF ConsumerTypes, Busy, Waiting, Free
  <2>3. \A d \in Calls \ {c} : call'[d] # "running"
    BY <1>3 DEF Busy
  <2> QED BY <1>3, <2>1, <2>2, <2>3 DEF OneBusy
<1>6. SoFar'
  <2>1. \A d \in Calls : place[d] = "start"
    BY DEF Waiting
  <2> QED BY <1>1, <2>1 DEF SoFar, consumerVars
<1> QED BY <1>4, <1>5, <1>6 DEF ConsumerInv

\* The handler of a message ends, with its work done or not.
LEMMA HandledStep ==
  ASSUME ConsumerInv, adapter = "consumer", NEW c \in Calls, NEW times \in {0, 1},
         call[c] = "running", Handled(times), Go(c, "passed"),
         NEW to \in Outcomes \ {"running"}, call' = [call EXCEPT ![c] = to],
         UNCHANGED <<adapter, posted, offset, rebalances>>
  PROVE  ConsumerInv'
<1>1. ConsumerTypes /\ OneBusy /\ SoFar
  BY DEF ConsumerInv
<1>2. Busy(c) /\ offset < posted /\ \A d \in Calls \ {c} : ~Busy(d)
  BY <1>1 DEF OneBusy, Busy
<1>3. offset + 1 \in Message /\ offset \in Nat
  BY <1>1, <1>2, BackplaneAssumption DEF ConsumerTypes, Message
<1>4. \A d \in Calls : place[d] = "start"
  BY <1>1, <1>2 DEF OneBusy, Busy, ConsumerTypes
<1>5. handled' = [handled EXCEPT ![offset + 1] = @ + times]
  BY DEF Handled
<1>6. place' = [place EXCEPT ![c] = "passed"]
  BY DEF Go
<1>7. ConsumerTypes'
  <2>1. handled[offset + 1] + times \in Nat
    BY <1>1, <1>3 DEF ConsumerTypes
  <2>2. handled' \in [Message -> Nat]
    BY <1>1, <1>5, <2>1 DEF ConsumerTypes
  <2> QED BY <1>1, <1>6, <2>2 DEF ConsumerTypes
<1>8. OneBusy'
  <2>1. \A d \in Calls \ {c} : ~Busy(d)'
    BY <1>1, <1>2, <1>6 DEF ConsumerTypes, Busy
  <2>2. call'[c] # "running" /\ \A d \in Calls \ {c} : call'[d] # "running"
    BY <1>1, <2>1 DEF ConsumerTypes, Busy
  <2> QED BY <1>2, <2>1, <2>2 DEF OneBusy
<1>9. SoFar'
  <2> SUFFICES ASSUME rebalances = 0, NEW m \in Message
               PROVE  /\ handled'[m] <= 1
                      /\ m > offset + 1 => handled'[m] = 0
                      /\ ~(\A d \in Calls : place'[d] = "start")
    BY DEF SoFar
  <2>1. place'[c] = "passed"
    BY <1>1, <1>6 DEF ConsumerTypes
  <2>2. m \in Nat /\ handled[m] \in Nat
    BY <1>1, BackplaneAssumption DEF Message, ConsumerTypes
  <2>3. CASE m = offset + 1
    <3>1. handled[m] = 0
      BY <1>1, <1>4, <2>3 DEF SoFar
    <3>2. handled'[m] = times
      BY <1>1, <1>3, <1>5, <2>3, <3>1 DEF ConsumerTypes
    <3> QED BY <1>3, <2>1, <2>2, <2>3, <3>2
  <2>4. CASE m # offset + 1
    <3>1. handled'[m] = handled[m]
      BY <1>1, <1>5, <2>4 DEF ConsumerTypes
    <3> QED BY <1>1, <2>1, <3>1 DEF SoFar
  <2> QED BY <2>3, <2>4
<1> QED BY <1>7, <1>8, <1>9 DEF ConsumerInv

\* The offset of a passed message is committed, or the partition moves before.
LEMMA PassedStep ==
  ASSUME ConsumerInv, adapter = "consumer", NEW c \in Calls,
         CommitOffset(c) \/ Rebalance(c)
  PROVE  ConsumerInv'
<1>1. ConsumerTypes /\ OneBusy /\ SoFar
  BY DEF ConsumerInv
<1>2. /\ place[c] = "passed" /\ place' = [place EXCEPT ![c] = "start"]
      /\ UNCHANGED <<adapter, call, posted, handled>>
  BY DEF CommitOffset, Rebalance, Go, OnlyConsumer, vars
<1>3. Busy(c) /\ offset < posted /\ \A d \in Calls \ {c} : ~Busy(d)
  BY <1>1, <1>2 DEF OneBusy, Busy
<1>4. /\ posted \in Nat /\ offset \in Nat /\ rebalances \in Nat
  BY <1>1, BackplaneAssumption DEF ConsumerTypes
<1>5. \/ offset' = offset + 1 /\ rebalances' = rebalances
      \/ offset' = offset /\ rebalances' = rebalances + 1
  BY DEF CommitOffset, Rebalance
<1>6. ConsumerTypes'
  BY <1>1, <1>2, <1>3, <1>4, <1>5 DEF ConsumerTypes
<1>7. \A d \in Calls : ~Busy(d)'
  BY <1>1, <1>2, <1>3 DEF ConsumerTypes, OneBusy, Busy
<1>8. OneBusy'
  BY <1>7 DEF OneBusy, Busy
<1>9. SoFar'
  <2> SUFFICES ASSUME rebalances' = 0, NEW m \in Message
               PROVE  /\ handled[m] <= 1
                      /\ m >= offset' + 1 => handled[m] = 0
    BY <1>2, <1>4, <1>5, BackplaneAssumption DEF SoFar, Message
  <2>1. offset' = offset + 1 /\ rebalances = 0 /\ m \in Nat
    BY <1>4, <1>5, BackplaneAssumption DEF Message
  <2> QED BY <1>1, <1>4, <2>1 DEF SoFar
<1> QED BY <1>2, <1>6, <1>8, <1>9 DEF ConsumerInv

LEMMA StepConsumerInv ==
  ASSUME ConsumerInv, [BackplaneNext]_backplaneVars PROVE ConsumerInv'
<1>1. CASE adapter # "consumer"
  <2>1. UNCHANGED <<adapter, handled>>
    BY <1>1 DEF BackplaneNext, BreakerReset, Cache, Producer, Consumer, Answer,
      Command, CommandRejected, ReadSource, ChangeSource, OnlyCache,
      Send, SendRejected, SendTransaction, OnlyProducer, EachMessage, MessageRejected,
      MessageUnreadable, CommitOffset, OnlyConsumer, Waiting, CommandDone,
      CommandFailed, SendDone, SendFailed, MessageHandled, HandlerFailed,
      Rebalance, RunLate, DeliverInvalidation, Expire, Post, Idle,
      consumerVars, backplaneVars
  <2> QED BY <1>1, <2>1 DEF ConsumerInv
<1>2. CASE adapter = "consumer"
  <2> USE <1>2
  <2>1. CASE BreakerReset
    BY <2>1, ConsumerUntouched DEF BreakerReset, Reset
  <2>2. ASSUME NEW c \in Calls, Cache(c) \/ Producer(c)
        PROVE  UNCHANGED <<adapter, call, place, consumerVars>>
    BY <2>2 DEF Cache, Command, CommandRejected, ReadSource, ChangeSource,
      Producer, Send, SendRejected, SendTransaction, Asks, Take, OnlyProducer,
      vars
  <2>3. ASSUME NEW c \in Calls, Consumer(c) PROVE ConsumerInv'
    <3>1. CASE EachMessage(c)
      BY <3>1, TakesStep DEF EachMessage, Execute, OnlyConsumer
    <3>2. CASE MessageRejected(c)
      <4>1. "rejected" \in Outcomes
        BY DEF Outcomes
      <4> QED BY <3>2, <4>1, TakesStep DEF MessageRejected, Reject, Go, OnlyConsumer
    <3>3. CASE MessageUnreadable(c)
      <4>1. "rejected" \in Outcomes
        BY DEF Outcomes
      <4> QED BY <3>3, <4>1, TakesStep DEF MessageUnreadable, Go, OnlyConsumer, vars
    <3> QED BY <2>3, <3>1, <3>2, <3>3, PassedStep DEF Consumer
  <2>4. ASSUME NEW c \in Calls, Answer(c) PROVE ConsumerInv'
    <3>1. {"resolved", "failed"} \subseteq Outcomes \ {"running"}
      BY DEF Outcomes
    <3>2. CASE MessageHandled(c)
      BY <3>1, <3>2, HandledStep DEF MessageHandled, Succeed, OnlyConsumer
    <3>3. CASE HandlerFailed(c)
      <4>1. PICK times \in {0, 1} : Handled(times)
        BY <3>3 DEF HandlerFailed
      <4> QED BY <3>1, <3>3, <4>1, HandledStep DEF HandlerFailed, FailCall, OnlyConsumer
    <3> QED BY <2>4, <3>2, <3>3 DEF Answer, CommandDone, CommandFailed, SendDone, SendFailed
  <2>5. ASSUME NEW e \in late, RunLate(e)
        PROVE  UNCHANGED <<adapter, call, place, consumerVars>>
    BY <2>5 DEF RunLate, OnlyCache, vars
  <2>6. CASE DeliverInvalidation \/ Expire \/ Idle \/ UNCHANGED backplaneVars
    <3>1. UNCHANGED <<adapter, call, place, consumerVars>>
      BY <2>6 DEF DeliverInvalidation, Expire, Idle, OnlyCache, vars, backplaneVars
    <3> QED BY <3>1, ConsumerUntouched
  <2>7. CASE Post
    <3>1. /\ posted < MaxMessages /\ posted' = posted + 1
          /\ UNCHANGED <<adapter, call, place, offset, handled, rebalances>>
      BY <2>7 DEF Post, OnlyConsumer, vars
    <3>2. posted \in Nat /\ offset \in 0 .. posted /\ posted' \in 0 .. MaxMessages
      BY <3>1, BackplaneAssumption DEF ConsumerInv, ConsumerTypes
    <3> QED BY <3>1, <3>2 DEF ConsumerInv, ConsumerTypes, OneBusy, Busy, SoFar
  <2> QED BY <2>1, <2>2, <2>3, <2>4, <2>5, <2>6, <2>7, PassedStep, ConsumerUntouched
        DEF BackplaneNext
<1> QED BY <1>1, <1>2

\* For any number of callers and messages: unless the partition moves, no message
\* is handled twice, not the one whose handler failed after its work either.
THEOREM HandledOnceAlways == BackplaneSpec => []HandledOnce
<1>1. BackplaneInit => ConsumerInv
  <2> SUFFICES ASSUME BackplaneInit PROVE ConsumerInv
    OBVIOUS
  <2>1. \A c \in Calls : ~Busy(c)
    BY DEF BackplaneInit, Init, Busy
  <2> QED BY <2>1, BackplaneAssumption
        DEF BackplaneInit, Init, ConsumerInv, ConsumerTypes, OneBusy, Busy, SoFar, Outcomes
<1>2. ConsumerInv /\ [BackplaneNext]_backplaneVars => ConsumerInv'
  BY StepConsumerInv
<1>3. ConsumerInv => HandledOnce
  BY DEF ConsumerInv, SoFar, HandledOnce
<1> QED BY <1>1, <1>2, <1>3, PTL DEF BackplaneSpec
=============================================================================
