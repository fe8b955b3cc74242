----------------------------- MODULE Backplane -----------------------------
(***************************************************************************)
(* The owners of a circuit breaker: the Redis cache adapter with the       *)
(* invalidations it publishes, the Kafka producers and the Kafka           *)
(* consumers.  Each owner has a breaker of its own, and a behaviour is     *)
(* about one owner.  The callers of the cache are outside the repository:  *)
(* they read through it and invalidate after they change the source.       *)
(***************************************************************************)
EXTENDS CircuitBreaker

CONSTANTS
  MaxVersion,     \* changes of what the cache holds a copy of
  MaxMessages,    \* messages to send, or to consume
  MaxRebalances,  \* partitions taken from a consumer
  KeyPrefix,      \* whether Redis keys have a prefix (they have by default)
  None

ASSUME BackplaneAssumption ==
  /\ {MaxVersion, MaxMessages, MaxRebalances} \subseteq Nat
  /\ KeyPrefix \in BOOLEAN /\ None \notin Nat

Version == 0 .. MaxVersion
Message == 1 .. MaxMessages
Adapters == {"cache", "producer", "consumer"}

VARIABLES
  adapter,     \* the owner; never changes
  place,       \* where each caller is between its calls
  source,      \* the version of what is cached
  cached,      \* the entry of its key in Redis
  seen,        \* the version a caller has read, to cache it
  late,        \* commands that were given up and may still run
  bus,         \* an invalidation is under way to other instances
  next,        \* the next message to send
  sending,     \* what each caller sends, or sent last
  log,         \* messages in their topics
  posted,      \* messages in the partition a consumer reads
  offset,      \* messages it has passed for good
  handled,     \* how often each was handled
  rebalances

cacheVars == <<source, cached, seen, late, bus>>
producerVars == <<next, sending, log>>
consumerVars == <<posted, offset, handled, rebalances>>
backplaneVars ==
  <<vars, adapter, place, cacheVars, producerVars, consumerVars>>

Free(c) == call[c] # "running"
Go(c, where) == place' = [place EXCEPT ![c] = where]

-----------------------------------------------------------------------------
\* The cache.  Every method catches what the breaker throws, so a caller cannot
\* tell a failure or a refusal from a miss or from a command that was done.

OnlyCache == UNCHANGED <<adapter, producerVars, consumerVars>>

\* Mutant: entries are written without EX.
EntryForGood(v) == [version |-> v, ttl |-> FALSE]

Entry(v) == [version |-> v, ttl |-> TRUE]

\* A key that is deleted goes; a pattern has no key prefix in SCAN, and the
\* keys it would find get theirs twice in DEL: it deletes nothing.
AfterInvalidation == {None} \cup (IF KeyPrefix THEN {cached} ELSE {})

\* What a command of a caller leaves of the entry.
LeavesEntry(c) ==
  CASE place[c] = "start" -> {cached}
    [] place[c] = "loaded" -> {Entry(seen[c])}
    [] place[c] = "changed" -> AfterInvalidation

\* get, set, invalidate and invalidatePattern, up to the await of Redis.
Command(c) ==
  /\ adapter = "cache" /\ place[c] \in {"start", "loaded", "changed"}
  /\ Execute(c)
  /\ UNCHANGED <<place, cacheVars>> /\ OnlyCache

\* After a miss, or what looks like one, a caller goes to the source.
AfterGet(c, hit) == IF place[c] = "start" /\ ~hit THEN "missed" ELSE "start"

CommandDone(c) ==
  /\ adapter = "cache" /\ Succeed(c)
  /\ cached' \in LeavesEntry(c)
  /\ bus' = (bus \/ place[c] = "changed")
  /\ Go(c, AfterGet(c, cached # None))
  /\ seen' = [seen EXCEPT ![c] = None]
  /\ UNCHANGED <<source, late>> /\ OnlyCache

\* An error, or commandTimeout: the command may still reach Redis.
CommandFailed(c) ==
  /\ adapter = "cache" /\ FailCall(c)
  /\ \/ UNCHANGED late
     \/ place[c] # "start"
          /\ late' = late \cup
               {IF place[c] = "loaded" THEN Entry(seen[c]) ELSE None}
  /\ Go(c, AfterGet(c, FALSE))
  /\ seen' = [seen EXCEPT ![c] = None]
  /\ bus' \in {bus, bus \/ place[c] = "changed"}
  /\ UNCHANGED <<source, cached>> /\ OnlyCache

\* The breaker is open: get answers null, the others do nothing.
CommandRejected(c) ==
  /\ adapter = "cache" /\ place[c] \in {"start", "loaded", "changed"}
  /\ Reject(c)
  /\ Go(c, AfterGet(c, FALSE))
  /\ seen' = [seen EXCEPT ![c] = None]
  /\ UNCHANGED <<source, cached, late, bus>> /\ OnlyCache

ReadSource(c) ==
  /\ adapter = "cache" /\ place[c] = "missed"
  /\ seen' = [seen EXCEPT ![c] = source]
  /\ Go(c, "loaded")
  /\ UNCHANGED <<vars, source, cached, late, bus>> /\ OnlyCache

ChangeSource(c) ==
  /\ adapter = "cache" /\ Free(c) /\ place[c] = "start" /\ source < MaxVersion
  /\ source' = source + 1
  /\ Go(c, "changed")
  /\ UNCHANGED <<vars, cached, seen, late, bus>> /\ OnlyCache

RunLate(e) ==
  /\ e \in late
  /\ cached' = e /\ late' = late \ {e}
  /\ UNCHANGED <<vars, place, source, seen, bus>> /\ OnlyCache

\* Another instance deletes the key in its turn, or the message is lost.
DeliverInvalidation ==
  /\ bus /\ bus' = FALSE
  /\ cached' \in {cached} \cup AfterInvalidation
  /\ UNCHANGED <<vars, place, source, seen, late>> /\ OnlyCache

Expire ==
  /\ cached # None /\ cached.ttl
  /\ cached' = None
  /\ UNCHANGED <<vars, place, source, seen, late, bus>> /\ OnlyCache

-----------------------------------------------------------------------------
\* The producers: what the breaker throws is logged and thrown again.

OnlyProducer == UNCHANGED <<adapter, place, cacheVars, consumerVars>>

\* n messages that nobody has sent yet.
Messages(n) == next .. (next + n - 1)
Take(c, n) ==
  /\ adapter = "producer"
  /\ next + n <= MaxMessages + 1
  /\ next' = next + n

\* send, and sendBatch of two.
Asks(c, n) ==
  /\ Take(c, n)
  /\ sending' = [sending EXCEPT ![c] = Messages(n)]

Send(c, n) ==
  /\ Execute(c) /\ Asks(c, n)
  /\ UNCHANGED log /\ OnlyProducer

SendRejected(c, n) ==
  /\ Reject(c) /\ Asks(c, n)
  /\ UNCHANGED log /\ OnlyProducer

\* Mutant: the promise of the send is not awaited.
SendForgotten(c) ==
  /\ adapter = "producer" /\ Succeed(c)
  /\ \E sent \in SUBSET sending[c] : log' = log \cup sent
  /\ UNCHANGED <<next, sending>> /\ OnlyProducer

\* acks is -1: every replica in sync has the messages.
SendDone(c) ==
  /\ adapter = "producer" /\ Succeed(c)
  /\ log' = log \cup sending[c]
  /\ UNCHANGED <<next, sending>> /\ OnlyProducer

\* Some of the messages may be there.
SendFailed(c) ==
  /\ adapter = "producer" /\ FailCall(c)
  /\ \E sent \in SUBSET sending[c] : log' = log \cup sent
  /\ UNCHANGED <<next, sending>> /\ OnlyProducer

\* sendTransaction, past the breaker: the producer is made without the
\* transactional id that kafkajs wants, so `transaction' throws before anything
\* is sent, and what follows it is never reached.
SendTransaction(c) ==
  /\ Free(c) /\ Take(c, 2)
  /\ sending' = [sending EXCEPT ![c] = {}]
  /\ UNCHANGED <<vars, log>> /\ OnlyProducer

-----------------------------------------------------------------------------
\* The consumers: one message at a time.  What fails is logged, and the
\* message is passed as if it had been handled.

OnlyConsumer == UNCHANGED <<adapter, cacheVars, producerVars>>

Post ==
  /\ adapter = "consumer" /\ posted < MaxMessages
  /\ posted' = posted + 1
  /\ UNCHANGED <<vars, place, offset, handled, rebalances>> /\ OnlyConsumer

Waiting ==
  /\ adapter = "consumer" /\ offset < posted
  /\ \A c \in Calls : Free(c) /\ place[c] = "start"

\* eachMessage, up to the await of handle.
EachMessage(c) ==
  /\ Waiting /\ Execute(c)
  /\ UNCHANGED <<place, consumerVars>> /\ OnlyConsumer

\* The breaker is open: the message is passed and never handled.
MessageRejected(c) ==
  /\ Waiting /\ Reject(c)
  /\ Go(c, "passed")
  /\ UNCHANGED consumerVars /\ OnlyConsumer

\* It is no JSON: the breaker is not asked.
MessageUnreadable(c) ==
  /\ Waiting
  /\ Go(c, "passed")
  /\ UNCHANGED <<vars, consumerVars>> /\ OnlyConsumer

Handled(times) ==
  handled' = [handled EXCEPT ![offset + 1] = @ + times]

MessageHandled(c) ==
  /\ adapter = "consumer" /\ place[c] = "start" /\ Succeed(c)
  /\ Handled(1) /\ Go(c, "passed")
  /\ UNCHANGED <<posted, offset, rebalances>> /\ OnlyConsumer

\* Mutant: the error is thrown again, and the message is not passed.
HandlerRethrows(c) ==
  /\ adapter = "consumer" /\ place[c] = "start" /\ FailCall(c)
  /\ \E times \in {0, 1} : handled[offset + 1] + times <= 2 /\ Handled(times)
  /\ UNCHANGED <<place, posted, offset, rebalances>> /\ OnlyConsumer

\* The handler fails before or after it has done its work.
HandlerFailed(c) ==
  /\ adapter = "consumer" /\ place[c] = "start" /\ FailCall(c)
  /\ \E times \in {0, 1} : Handled(times)
  /\ Go(c, "passed")
  /\ UNCHANGED <<posted, offset, rebalances>> /\ OnlyConsumer

\* kafkajs commits the offset of a message whose eachMessage returned.
CommitOffset(c) ==
  /\ adapter = "consumer" /\ place[c] = "passed"
  /\ offset' = offset + 1
  /\ Go(c, "start")
  /\ UNCHANGED <<vars, posted, handled, rebalances>> /\ OnlyConsumer

\* The partition is taken away before the commit: the message comes again.
Rebalance(c) ==
  /\ adapter = "consumer" /\ place[c] = "passed" /\ rebalances < MaxRebalances
  /\ rebalances' = rebalances + 1
  /\ Go(c, "start")
  /\ UNCHANGED <<vars, posted, offset, handled>> /\ OnlyConsumer

-----------------------------------------------------------------------------
BackplaneInit ==
  /\ Init
  /\ adapter \in Adapters
  /\ place = [c \in Calls |-> "start"]
  /\ source = 0 /\ cached = None /\ late = {} /\ bus = FALSE
  /\ seen = [c \in Calls |-> None]
  /\ next = 1 /\ sending = [c \in Calls |-> {}] /\ log = {}
  /\ posted = 0 /\ offset = 0 /\ rebalances = 0
  /\ handled = [m \in Message |-> 0]

BreakerReset ==
  /\ Reset
  /\ UNCHANGED <<adapter, place, cacheVars, producerVars, consumerVars>>

Cache(c) ==
  \/ Command(c) \/ CommandRejected(c) \/ ReadSource(c) \/ ChangeSource(c)

Producer(c) ==
  \/ \E n \in {1, 2} : Send(c, n) \/ SendRejected(c, n)
  \/ SendTransaction(c)

Consumer(c) ==
  \/ EachMessage(c) \/ MessageRejected(c) \/ MessageUnreadable(c)
  \/ CommitOffset(c)

Answer(c) ==
  \/ CommandDone(c) \/ CommandFailed(c)
  \/ SendDone(c) \/ SendFailed(c)
  \/ MessageHandled(c) \/ HandlerFailed(c)

\* Every message was sent, or posted and passed.
Idle ==
  /\ \/ adapter = "producer" /\ next > MaxMessages
     \/ adapter = "consumer" /\ offset = MaxMessages
  /\ UNCHANGED backplaneVars

BackplaneNext ==
  \/ BreakerReset
  \/ \E c \in Calls :
       \/ Cache(c) \/ Producer(c) \/ Consumer(c)
       \/ Answer(c) \/ Rebalance(c)
  \/ \E e \in late : RunLate(e)
  \/ DeliverInvalidation \/ Expire \/ Post \/ Idle

\* The timer fires, what a call awaits settles, Redis drops what has expired,
\* and a consumer takes the messages that are there.
BackplaneSpec ==
  /\ BackplaneInit /\ [][BackplaneNext]_backplaneVars
  /\ WF_backplaneVars(BreakerReset)
  /\ \A c \in Calls : WF_backplaneVars(Answer(c))
  /\ WF_backplaneVars(Expire)
  /\ WF_backplaneVars(\E c \in Calls : Consumer(c))

-----------------------------------------------------------------------------
\* Once the source changes no more, the cache holds its last version or
\* nothing: refills that read before the change, invalidations that failed,
\* were refused or matched no key, and commands that run after they were given
\* up all last no longer than the entry's time to live.
FreshInTheEnd == <>[](IF cached = None THEN TRUE ELSE cached.version = source)

\* A caller of send or sendBatch that got an answer has its messages in the
\* topic, and one that was refused by the breaker has none of them there:
\* whatever answers are late, nothing is sent behind a refusal.
AnswersMatchLog ==
  adapter = "producer" =>
    \A c \in Calls :
      /\ call[c] = "resolved" => sending[c] \subseteq log
      /\ call[c] = "rejected" => sending[c] \cap log = {}

\* Unless the partition moves, no message is handled twice: a handler that
\* failed after its work is not run again.
HandledOnce ==
  rebalances = 0 => \A m \in Message : handled[m] <= 1

\* A consumer whose handlers settle passes every message, the ones whose handler
\* always fails and the ones it cannot read too.
EveryMessagePassed ==
  \A m \in Message : (adapter = "consumer" /\ posted >= m) ~> offset >= m
=============================================================================
