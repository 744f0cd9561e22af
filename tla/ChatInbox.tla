----------------------------- MODULE ChatInbox -----------------------------
(***************************************************************************)
(* The persistent chat inbox (src/src/chat.rs, struct ChatInbox) as the    *)
(* chat actor drives it: the SQLite tables chat_messages, chat_seen and    *)
(* chat_state, the in-memory capacity and queue mode, and the life of the  *)
(* process around them (start-up, configuration changes, crash).           *)
(*                                                                         *)
(* A table is a set of rows with AUTOINCREMENT ids; a row keeps only the   *)
(* platform identity (source, external_id) of its message, the payload is  *)
(* left out.  The actor handles one command at a time and each handler     *)
(* commits one transaction, so a handler is one action.  Commands that     *)
(* change nothing (a duplicate, a stale acknowledgement, a snapshot) are   *)
(* stuttering steps.                                                       *)
(***************************************************************************)
EXTENDS Integers, FiniteSets

CONSTANTS
  Message,     \* platform identities (source, external_id) that may be delivered
  Capacities,  \* values of chat.queue_capacity an operator may save
  SeenFactor,  \* SEEN_ID_RETENTION_MULTIPLIER
  MaxClaims    \* bound: claims made in one behaviour

ASSUME CapacitiesAssumption == Capacities \subseteq Nat \ {0}
ASSUME SeenFactorAssumption == SeenFactor \in Nat \ {0}
ASSUME MaxClaimsAssumption  == MaxClaims \in Nat

Settings == [queue_capacity : Capacities, queue_mode : BOOLEAN]

VARIABLES
  \* SQLite, survives a crash
  chat_messages,   \* waiting messages; the row with the smallest id is on air
  chat_seen,       \* claimed platform identities
  dropped,         \* chat_state.dropped
  nextMessageId,   \* AUTOINCREMENT of chat_messages
  nextSeenId,      \* AUTOINCREMENT of chat_seen
  settings,        \* the chat part of the saved configuration
  \* the process
  phase,           \* "down", "opened" (from_database returned) or "up"
  capacity,        \* ChatInbox.capacity
  queueMode,       \* ChatInbox.queue_mode
  inFlight,        \* configurations saved whose ApplyConfig is not handled yet
  \* history, read by no action
  offered,         \* messages the inbox answered with Accepted or Dropped
  released         \* messages an operator acknowledged or cleared

durable == <<chat_messages, chat_seen, dropped, nextMessageId, nextSeenId>>
process == <<phase, capacity, queueMode, inFlight>>
history == <<offered, released>>
vars    == <<durable, settings, process, history>>

Row == [id : Nat, msg : Message]

----------------------------------------------------------------------------
(* Queries and statements on a table *)

\* ORDER BY id ASC LIMIT 1 OFFSET k: a singleton, or empty past the end.
AtOffset(table, k) ==
  {r \in table : Cardinality({s \in table : s.id < r.id}) = k}

\* Mutant: the row on air falls inside the deleted range.
DeleteFromCurrent(table, low, high) == {r \in table : ~(low <= r.id /\ r.id < high)}

\* DELETE ... WHERE id > low AND id < high
Delete(table, low, high) == {r \in table : ~(low < r.id /\ r.id < high)}

\* message_seen
Seen(m) == \E r \in chat_seen : r.msg = m

\* Mutant: the boundary row goes too.
TrimSeenInclusive(table, keep) ==
  {r \in table : \A boundary \in AtOffset(table, keep) : r.id > boundary.id}

\* trim_seen: the ids below the row at offset `keep` of the ascending order go.
TrimSeen(table, keep) ==
  {r \in table : \A boundary \in AtOffset(table, keep) : r.id >= boundary.id}

Excess(table, cap) ==
  IF Cardinality(table) > cap THEN Cardinality(table) - cap ELSE 0

\* Mutant: no early return when there is nothing to delete.
CanEvictAlways(table, amount) == AtOffset(table, amount + 1) # {}

\* delete_oldest_waiting_messages fails when no row is left at the boundary.
CanEvict(table, amount) == amount = 0 \/ AtOffset(table, amount + 1) # {}

EvictOldestWaiting(table, amount) ==
  IF amount = 0
  THEN table
  ELSE {r \in table : \A current \in AtOffset(table, 0),
                         boundary \in AtOffset(table, amount + 1) :
                           r \in Delete(table, current.id, boundary.id)}

\* Mutant: the trimmed messages are not added to the dropped counter.
TrimToCapacityUncounted(cap) ==
  LET excess == Excess(chat_messages, cap)
  IN  /\ CanEvict(chat_messages, excess)
      /\ chat_messages' = EvictOldestWaiting(chat_messages, excess)
      /\ dropped' = dropped

\* trim_to_capacity on the tables, when it commits.
TrimToCapacity(cap) ==
  LET excess == Excess(chat_messages, cap)
  IN  /\ CanEvict(chat_messages, excess)
      /\ chat_messages' = EvictOldestWaiting(chat_messages, excess)
      /\ dropped' = dropped + excess

CanTrim(cap) == CanEvict(chat_messages, Excess(chat_messages, cap))

----------------------------------------------------------------------------
(* Deliveries *)

\* claim_message followed by trim_seen, at the head of both transactions that
\* take a platform message.
Claim(m) ==
  /\ nextSeenId <= MaxClaims
  /\ ~Seen(m)
  /\ chat_seen' = TrimSeen(chat_seen \cup {[id |-> nextSeenId, msg |-> m]},
                           SeenFactor * capacity)
  /\ nextSeenId' = nextSeenId + 1

\* Mutant: ids are not AUTOINCREMENT, the last one is used again.
InsertSameId(table, m) ==
  /\ chat_messages' = table \cup {[id |-> nextMessageId, msg |-> m]}
  /\ UNCHANGED nextMessageId

Insert(table, m) ==
  /\ chat_messages' = table \cup {[id |-> nextMessageId, msg |-> m]}
  /\ nextMessageId' = nextMessageId + 1

Full == queueMode /\ Cardinality(chat_messages) >= capacity

\* Mutant: the newest waiting message makes room.
NewestWaiting == AtOffset(chat_messages, Cardinality(chat_messages) - 1)

\* remove_oldest_waiting: the row after the one on air.
OldestWaiting == AtOffset(chat_messages, 1)

\* enqueue, the queue has room (or queue mode is off).
EnqueueAppend(m) ==
  /\ phase = "up"
  /\ ~Full
  /\ Claim(m)
  /\ Insert(chat_messages, m)
  /\ offered' = offered + 1
  /\ UNCHANGED <<dropped, settings, process, released>>

\* enqueue, full: the oldest waiting message makes room.
EnqueueEvict(m) ==
  /\ phase = "up"
  /\ Full /\ capacity # 1
  /\ Claim(m)
  /\ Insert(chat_messages \ OldestWaiting, m)
  /\ dropped' = dropped + 1
  /\ offered' = offered + 1
  /\ UNCHANGED <<settings, process, released>>

\* enqueue, full with room for the on-air message only: the new one is dropped.
EnqueueDrop(m) ==
  /\ phase = "up"
  /\ Full /\ capacity = 1
  /\ Claim(m)
  /\ dropped' = dropped + 1
  /\ offered' = offered + 1
  /\ UNCHANGED <<chat_messages, nextMessageId, settings, process, released>>

\* record_poll_vote claims a message that never enters the inbox.
RecordPollVote(m) ==
  /\ phase = "up"
  /\ Claim(m)
  /\ UNCHANGED <<chat_messages, dropped, nextMessageId, settings, process, history>>

----------------------------------------------------------------------------
(* The operator *)

\* acknowledge(expected): only the message that is on air now.
Acknowledge(expected) ==
  /\ phase = "up"
  /\ \E r \in AtOffset(chat_messages, 0) :
       /\ r.id = expected
       /\ chat_messages' = chat_messages \ {r}
  /\ released' = released + 1
  /\ UNCHANGED <<chat_seen, dropped, nextMessageId, nextSeenId, settings, process, offered>>

ClearMessages ==
  /\ phase = "up"
  /\ chat_messages # {}
  /\ chat_messages' = {}
  /\ released' = released + Cardinality(chat_messages)
  /\ UNCHANGED <<chat_seen, dropped, nextMessageId, nextSeenId, settings, process, offered>>

\* A configuration update is durable before the actor hears of it.
SaveSettings(s) ==
  /\ phase = "up"
  /\ settings # s
  /\ settings' = s
  /\ inFlight' = inFlight \cup {s}
  /\ UNCHANGED <<durable, phase, capacity, queueMode, history>>

\* handle_apply_config: resize trims under the old queue mode, set_queue_mode
\* under the new one.
ApplyConfig(s) ==
  /\ phase = "up"
  /\ s \in inFlight
  /\ inFlight' = inFlight \ {s}
  /\ capacity' = s.queue_capacity
  /\ queueMode' = s.queue_mode
  /\ LET keep    == SeenFactor * s.queue_capacity
         resized == IF queueMode THEN TrimSeen(chat_seen, keep) ELSE chat_seen
     IN  chat_seen' = IF s.queue_mode THEN TrimSeen(resized, keep) ELSE resized
  /\ IF queueMode \/ s.queue_mode
     THEN TrimToCapacity(s.queue_capacity)
     ELSE UNCHANGED <<chat_messages, dropped>>
  /\ UNCHANGED <<nextMessageId, nextSeenId, settings, phase, history>>

\* The first trim fails and rolls back: the assignment before it stays, what
\* follows it is skipped.
ApplyConfigFails(s) ==
  /\ phase = "up"
  /\ s \in inFlight
  /\ queueMode \/ s.queue_mode
  /\ ~CanTrim(s.queue_capacity)
  /\ inFlight' = inFlight \ {s}
  /\ capacity' = s.queue_capacity
  /\ queueMode' = TRUE
  /\ UNCHANGED <<durable, settings, phase, history>>

----------------------------------------------------------------------------
(* The process *)

Crash ==
  /\ phase # "down"
  /\ phase' = "down"
  /\ inFlight' = {}
  /\ UNCHANGED <<durable, settings, capacity, queueMode, history>>

\* from_database: queue mode is on until the configuration is applied.  An
\* inbox that cannot be trimmed fails the start-up, and the process stays down.
Open ==
  /\ phase = "down"
  /\ TrimToCapacity(settings.queue_capacity)
  /\ chat_seen' = TrimSeen(chat_seen, SeenFactor * settings.queue_capacity)
  /\ capacity' = settings.queue_capacity
  /\ queueMode' = TRUE
  /\ phase' = "opened"
  /\ UNCHANGED <<nextMessageId, nextSeenId, settings, inFlight, history>>

\* AppHandle::new applies the saved configuration before anything is served.
\* resize trims (a no-op on the messages here) and so does set_queue_mode(true).
StartUp ==
  /\ phase = "opened"
  /\ TrimToCapacity(settings.queue_capacity)
  /\ LET keep    == SeenFactor * settings.queue_capacity
         resized == TrimSeen(chat_seen, keep)
     IN  chat_seen' = IF settings.queue_mode THEN TrimSeen(resized, keep) ELSE resized
  /\ queueMode' = settings.queue_mode
  /\ phase' = "up"
  /\ UNCHANGED <<nextMessageId, nextSeenId, settings, capacity, inFlight, history>>

----------------------------------------------------------------------------
Init ==
  /\ chat_messages = {} /\ chat_seen = {} /\ dropped = 0
  /\ nextMessageId = 1 /\ nextSeenId = 1
  /\ settings \in Settings
  /\ phase = "down"
  /\ capacity = settings.queue_capacity
  /\ queueMode = TRUE
  /\ inFlight = {}
  /\ offered = 0 /\ released = 0

Enqueue(m) == EnqueueAppend(m) \/ EnqueueEvict(m) \/ EnqueueDrop(m)

Next ==
  \/ \E m \in Message : Enqueue(m) \/ RecordPollVote(m)
  \/ \E expected \in 1 .. MaxClaims : Acknowledge(expected)
  \/ ClearMessages
  \/ \E s \in Settings : SaveSettings(s) \/ ApplyConfig(s) \/ ApplyConfigFails(s)
  \/ Crash \/ Open \/ StartUp

Spec == Init /\ [][Next]_vars

----------------------------------------------------------------------------
(* Properties *)

\* The rows of a table have distinct ids below the next AUTOINCREMENT value.
WellFormed(table, next) ==
  /\ table \subseteq Row /\ IsFiniteSet(table)
  /\ \A r \in table : r.id \in 1 .. next - 1
  /\ \A r, s \in table : r.id = s.id => r = s

\* Type invariant: the tables are keyed by id, the ids come from the counters.
TypeOK ==
  /\ WellFormed(chat_messages, nextMessageId)
  /\ WellFormed(chat_seen, nextSeenId)
  /\ dropped \in Nat
  /\ nextMessageId \in Nat \ {0} /\ nextSeenId \in Nat \ {0}
  /\ settings \in Settings
  /\ phase \in {"down", "opened", "up"}
  /\ capacity \in Capacities
  /\ queueMode \in BOOLEAN
  /\ inFlight \subseteq Settings
  /\ offered \in Nat /\ released \in Nat

\* No message is lost without a trace (enqueue, trim_to_capacity, acknowledge,
\* clear_messages, across restarts): what the inbox took is still queued, was
\* released by the operator, or is in the "dropped" counter of the dashboard.
EveryMessageAccounted ==
  offered = Cardinality(chat_messages) + dropped + released

\* In queue mode the table never holds more than the capacity in force
\* (enqueue, resize, set_queue_mode, from_database); capacity 1 is another
\* matter, see RestartAlwaysPossible.
QueueBounded ==
  (phase # "down" /\ queueMode /\ capacity > 1)
    => Cardinality(chat_messages) <= capacity

\* A restart under a saved capacity above 1 is always possible: from_database
\* can trim whatever the crash left in the table.
RestartPossible ==
  (phase = "down" /\ settings.queue_capacity > 1) => CanTrim(settings.queue_capacity)

\* The same for every capacity the configuration accepts (config.rs:124).  It
\* does not hold: with capacity 1 the eviction boundary of a longer inbox is
\* missing, and the program does not start again.
RestartAlwaysPossible ==
  phase = "down" => CanTrim(settings.queue_capacity)

\* The newest claim survives every trim_seen, so the immediate redelivery of a
\* message (a webhook retry, also across a restart) is always recognised.
LatestClaimRemembered ==
  nextSeenId > 1 => \E r \in chat_seen : r.id = nextSeenId - 1

\* chat_seen stays within the window of the largest capacity ever configured,
\* although trim_seen runs with whatever capacity is in force at the time.
SeenBounded ==
  \E c \in Capacities : Cardinality(chat_seen) <= SeenFactor * c

\* The message on air is replaced only by its acknowledgement or by a clear:
\* no eviction, resize, restart or mode change takes it (chat.rs, comment of
\* remove_oldest_waiting).
OnAirMovesOnlyByOperator ==
  [][\A r \in AtOffset(chat_messages, 0) :
       \/ r \in AtOffset(chat_messages', 0)
       \/ Acknowledge(r.id)
       \/ ClearMessages]_vars

\* A platform message is in the inbox at most once (claim_message, trim_seen).
NoMessageTwice ==
  \A r, s \in chat_messages : r.msg = s.msg => r = s

\* The inbox implements the display queue it promises.
Display == INSTANCE DisplayQueue
  WITH queue  <- {r.id : r \in chat_messages},
       issued <- nextMessageId - 1,
       lost   <- dropped

ImplementsDisplayQueue == Display!Spec

=============================================================================
