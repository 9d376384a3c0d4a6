---------------------------- MODULE LogDelivery -----------------------------
(***************************************************************************)
(* The queue's half of the log pipeline: LogPipeline.Consume, persist and  *)
(* LogMessagePrimaryKey (biz/base_log.go).                                 *)
(*                                                                         *)
(* The queue delivers a message until a consumer returns nil for it, maybe *)
(* to several consumers at once; a consumer may die at any point.  A store *)
(* call may fail, and may fail although the row was written.  persist      *)
(* makes the row's primary key from the message's id, so that delivering   *)
(* again writes nothing twice.                                             *)
(***************************************************************************)
EXTENDS Integers, FiniteSets

CONSTANTS
    Consumers,     \* goroutines that run Consume, in any process
    Messages,      \* the messages of LogEventStream: the kind of event and the id
    NoID,          \* the id of a message the queue gave none
    SequenceLimit, \* 1 << messageSequenceBits
    MaxKey,        \* math.MaxInt64
    Hash(_),       \* the FNV hash of an id, without its sign bit
    MaxDeliveries  \* bound: deliveries of each message

\* Ids that parse as a time and a sequence number; any other id but NoID is a
\* string that does not.
StreamID == [ts : Int, seq : Int]

\* The kinds of event persist has a table for; it refuses any other, and Consume a
\* message it cannot parse.
Tables == {"api", "policy_evaluation"}

ASSUME DeliveryConstants ==
    /\ SequenceLimit \in Nat \ {0} /\ MaxKey \in Nat /\ MaxDeliveries \in Nat
    /\ MaxKey = (MaxKey \div SequenceLimit) * SequenceLimit + SequenceLimit - 1
    /\ MaxKey > 0 /\ NoID \notin StreamID
    /\ \A m \in Messages : Hash(m.id) \in 0..MaxKey

-----------------------------------------------------------------------------
\* Mutant: the sequence number may be one too large.
FitsOneMore(id) ==
    /\ id \in StreamID
    /\ id.ts > 0 /\ id.ts \leq MaxKey \div SequenceLimit
    /\ id.seq \in 0..SequenceLimit

\* Whether the time and the sequence number of the id fit in a key.
Fits(id) ==
    /\ id \in StreamID
    /\ id.ts > 0 /\ id.ts \leq MaxKey \div SequenceLimit
    /\ id.seq \in 0..(SequenceLimit - 1)

\* Mutant: an id that does not fit is treated as none.
PrimaryKeyWithoutHash(id) ==
    IF id # NoID /\ Fits(id) THEN id.ts * SequenceLimit + id.seq ELSE 0

\* LogMessagePrimaryKey: 0 leaves the key to the table.
PrimaryKey(id) ==
    CASE id = NoID              -> 0
      [] id # NoID /\ Fits(id)  -> id.ts * SequenceLimit + id.seq
      [] id # NoID /\ ~Fits(id) -> IF Hash(id) = 0 THEN 1 ELSE Hash(id)

\* No two events of one table have the same key: hashes do not collide.
ASSUME DistinctKeys ==
    \A m, n \in Messages :
        m # n /\ m.kind = n.kind /\ PrimaryKey(m.id) # 0 => PrimaryKey(m.id) # PrimaryKey(n.id)

-----------------------------------------------------------------------------
VARIABLES
    creating,   \* <<c, m>>: consumer c handles m and is about to insert its row
    checking,   \* <<c, m>>: the insert failed, and c is about to look the row up
    keys,       \* the primary keys in each table, but for those it made itself
    rows,       \* how many rows hold each message
    acked,      \* messages a consumer returned nil for
    deliveries  \* deliveries of each message so far

deliveryVars == <<creating, checking, keys, rows, acked, deliveries>>

Persisted == {m \in Messages : m.kind \in Tables}

DeliveryTypeOK ==
    /\ creating \in SUBSET (Consumers \X Persisted)
    /\ checking \in SUBSET (Consumers \X {m \in Persisted : m.id # NoID})
    /\ keys \in [Tables -> SUBSET Int]
    /\ rows \in [Messages -> Nat]
    /\ acked \in SUBSET Persisted
    /\ deliveries \in [Messages -> Nat]

DeliveryInit ==
    /\ creating = {} /\ checking = {}
    /\ keys = [t \in Tables |-> {}]
    /\ rows = [m \in Messages |-> 0]
    /\ acked = {}
    /\ deliveries = [m \in Messages |-> 0]

Idle(c) == \A m \in Messages : <<c, m>> \notin creating \cup checking

\* Consume, up to the store: the queue hands out a message nobody returned nil for.
Deliver(c, m) ==
    /\ Idle(c) /\ m \notin acked /\ deliveries[m] < MaxDeliveries
    /\ deliveries' = [deliveries EXCEPT ![m] = @ + 1]
    /\ creating' = IF m.kind \in Tables THEN creating \cup {<<c, m>>} ELSE creating
    /\ UNCHANGED <<checking, keys, rows, acked>>

\* The row is written: its key must not be in the table.
Write(m) ==
    LET key == PrimaryKey(m.id) IN
    /\ key = 0 \/ key \notin keys[m.kind]
    /\ keys' = IF key = 0 THEN keys ELSE [keys EXCEPT ![m.kind] = @ \cup {key}]
    /\ rows' = [rows EXCEPT ![m] = @ + 1]

\* persist, CreateAPI or CreatePolicyEvaluation: it succeeds, or fails with or
\* without having written; a failure is final when the message has no id.
Create(c, m) ==
    /\ <<c, m>> \in creating
    /\ creating' = creating \ {<<c, m>>}
    /\ \/ /\ Write(m)
          /\ acked' = acked \cup {m}
          /\ UNCHANGED checking
       \/ /\ Write(m) \/ UNCHANGED <<keys, rows>>
          /\ checking' = IF PrimaryKey(m.id) = 0 THEN checking ELSE checking \cup {<<c, m>>}
          /\ UNCHANGED acked
    /\ UNCHANGED deliveries

\* Mutant: a lookup that failed counts as a row that is there.
ExistsIgnoresError(c, m) ==
    /\ <<c, m>> \in checking
    /\ checking' = checking \ {<<c, m>>}
    /\ acked' = acked \cup {m}
    /\ UNCHANGED <<creating, keys, rows, deliveries>>

\* persist, ExistsAPI or ExistsPolicyEvaluation: nil when the row is there; the
\* error of the insert when it is not, and when the lookup itself fails.
Exists(c, m) ==
    /\ <<c, m>> \in checking
    /\ checking' = checking \ {<<c, m>>}
    /\ \/ PrimaryKey(m.id) \in keys[m.kind] /\ acked' = acked \cup {m}
       \/ UNCHANGED acked
    /\ UNCHANGED <<creating, keys, rows, deliveries>>

\* The consumer's process dies.
Die(c, m) ==
    /\ <<c, m>> \in creating \cup checking
    /\ creating' = creating \ {<<c, m>>}
    /\ checking' = checking \ {<<c, m>>}
    /\ UNCHANGED <<keys, rows, acked, deliveries>>

DeliveryNext ==
    \E c \in Consumers, m \in Messages :
        Deliver(c, m) \/ Create(c, m) \/ Exists(c, m) \/ Die(c, m)

DeliverySpec == DeliveryInit /\ [][DeliveryNext]_deliveryVars

-----------------------------------------------------------------------------
\* However often a message is delivered, and whatever fails, an event whose
\* message has an id is in its table at most once.
RecordedOnce ==
    \A m \in Messages : m.id # NoID => rows[m] \leq 1

\* A message the queue stops delivering, because Consume returned nil, is in its
\* table.
AckedIsRecorded == \A m \in acked : rows[m] \geq 1

\* The queue gave the one id before the other.
Before(id, next) == id.ts < next.ts \/ (id.ts = next.ts /\ id.seq < next.seq)

\* A recorded message with an id is found under its key, which is in the positive
\* int64 range; and rows of ids with a time and a sequence number are in the order
\* in which the queue took the messages.
KeysFollowQueue ==
    LET recorded == {m \in Messages : rows[m] > 0 /\ m.id # NoID} IN
    /\ \A m \in recorded : PrimaryKey(m.id) \in keys[m.kind] \cap 1..MaxKey
    /\ \A m, n \in recorded : Fits(m.id) /\ Fits(n.id) =>
          (Before(m.id, n.id) <=> PrimaryKey(m.id) < PrimaryKey(n.id))
=============================================================================
