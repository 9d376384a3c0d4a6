\* Six messages at the limits of the key, two consumers, each message delivered twice.
CONSTANTS
    Consumers = {c1, c2}
    Messages <- MCMessages
    NoID = NoID
    SequenceLimit = 4
    MaxKey = 63
    Hash <- MCHash
    MaxDeliveries = 2
SPECIFICATION DeliverySpec
SYMMETRY ConsumerSymmetry
INVARIANTS
    RecordedOnce
    AckedIsRecorded
    KeysFollowQueue
CHECK_DEADLOCK FALSE
