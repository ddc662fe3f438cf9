CONSTANTS
    Streams <- SharedConnection
    PoolSize = 1
    BatchNum = 2
    MqBatchSize = 1
    ChCap = 2
    PublishCap = 1
    MaxMade <- MessagesMade
    MaxDrops = 1
SPECIFICATION FairSpec
INVARIANTS
    PublisherTypeOK
    NeverShort
    EachInOneBatch
    BrokerInOrder
PROPERTY
    AllHanded
CHECK_DEADLOCK FALSE
