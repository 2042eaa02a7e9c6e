SPECIFICATION FairSpec
CONSTANTS
    RedisConnect = 3
    RedisReply = 5
    Handshake = 3
    PgConnect = 3
    PgStatement = 5
    WorkMax = 1
    ErrorPause = 2
    ConnectPause = 3
    StartupPeriod = 3
    StartupFailures = 40
    LivePeriod = 10
    LiveFailures = 3
    MaxAge = 30
INVARIANTS
    TypeOK
PROPERTIES
    CalmNeverKilled
    GraceToConnect
    HungIsEnded
