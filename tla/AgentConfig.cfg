SPECIFICATION Spec
CONSTANTS
    None = None
    EmptyTag = EmptyTag
    Tags <- mc_Tags
    MachineTags <- mc_MachineTags
    Controllers = {"uuid"}
    Models = {"model"}
    Versions <- mc_Versions
    MongoVersions = {"3.2"}
    Secrets = {"p1", "p2"}
    Keys = {"key"}
    Addresses <- mc_Addresses
    Ports = {17070, 37017}
    Dirs = {"/var"}
    BetaConfigs <- mc_BetaConfigs
    Params <- mc_Params
    Infos <- mc_Infos
    AddressLists <- mc_AddressLists
    UUID = "uuid"
    MaxCalls = 5
INVARIANTS
    TypeOK
    WrittenConfReadsBack
    PasswordsAgree
    CloneUnaffected
PROPERTIES
    MongoPortKnown
CHECK_DEADLOCK FALSE
