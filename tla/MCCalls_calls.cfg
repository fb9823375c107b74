SPECIFICATION FairSpec
CONSTANTS
    r1 = r1
    r2 = r2
    RPCs = {r1, r2}
    NoRPC = NoRPC
    Kinds <- MCKinds
    VUTags = {"setup", "group"}
    FirstTags = "setup"
    IPs = {"ip1"}
    NoIP = NoIP
    SystemTags = {"ip", "status"}
    MaxAttempts <- MCMaxAttempts
    Fields = {"x"}
INVARIANTS
    TypeOK
    OneSampleEach
    SampleIsOwn
    StatusAgrees
    StreamSamplesAgree
    InvokeAnswers
    CrashIsNull
    WaitsGoOn
PROPERTIES
    OneLateSample
    CallsReturn
CHECK_DEADLOCK FALSE
