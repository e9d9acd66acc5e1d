SPECIFICATION Spec
CONSTANTS
    Clients = {c1}
    Sources = {"tpm", "sev", "nitro", "soft"}
    Classes = {"genuine", "unchained", "oldTcb", "debuggable"}
    MaxNonces = 2
    MaxReports = 2
    Interval = 2
    MaxAge = 1
INVARIANTS
    AcceptedIsQuoted
    HonestReportVerifies
    GateIsRecent
