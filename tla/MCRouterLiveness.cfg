SPECIFICATION FairSpec
CONSTANTS
    Server = {s1, s2}
    Local = {s1}
    Request = {r1}
    NoServer = NoServer
    NoRequest = NoRequest
    ErrorThreshold = 2
    HealthThreshold = 2
    MaxFaults = 3
PROPERTIES
    RequestAnswered
    ServersRecover
