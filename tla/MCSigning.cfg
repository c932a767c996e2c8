\* An endpoint that is moved between two consumers under a delivery.
SPECIFICATION FairSpec
CONSTANTS
    u1 = u1
    u2 = u2
    s1 = s1
    s2 = s2
    NoSecret = NoSecret
    None = None
    Urls = {u1, u2}
    Secrets = {s1, s2}
    Homes <- ThreeHomes
    Typed = {u2}
    MaxAttempts = 2
    Tolerance = 0
    Skews <- SomeSkews
INVARIANTS
    TypeOK
    SecretFollowsUrl
PROPERTIES
    AnswersNameADefect
    EventuallyDelivered
