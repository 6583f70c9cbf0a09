\* A User is created again while another replica deletes for the one before.
SPECIFICATION Spec
CONSTANTS
    Objects = {o1}
    Procs = {p1, p2}
    SecretRefs = {r1}
    ForeignSecrets = {}
    NoName = NoName
    MaxDisturbances = 4
    Configs <- OneConfig
PROPERTIES
    LiveUsersKeepTheirSecret
CHECK_DEADLOCK FALSE
