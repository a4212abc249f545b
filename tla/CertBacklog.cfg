CONSTANTS
    Rotators = {r1}
    MaxCerts = 3
    MaxPending = 2
    MaxMishaps = 1
SPECIFICATION CertSpec
PROPERTY BacklogPreserved
CHECK_DEADLOCK FALSE
