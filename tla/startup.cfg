\* Every version of the metadata service, targets of every kind, names that are
\* too long in the configuration and in the answer.
CONSTANTS
    Configurations <- MCConfigurations
    Services <- MCServices
    Ids = {"i-1", "long"}
    LongInstances = {"long"}
    LongResources = {"long"}
SPECIFICATION FairSpec
INVARIANTS Identified EndpointsAgree
PROPERTIES FallsBack Settles
\* The start has an end.
CHECK_DEADLOCK FALSE
