SPECIFICATION Spec
CONSTANTS
    Procs = {proc1}
    Connections = {conn1}
    Certs <- MCCerts
    Policies <- MCPolicies
    Dirs <- MCDirs
    Named <- MCNamed
    Datasets = {"good", "stale", "bad"}
    Says <- MCSays
    Missing = Missing
    NoDir = NoDir
    Absent = Absent
    Bad = Bad
    Garbage = Garbage
    Hosts <- MCHosts
    MaxChanges = 1
    MaxRuns = 1
INVARIANT MissingDataAllowed
CHECK_DEADLOCK FALSE
