SPECIFICATION Spec
CONSTANTS
    Fetchers = {fetch1}
    Verifiers = {}
    Checkers = {check1}
    Names <- SerialNames
    Deletable <- SerialDeletable
    LongNames = {}
    Contents <- MCContents
    Decodable <- MCDecodable
    Hashes <- MCHashes
    Digest <- MCDigest
    Certs <- MCCerts
    Status <- MCStatus
    NumReleases = 3
    Release <- SerialRelease
    Absent = Absent
    NoIndex = NoIndex
    MaxFaults = 1
INVARIANTS TypeOK IndexSound  VerdictSound 
PROPERTIES  ImplementsAtomic
