SPECIFICATION PFairSpec
CONSTANTS
    Fetchers = {fetch1}
    Verifiers = {verify1}
    Checkers = {check1}
    Names <- MCNames
    Deletable <- MCNames
    LongNames = {}
    Contents <- MCContents
    Decodable <- MCDecodable
    Hashes <- MCHashes
    Digest <- MCDigest
    Certs <- MCCerts
    Status <- MCStatus
    NumReleases = 2
    Release <- MCRelease
    Absent = Absent
    NoIndex = NoIndex
    MaxFaults = 1
    Torn = "junk"
INVARIANTS VerdictSound VerifySound
PROPERTIES  Heals Tidied
