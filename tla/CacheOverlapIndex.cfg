SPECIFICATION Spec
CONSTANTS
    Fetchers = {fetch1, fetch2}
    Verifiers = {}
    Checkers = {}
    Names <- MCNames
    Deletable <- MCNames
    LongNames = {}
    Contents <- MCContents
    Decodable <- MCDecodable
    Hashes <- MCHashes
    Digest <- MCDigest
    Certs <- MCCerts
    Status <- MCStatus
    NumReleases = 2
    Release <- MCRelease2
    Absent = Absent
    NoIndex = NoIndex
    MaxFaults = 0
INVARIANT IndexSound
SYMMETRY Symmetry
