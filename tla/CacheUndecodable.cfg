SPECIFICATION Spec
CONSTANTS
    Fetchers = {fetch1}
    Verifiers = {}
    Checkers = {}
    Names <- MCNames
    Deletable <- MCNames
    LongNames = {}
    Contents <- MCContents
    Decodable <- MCDecodable
    Hashes <- MCHashes
    Digest <- MCDigest
    Certs <- MCCerts
    Status <- MCStatus
    NumReleases = 2
    Release <- MCReleaseJunk
    Absent = Absent
    NoIndex = NoIndex
    MaxFaults = 0
INVARIANT IndexSound
