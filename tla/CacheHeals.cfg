SPECIFICATION FairSpec
CONSTANTS
    Fetchers = {fetch1, fetch2}
    Verifiers = {}
    Checkers = {}
    Names <- SmallNames
    Deletable <- SmallNames
    LongNames = {}
    Contents <- SmallContents
    Decodable <- SmallDecodable
    Hashes <- MCHashes
    Digest <- SmallDigest
    Certs <- MCCerts
    Status <- SmallStatus
    NumReleases = 2
    Release <- SmallRelease
    Absent = Absent
    NoIndex = NoIndex
    MaxFaults = 1
PROPERTIES Heals Tidied
