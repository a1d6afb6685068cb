SPECIFICATION MCSpec
CONSTANTS
    MaxConnects = 2
    MaxSends = 2
    MaxTexts = 3
    TextLength = 2
    Connections = {c1}
    TextStreams <- SampleTexts
    PackageStreams <- SamplePackages
    ServerPackages <- SampleServerPackages
    PackageConnects = 2
    PackageSends = 1
    Payload = 1
    HeaderSize = 2
    TextChunk = 2
    TextLimit = 3
    PackageChunk = 4
    PackageLimit = 6
    Subjects = {"package server"}
INVARIANT IncompletePackagesWait
