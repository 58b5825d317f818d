SPECIFICATION Spec
CONSTANTS
    Off = Off
    Files <- SomeFiles
    Specs <- SomeSpecs
    Contents <- SomeContents
    MaxHead = 2
    Entries <- SomeEntries
    PageSize = 2
    MaxChanges = 2
    Bodies <- SomeBodies
    PeekBytes = 3
    Partitions <- SomePartitions
    MaxOffset = 2
    Characters <- SomeCharacters
    Letters <- SomeLetters
    ShaLen = 2
    Namings <- SomeNamings
    Repos <- SomeRepos
    Parts <- SomeParts
    MaxParts = 3
    Absent = Absent
    NoBucket = NoBucket
    Closed = Closed
    Unset = Unset
    Invalid = Invalid
CHECK_DEADLOCK FALSE
INVARIANTS
    GateAnswersAtOneMoment
    GateErrorsHaveACause
    FetchMissesBounded
    TransportSameBody
    MemDBNothingForgotten
    NamesSlugIsClean
    NamesFit
    NamesTellHeadsApart
    RoutingNoRouteLost
PROPERTIES
    MemDBViewIsStable
    MemDBImplementsOffsets
    RoutingRoutesStay
