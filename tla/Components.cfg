CONSTANTS
    None = None
    c1 = c1
    c2 = c2
    r1 = r1
    r2 = r2
    NoSig = NoSig
    Junk = Junk
    MaxFile = 4
    Trailers = {"canonical", "padded", "epilogue", "cut"}
    Byte = {0, 1}
    Signed <- MCSigned
    Length = {0, 2, 3}
    MaxFrame = 4
    MaxFrames = 3
    MaxSize = 2
    MaxTicks = 6
    MaxPattern = 4
    MaxInput = 4
    MaxLength = 4
    MaxText = 300
    MAX_INPUT_LEN = 260
    Connection <- MCConnection
    Request <- MCRequest
    Owner <- MCOwner
    Fields <- MCFields
    Responses <- MCResponses
    Wire <- MCWire
    Declared <- MCSizes
    Limits <- MCSizes
    XmlMax = 3
    MaxErrors = 2
    Star = 8
    Question = 9
    Never = 99
    PatternLists <- MCPatternLists
    Inputs <- MCInputs
    Lengths <- MCLengths
    CopyLengths <- MCLengths
    Ranges <- MCRanges
    Capacity = 2
    I64Max = 7
    Texts <- MCTexts
    MAX_ENCODED_WORD_LEN = 75
    Overhead = 12
    Input <- MCChunkedBodies
    MaxMeta = 2
    MaxChunk = 3
    MaxTrailers = 6
    MaxHeaders = 3
    Form <- MCForms
    Documents <- MCPolicies
    MaxParts = 4
    MaxFieldSize = 2
    MaxFieldsSize = 3
    ConfigMax = 3
    Closing = 2
SPECIFICATION MCSpec
INVARIANTS
    NoWholeBodyUnverified
    ResponsesArrive
    BodyIntact
    OneDocument
    ScanDecides
    ReplyIsTheRange
    WordsAreTheText
    AuthenticPrefix
    EndIsWhole
    TrailersAuthentic
    SplitIndependent
    AcceptedSatisfiesPolicy
    EnforcedPolicyIsSigned
    StoredIsWhole
PROPERTIES
    ShutdownReturns
    UploadConsumed
    Terminates
