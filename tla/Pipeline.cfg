CONSTANTS
    None = None
    Request <- MCRequest
    Config <- MCConfig
    MaxStsBody = 2
SPECIFICATION Spec
INVARIANTS
    AuthorisedFirst
    HandlerReadsSignedPayload
    BodyAsDeclared
    ClaimsOfOneSnapshot
