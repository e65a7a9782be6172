CONSTANTS
    None = None
    Request <- MCFewRequests
    Config <- MCTwoConfigs
    MaxStsBody = 2
SPECIFICATION Spec
INVARIANT AcceptedByOneConfig
