CONSTANTS Inputs <- MCInputs
SPECIFICATION Spec
CHECK_DEADLOCK FALSE
INVARIANTS
    NeverShellsOut
    UploadsWereAnnounced
    WhatIfAgrees
    WhatIfErrorsAgree
    VerifyIsPinned
