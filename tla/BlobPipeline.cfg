CONSTANTS
    c1 = c1  c2 = c2  v1 = v1  k1 = k1  blob = blob  old = old  new = new
    fileA = fileA  fileB = fileB  fileC = fileC  fileD = fileD
    alice = alice  bob = bob  private = private
    PublicGood = PublicGood  NoOne = NoOne
    Calls = {c1, c2}
    Keys = {k1}
    Keyless = Keyless
    Contents = {old, new}
    Blobs = {blob}
    Paths = {fileA, fileB, fileC, fileD}
    Inputs <- MCInputs
    Verifications = {v1}
    Identity <- MCIdentity
    Authorities = {PublicGood, private}
    Authority <- MCAuthority
    Distributed <- MCDistributed
    VerifyInputs <- MCVerifyInputs
SPECIFICATION PipelineSpec
SYMMETRY Symmetry
CONSTRAINTS Related VerificationAhead
INVARIANTS
    TypeOK
    VerifyTypeOK
    SuccessIsComplete
    FailureLeavesPrefix
    DigestIsOfSignedBytes
    LoggedBeforeWritten
    AcceptedWasSigned
    AcceptedWasLogged
    AcceptedByGivenCertificate
    TempsAreRemoved
    SignedThenVerifies
