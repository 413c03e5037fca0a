CONSTANTS
    c1 = c1  c2 = c2
    k1 = k1  k2 = k2
    index = index  image = image
    latest = latest
    plain = plain  annotated = annotated
    Keyless = Keyless
    Calls = {c1, c2}
    Keys = {k1, k2}
    Digests = {index, image}
    Tags = {latest}
    Annotations = {plain, annotated}
    MaxAttempts = 2
    Preorder <- MCPreorder
    Inputs <- ByTag
SPECIFICATION Spec
INVARIANTS
    OutputDigestIsSigned
