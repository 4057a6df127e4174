\* A session with an AIC certificate: issued, validated, named, intersected.
SPECIFICATION Spec
CONSTANTS
    KeyHashes <- MCKeyHashes
    HashLen <- MCHashLen
    Digest <- MCDigest
    Limits <- MCLimits
    Orders <- MCOrders
    Certificates <- MCCertificates
    Requests <- MCRequests
    NoOrder = NoOrder
    Nil = Nil
INVARIANTS
    TypeOK
    IntersectionExact
    DoubleStarMeans
    IdentitySurvives
CHECK_DEADLOCK FALSE
