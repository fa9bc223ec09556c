SPECIFICATION CertificateSpec
CONSTANTS
    Bad = Bad
    subject = subject
    other = other
    network = network
    elsewhere = elsewhere
    Key = {subject, other, network}
    Encrypting = {subject, other}
    Identified = {subject, other}
    OidNamed <- OidNamedValue
    Dotted <- DottedValue
    DigestAlgorithm <- DigestAlgorithmValue
    Encryption <- EncryptionValue
    Offered <- OfferedValue
    SensitiveOid <- SensitiveOidValue
    PlainOid <- PlainOidValue
    ValueType <- ValueTypeValue
    Foreign <- ForeignValue
    Certificate <- CertificateValue
    Issuers <- IssuersValue
    ValidAt <- ValidAtValue
    Record <- RecordValue
    Trusted = {"root"}
    Moment = {0, 1}
    Encode <- EncodeValue
    Decode <- DecodeValue
    ReferencesIn <- Collect
    Accepts <- Encodable
    Reads <- Canonical
    Mentions <- BlobsIn
    MaxProofs = 1
    MaxInputs = 3
CHECK_DEADLOCK FALSE
INVARIANTS
    ReadsWhatWasCertified
    ProofBinds
    ReferencesSurvive
    TrustedIsAnchored
