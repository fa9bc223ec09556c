SPECIFICATION SharableSpec
CONSTANTS
    alice = alice
    bob = bob
    transient = transient
    m0 = m0
    m1 = m1
    m2 = m2
    m3 = m3
    m4 = m4
    email = email
    country = country
    unknown = unknown
    None = None
    Key <- MCKey
    CipherKey <- MCCipherKey
    Payload <- MCPayload
    MaxPublished = 8
    Name <- MCName
    Certified = {email, country}
    Sensitive = {email}
    Referring = {email}
    Request <- MCRequest
    Web <- MCWeb
    Transient = transient
    Foreign <- MCForeign
SYMMETRY Interchangeable
INVARIANTS
    ShownIsCertified
    RecipientsRead
    NeverInTheClear
PROPERTIES
    StepsOfDocument
