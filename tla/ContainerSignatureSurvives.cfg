SPECIFICATION Spec
CONSTANTS
    Key = {alice, bob}
    Payload = {p1, p2}
    CipherKey = {m1, m2}
    MaxPublished = 2
    None = None
PROPERTIES
    SignatureSurvives
