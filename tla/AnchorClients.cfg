SPECIFICATION ClientsSpec
CONSTANTS
    None = None
    alice = alice
    bob = bob
    client = client
    Roots = 2
    Id = {1, 2}
    Signable <- HasCanonicalText
    MaxU32 = 99
    MaxCalls = 2
    Content <- ContentValue
    Queries <- QueriesValue
    Stored <- StoredValue
    Calls <- CallsValue
    Responses <- ResponsesValue
    MaxSafeInteger = 9
    MaxNodes = 16
    DefaultRetryMs = 3
    KycContent <- KycContentValue
    KycQueries <- KycQueriesValue
    KycStored <- KycStoredValue
    KycCalls <- KycCallsValue
    KycResponses <- KycResponsesValue
    Country <- CountryValue
    NoUrl = {"nonsense"}
    Presigned = {"https://signed?sig"}
    Signer = client
CHECK_DEADLOCK FALSE
INVARIANTS
    FoundByHighestRoot
    SignedAlike
    AsAdvertised
    OutcomeIsMeant
