SPECIFICATION FairSpec
CONSTANTS
    first = first
    again = again
    late = late
    reused = reused
    other = other
    k1 = k1
    k2 = k2
    p1 = p1
    p2 = p2
    None = None
    Request <- MCRequest
    Identity <- MCIdentity
    Payload <- MCPayload
    IdentityOf <- MCIdentityOf
    PayloadOf <- MCPayloadOf
INVARIANTS
    EffectMatchesReceipt
    AnswerIsBacked
PROPERTIES
    EveryRequestIsAnswered
    ImplementsOnce
\* all requests are answered in the end
CHECK_DEADLOCK FALSE
