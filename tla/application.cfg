\* One process from its start to its end, in five environments.
SPECIFICATION Spec

CONSTANTS
    None = None
    Environment <- Environments
    Requests <- AllRequests

INVARIANT TypeOK
INVARIANT OwnEndpoint
INVARIANT OversizedUnread
INVARIANT ReadableAcrossOrigins
INVARIANT PlainOnlyFromWrites
INVARIANT SpecsAsDocumented
INVARIANT SyntheticzHonest
INVARIANT NothingStranded
INVARIANT DisabledIsSilent
