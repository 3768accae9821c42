SPECIFICATION Spec
CONSTANTS
    MaxPrefixes = 2
    Chunks = {1, 2, 3}
    Prompts <- MCPrompts
    MaxRequests = 6
    MaxOpen = 2
INVARIANTS TypeOK LiveIsCached ExternalNeverHits
PROPERTIES LeakOnlyByRepeats
