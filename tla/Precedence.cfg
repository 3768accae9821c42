SPECIFICATION Spec
CONSTANTS
    Default <- MCDefault
    Kind <- MCKind
    Texts <- MCTexts
    Lines <- MCLines
    Profiles <- MCProfiles
INVARIANT PrecedenceIsKept
