\* Every question, view and search, with two failures or broken connections.
CONSTANTS
    a = a  b = b  p = p
    Own = Own  Public = Public
    Everything = Everything
    Documents <- MCDocs
    PublicDocs <- MCPublicDocs
    Corpora <- MCCorpora
    Windows <- MCWindows
    MaxChunks = 3
    MaxChars = 5
    Depth = 1
    MaxParts = 2
    MaxFaults = 2
SPECIFICATION FairRequestSpec
INVARIANTS ToldIsTrue EvidenceIsFair ViewIsSound
PROPERTY Settles
CHECK_DEADLOCK FALSE
