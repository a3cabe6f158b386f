\* One document, one deletion.
CONSTANTS
    Docs = {d1}
    Blank = {}
    Requests = {r1}

SPECIFICATION Spec

PROPERTY DeletedLeavesNoVectors
