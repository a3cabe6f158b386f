\* Two documents, one of them without text, two deletions at a time.
CONSTANTS
    Docs = {d1, d2}
    Blank = {d2}
    Requests = {r1, r2}

SPECIFICATION Spec

INVARIANTS
    TypeOK
    StatusIsTrue
    PurgedStaysPurged

PROPERTIES
    DocumentsSettle
