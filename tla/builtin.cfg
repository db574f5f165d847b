\* Files of up to four characters, with edits, overwrites and commands.
SPECIFICATION FairSpec
CONSTANTS
    a = a
    b = b
    NL = NL
    Chars = {a, b, NL}
    Absent = Absent
    MaxText = 4
    Contents <- SomeContents
    Snippets <- SomeSnippets
    Others <- SomeOthers
INVARIANTS
    TypeOK
    EditReplaces
    PagesCover
PROPERTIES
    NoMixture
    CallEnds
CHECK_DEADLOCK FALSE
