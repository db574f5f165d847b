\* A background process that holds the output of a command.
SPECIFICATION FairSpec
CONSTANTS
    a = a
    b = b
    NL = NL
    Chars = {a, b, NL}
    Absent = Absent
    MaxText = 4
    Contents <- SomeContents
    Snippets <- SomeSnippets
    Others <- SomeOthers
PROPERTIES
    BashReturns
CHECK_DEADLOCK FALSE
