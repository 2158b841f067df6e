SPECIFICATION FairSpec
CONSTANTS
    Size = 2
    MaxOut = 6
    MaxIn = 7
    MaxBegins = 2
    MaxErrors = 1
INVARIANTS HalvesApart SentInOrder InputInOrder
PROPERTIES Sent Resumes
CHECK_DEADLOCK FALSE
