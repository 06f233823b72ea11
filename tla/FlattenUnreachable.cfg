SPECIFICATION FairSpec
CONSTANTS
    Timeout = 2
    MaxUpdates = 2
PROPERTIES ConfirmFlattens
