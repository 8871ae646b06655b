CONSTANTS
    Tags = {1, 2}
    DEFAULT_TAG = 1
    Texts = {"A", "B"}
    Plans <- ChainOnly
    Statuses = {"done"}
    InitDocuments <- JustNew
    MaxCommands = 2
    MaxEdits = 2
SPECIFICATION Spec
PROPERTIES
    InitKeepsQueues
