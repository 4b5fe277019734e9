SPECIFICATION Spec
CONSTANTS
    Attempts = 2
    MaxLines = 1
PROPERTY SseRunExits
CHECK_DEADLOCK FALSE
