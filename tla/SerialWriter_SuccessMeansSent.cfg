SPECIFICATION Spec
CONSTANTS
    Sizes = {0, 2, 3}
    Room = 4
    NumPorts = 3
    MaxMessages = 4
PROPERTY SuccessMeansSent
