SPECIFICATION Spec
CONSTANTS
    Clients = {c1, c2}
    MaxGeneration = 6
    Startups = {0, 75, 90, 91}
PROPERTIES KilledOnlyIfHeld FastStartsServe
