CONSTANTS
    scan = scan
    Refreshers = {scan}
    Scanner = scan
    Life = 2
    Ahead = 1
SPECIFICATION Spec
PROPERTIES
    TransientHarmless
