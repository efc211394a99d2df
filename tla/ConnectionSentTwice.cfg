\* Two short write requests on a plain connection.
CONSTANTS
    WRBUFSZ = 2
    NWRITERECS = 2
    RDBUFSZ = 3
    Scenarios <- TwoWrites
SPECIFICATION ConnSpec
INVARIANT ConfirmedOnce
CHECK_DEADLOCK FALSE
