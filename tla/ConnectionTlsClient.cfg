\* A TLS client connects.
CONSTANTS
    WRBUFSZ = 2
    NWRITERECS = 2
    RDBUFSZ = 3
    Scenarios <- TlsClient
SPECIFICATION ConnSpec
INVARIANT ReadyWhenConnected
CHECK_DEADLOCK FALSE
