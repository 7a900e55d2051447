CONSTANTS
    MaxRetries = 3
    BaseBackoff = 1
    MaxBackoff = 3
    Cancellable = TRUE
SPECIFICATION Spec
INVARIANTS TypeOK
PROPERTIES ImplementsTransport DelayBounded CallProgresses CallReturns
