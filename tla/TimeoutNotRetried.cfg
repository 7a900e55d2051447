CONSTANTS
    MaxRetries = 3
    BaseBackoff = 1
    MaxBackoff = 3
    Cancellable = FALSE
SPECIFICATION Spec
PROPERTIES TimeoutsRetried
