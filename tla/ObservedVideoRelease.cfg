SPECIFICATION Spec
CONSTANTS
    Calls <- MCCalls
    Bytes <- MCBytes
    MaxMedia = 2
    Entries = {"plan", "observer"}
    Capacities = {64}
INVARIANT TransientsReleasedBeforeReturn
