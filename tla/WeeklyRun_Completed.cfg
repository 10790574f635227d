\* One process and one attempt: a completed run whose trades were rolled back.
SPECIFICATION Spec
CONSTANTS
    r1 = r1
    Runners = {r1}
    MaxAttempts = 1
INVARIANT CompletedIsDurable
