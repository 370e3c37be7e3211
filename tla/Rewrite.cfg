SPECIFICATION Spec
CONSTANTS
    Blob = {b1, b2}
    MaxLength = 2
    Faults = {"build", "sync", "close", "backup", "swap", "rollback", "reopen", "remove", "crash"}
    Missing = Missing
INVARIANTS SessionUsable RewritingListKept
PROPERTIES AtomicEdits RewriteReturns
