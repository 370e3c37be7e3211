SPECIFICATION Spec
CONSTANTS
    Proc = {c1, c2}
    Controllers = {c1}
    Modes = {"rw", "alt", "deflate"}
    MaxSessions = 2
    MaxFiles = 2
    MaxAdds = 2
    None = None
INVARIANTS NoLeak AckedKept
PROPERTIES NotClosedUnderCall CallsReturn
