CONSTANTS
    k1 = k1
    k2 = k2
    k3 = k3
    None = None
    Console = Console
    Cells = {k1, k2, k3}
    Urls <- MCUrls
    UrlOf <- MCUrlOf
    MaxLines <- MCMaxLines
    Restarts = TRUE
SPECIFICATION Spec
SYMMETRY Symmetry
INVARIANTS TypeOK AloneGetsItsOutput RestoredUnlessOverlapped SessionSharedUnlessRaced
CHECK_DEADLOCK FALSE
