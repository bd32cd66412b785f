SPECIFICATION Spec
CONSTANTS
    text1 = text1
    text2 = text2
    scan = scan
    blank = blank
    image = image
    legacy = legacy
    other = other
    Passes = {p1, p2}
    Contents = {text1, text2, scan, blank, image, legacy, other}
    Kind <- MCKind
    Raised = {"unsafe"}
    OcrOutcomes = {"unavailable", "failed", "empty", "text"}
    MaxPasses = 3
INVARIANTS ParsedTextIsOfItsBytes PassLeavesOutcome
SYMMETRY Interchangeable
CHECK_DEADLOCK FALSE
