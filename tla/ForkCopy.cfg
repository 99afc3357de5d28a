SPECIFICATION Spec
CONSTANTS
    Proc = {s, a, b}
    Shell = s
    NoProc = NoProc
    Page = {1}
    Frame = {f1, f2, f3}
    NoFrame = NoFrame
    Data = {x, y}
INVARIANT ChildIsCopy
CHECK_DEADLOCK FALSE
