SPECIFICATION Spec
CONSTANTS
    MaxStarts = 2
    Language = {"vi-VN", "en-US"}
INVARIANTS
    SwitchedOff
    QuietWhenOff
    PageTellsTruth
