\* Three names, two values, at most two parameters.
SPECIFICATION Spec
CONSTANTS
    Name = {p1, p2, p3}
    Value = {v1, v2}
    Blank = Blank
    Absent = Absent
    MaxParameters = 2
INVARIANTS ReadsWhatWasAsked NothingRedundant
