\* Every header in every place of a list of parts, and every pair of
\* Cache-Control headers, with numbers around the largest.
SPECIFICATION Spec
CONSTANTS
    Cases <- MCCases
    IntMax = 31
    MaxClock = 3
INVARIANTS
    EveryRequestHeaderIsSeen
    ControlIsHonoured
