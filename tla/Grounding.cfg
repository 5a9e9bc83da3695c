SPECIFICATION Spec
CONSTANTS
    Question = {q1, q2}
    Url = {u1, u2}
    MaxQuotes = 2
    MaxFetches = 1
INVARIANTS ContextIsBacked GapsArePursued
PROPERTY GroundingEnds
