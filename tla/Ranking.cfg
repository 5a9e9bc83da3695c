SPECIFICATION Spec
CONSTANT Ranker = {r1, r2}
PROPERTY ProvenModeStays
