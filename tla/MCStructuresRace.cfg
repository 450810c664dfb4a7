SPECIFICATION RaceSpec
INVARIANT RaceLinearizable
