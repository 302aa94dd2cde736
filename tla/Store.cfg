CONSTANTS
    Problems = {p, q}
    NoProblem = none
    Systems = {s, t}
    Parameters = {1, 2}
    Values = {w}
    Quoted = {}
    Libraries = {a, bad}
    Unreadable = {bad}
    ParameterFiles <- OneParameter
    Results = {r1, r2}
    Besty <- Minimum
    Deletable <- Text
    MaxCount = 1
    w = w
    r1 = r1
    r2 = r2
CONSTRAINT Small
SYMMETRY Interchangeable
SPECIFICATION Spec
INVARIANTS OneChecked TableShowsDatabase ScriptParametersKept PositionsMatch
