SPECIFICATION Spec
CONSTANTS
    Questions = {q1, q2}
    Answerable = {q1}
    Labels = {l1}
    Judged = {"pass", "fail"}
    NoRun = NoRun
    ProposalIds = {d1}
    Existing = {a1}
    Sessions = {s1, s2}
    AgentRuns = FALSE
    MaxTime = 8
    MaxRuns = 3
CONSTRAINT Focus
SYMMETRY Symmetry
INVARIANTS
    NoQuestionLost
    EvidenceBracketsProposal
PROPERTIES
    AcceptedHasLastingFix
CHECK_DEADLOCK FALSE
