CONSTANTS
    BufSize = 2
    RefMax = 1
    Kinds = {"ours", "bad"}
    MaxFrames = 2
    MaxLen = 3
    MaxGap = 1
    MinSilence = 8
SPECIFICATION Spec
INVARIANT
    AnswersItsFrame
