SPECIFICATION FairSpec
CONSTANTS
    Sessions <- MCSessions
    Names <- KeyNames
    MaxInt = 7
    MaxAlloc = 6
CHECK_DEADLOCK FALSE
INVARIANT TypeOK
INVARIANT ExactlyWhatWasSent
INVARIANT DiesOnlyOn
INVARIANT KeysAnswersGlob
PROPERTY AllAnswered
