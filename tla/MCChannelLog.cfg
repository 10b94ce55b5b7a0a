SPECIFICATION FollowSpec
CONSTANTS
    Appenders = {"core", "cli"}
    Readers = {r1}
    Keys = {k1}
    NoKey = NoKey
    Kinds = {message, progress}
    Garbage = Garbage
    NoSeq = NoSeq
    NoAppend = NoAppend
    PageSize = 1
    MaxLines = 3
    None = none
    Since = {1}
    Channels = {c1, c2}
    MaxSeq = 3
    MaxFiles = 2
    MaxEvents = 2
    MaxRuns = 2
    MaxDeaths = 1
    Workers = {w1, w2}
    MaxLaunches = 2
    MaxRemovals = 2
    Providers = {"claude", "codex"}
    MaxTurns = 2
    Blocks <- BlocksDef
    MaxAnswers = 2
    MaxItems = 1
CONSTRAINT FewAtOnce
INVARIANTS SeqContract OneEventPerKey FollowersMissNothing ListedStopped AnswersOnceThenDone
PROPERTIES ImplementsLog EventuallyHandled
