\* A navigation, two HTTP threads of which one aborts, one event stream, two questions.
CONSTANTS
    Navs = {n1}
    Clients = {c1, c2}
    Aborters = {c2}
    Readers = {r1}
    None = None
    MaxQuestions = 2
SPECIFICATION FairSpec
INVARIANT TypeOK
INVARIANT AnswersReachTheirQuestion
PROPERTY NavigationsEnd
CHECK_DEADLOCK FALSE
