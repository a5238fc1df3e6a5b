SPECIFICATION DashboardSpec
CONSTANTS
    c1 = c1
    c2 = c2
    Clients = {c1, c2}
    Slow <- MCSlow
    MaxVersion = 1
    None = None
    Malformed = Malformed
    Requests <- MCRequests
    MaxHeader = 1
    MaxBody = 2
    Blank = 2
    Buffer = 8
    Errors = {"submission_unknown"}
INVARIANTS
    StatusNeverGoesBack
    ReadingIsExact
    AnswersAreTrue
PROPERTIES
    RequestsAreAnswered
    PollsGoOn
