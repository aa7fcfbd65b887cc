CONSTANTS
    Lines <- MCLines
    Envs <- MCEnvs
    HeaderNames = {"anthropic-version", "editor-version"}
    Requests = {r1, r2}
    Asks <- MCAsks
    Replies <- MCReplies
    Workers = 1
    r1 = r1
    r2 = r2
SPECIFICATION FairSpec
INVARIANTS
    ServesAsConfigured
    SentOnlyExamined
    AnswersAreHonest
    RestoredOnEveryPath
    CredentialsStayApart
PROPERTIES
    NeverSitsOnARequest
CHECK_DEADLOCK FALSE
