CONSTANTS
    Clients = {c1, c2}
    Filters <- MCFilters
    TopicNames <- MCTopicNames
    MaxSubs = 2
    MaxRetained = 2
    MaxNodes = 8
    NULL = NULL
SPECIFICATION Spec
INVARIANTS TreeSound ReceiversExact RetainedFound MatcherAgrees
PROPERTIES PlainSubscriptionsSurvive
