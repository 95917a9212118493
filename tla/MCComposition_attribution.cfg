\* What the rule on SENAMHI says of a clause, with no decimal excepted.
CONSTANTS
    TicksPerDay = 3
    LookbackDays = 2
    MaxPriorAlerts = 1
    QueryLimit = 2
    MaxTitleLength = 8
    MaxBodyLength = 80
    AsOf = 13
    Requests <- SomeRequests
    Histories <- SomeHistories
    LateAlerts <- SomeLate
    Drafts <- SomeDrafts
    MaxLate = 1
SPECIFICATION Spec
INVARIANTS
    NothingIsParaphrased
