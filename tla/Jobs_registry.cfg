\* Two buckets - one agent's and the unowned one - with one place each, two
\* jobs and two waits.
SPECIFICATION FairSpec
CONSTANTS
    Owners = {a}
    Nobody = nobody
    Limit = 1
    MaxJobs = 2
    MaxWaits = 2
INVARIANTS
    RegistryOK
    CompletionReachesSomeone
    OwnerDisposalQuiet
PROPERTIES
    OutcomeIsFinal
    TeardownCompletes
CHECK_DEADLOCK FALSE
