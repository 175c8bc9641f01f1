SPECIFICATION WebSpec
CONSTANTS
    Names = {"acme", "globex", "ab"}
    Short = {"ab"}
    SiteStatuses = {"pending_payment", "pending", "provisioning", "active", "failed"}
    MaxPolls = 2
    PanelJobs = 2
    QueuePages <- VisitedQueues
    QueueStatuses = {"pending_payment", "pending", "failed", "suspended_billing"}
    PageConditions <- VisitedConditions
    MaxPast = 2
    MaxAsked <- AskedAtOnce
INVARIANTS
    WizardTypeOK
    StepHasTenant
    PageInRange
    OneWorkspacePerSubmit
    OneOutcomeShown
    NoticesAreTrue
    BusyHasHandler
    DeletionRetyped
PROPERTIES
    SubmitsWhatWasChecked
    SavedTenantKept
    LiveReachesWizard
    SubmitsWhatIsShown
    ExpiredIsReplaced
    RequestEnds
    JobEndIsSeen
    HandlerShowsItsEffect
CHECK_DEADLOCK FALSE
