SPECIFICATION MCSpec
CHECK_DEADLOCK FALSE
CONSTANTS
    alice = alice  bob = bob  carol = carol  bot = bot
    Accounts = {alice, bob, carol, bot}
    Exempt = {bot}
    Required = {"ci"}
    RequireSigning = FALSE
    AuditedBranches = {"main"}
    NoBranch = NoBranch  NoCommit = NoCommit  Failed = Failed  NoReview = NoReview
    Numbers <- OnePR
    Bases = {"main", "dev"}
    Main = "main"
    Opener = alice
    Authors = {alice, bob, bot}
    Contents = {"rename", "empty"}
    Reviewers = {bob}
    Submissions = {"APPROVED", "CHANGES_REQUESTED", "COMMENTED"}
    WebFlow = WebFlow
    Merges = {"squash", "merge", "local", "fast-forward"}
    MaxCommits = 2  MaxReviews = 3  MaxDismissals = 2  MaxAtOnce = 2  MaxTime = 3  AuditAt = 2
    NoRow = NoRow
    CheckHistories <- Reruns
    CleanReverts = {FALSE}
    MaxErrors = 1
    Kinds = {"bulk", "failures", "single"}
INVARIANTS
  StoodAtMerge
  LossesNoticed
  CompliantMeansReviewed
  ErrorsFailClosed
  AccountsAgree
  ActionNamesAReason
PROPERTIES
  ReauditNeverForgives
