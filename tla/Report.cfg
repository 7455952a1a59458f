\* Guided and focused runs, with and without Dex, from the answers to the ledger.
\* A run ends with its ledger, or when its catalogue is no longer the cached one.
SPECIFICATION ReportSpec
CHECK_DEADLOCK FALSE
CONSTANTS
  r1 = r1
  r2 = r2
  None = None
  Garbled = Garbled
  Entries <- EntryIds
  Class <- ClassOf
  Names <- NamesOf
  Tools <- ToolsOf
  Since <- SinceOf
  ChangedIn <- ChangedInOf
  Families <- FamilyIds
  Members <- MembersOf
  Components <- ComponentsOf
  Profile <- ProfileOf
  Jobs <- JobIds
  JobKinds <- KindsOf
  CoreRelease = 3
  Roles = {r1, r2}
  Sceptic = "sceptical-reconciler"
  Offers <- Offered
  Views <- Viewed
  Fingerprints <- InFolders
  Selections <- Chosen
  Leads <- LeadOf
  Turn <- TurnOf
  Fallback = r2
  JobMembers <- MembersOfJob
  Active <- Activity
  SkillScore = "skill-score"
  BackupRestore = "backup-restore"
  BackupFamily = "backup"
  EngineFactors = 3
  MaxOffers = 2
  MaxTokens = 2
  MaxRecommendations = 2
  MaxFactors = 2
  Intakes <- Answered
  Labels <- Under
  EngineLabel = "run"
  MaxCopies = 1
  MaxKept = 1
  MaxKills = 1
  MaxTold = 2
  Rewritten <- Offering
  Overwritten <- Overwriting
INVARIANTS DeepDivesWereDeep KeptTellsTheRun ReportsHaveTheirLedger PositionsAreSettled MovesAreRankedAsProposed AcceptedAnswersCompare
