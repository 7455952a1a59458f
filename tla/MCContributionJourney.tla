------------------------- MODULE MCContributionJourney -------------------------
(* Instances of ContributionJourney: permission sets that submit, that do     *)
(* not, and that store nothing.                                               *)
EXTENDS ContributionJourney

AllPermissions == {"review", "storage", "moderation", "attribution", "reuse", "distribution"}
SomeGrants == { AllPermissions, AllPermissions \ {"review"}, AllPermissions \ {"storage"} }
================================================================================
