SPECIFICATION Spec
CONSTANTS
  Page = {"home", "news"}
  Worker = {"w1", "w2"}
  Runs = 2
  Version = {"v1", "v2"}
  Kind <- MCKind
  PageGroupSize = 2
  MaximumAttempts = 2
  MaxFaults = 1
INVARIANT TypeOK
INVARIANT PagesAreAccounted
PROPERTY SiteIsProcessed
