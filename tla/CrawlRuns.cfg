SPECIFICATION Spec
CONSTANTS
  Host = {"a", "b", "c", "d"}
  Seeds <- MCSeeds
  MaxConcurrentDomains = 3
  DomainBatchSize = 2
  DomainsPerRun = 3
  MaxPages = 1
  MaxCASRetry = 2
  MaximumAttempts = 2
  MaxFaults = 2
INVARIANT TypeOK
PROPERTY RunIsOrdered
PROPERTY SitesAreAnnounced
