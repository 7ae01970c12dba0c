SPECIFICATION FairSpec
CONSTANTS
  alice = alice
  bob = bob
  list = list
  book = book
  noctx = noctx
  nomap = nomap
  notemplate = notemplate
  Workers <- MCWorkers
  Jobs <- MCJobs
  Sites <- MCSites
  Contexts <- MCContexts
  NoContext <- noctx
  SqlTexts <- MCTexts
  Unparsable <- MCUnparsable
  Failing <- MCFailing
  NoMap <- nomap
  NoTemplate <- notemplate
  LogFunc = TRUE
INVARIANTS
  SettledServed
  ResultsTrue
  RecordsKept
PROPERTIES
  EveryCallEnds
