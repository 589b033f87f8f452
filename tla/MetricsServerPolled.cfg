\* Every failure the code handles may occur, and a scraper polls.
CONSTANTS
  Failures = {"socket", "bind", "tls", "accept", "client", "input"}
  MaxBacklog = 2
  MaxCount = 2
SPECIFICATION PolledSpec
INVARIANTS
  TypeOK
  NoThreadOutlivesServer
PROPERTIES
  ScrapesMonotone
  Ends
