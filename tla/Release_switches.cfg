SPECIFICATION FairSpec
CONSTANTS
  l0 = l0
  r1 = r1
  r2 = r2
  Releases = {l0, r1, r2}
  Legacy = l0
  NginxConfig <- MCNginxConfig
  MaxStamp = 5
INVARIANTS ServesCurrent RecordNamesPrevious Recoverable
PROPERTIES AtomicSwitch JournalIsConsumed
CHECK_DEADLOCK FALSE
