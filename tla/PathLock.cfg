CONSTANTS
  p1 = p1
  p2 = p2
  p3 = p3
  e1 = e1
  e2 = e2
  e3 = e3
  e4 = e4
  NoEntry = NoEntry
  Procs <- MCProcs
  Entries <- MCEntries
  Spellings <- MCSpellings
  Keys <- MCKeys
  Abs <- MCAbs
SPECIFICATION FairSpec
INVARIANTS SingleWriter NoLeak
PROPERTY WaiterServed
