SPECIFICATION LoanSpec
CONSTANTS
  Acq = {a1, a2}
  MaxReaderCount = 7
  MaxLoans = 2
  Calls <- Upgraders
INVARIANTS LooseWriterHasFlag
