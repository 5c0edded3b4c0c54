SPECIFICATION RootSpec
CONSTANTS
  joe = joe
  two = two
  minus = minus
  big = big
  huge = huge
  junk = junk
  Texts <- MCTexts
  Passwd <- MCPasswd
  Group <- MCGroup
  Number <- MCNumber
  Octal <- MCOctal
  Attrs <- MCAttrs
  IntHalf = 4
  LongHalf = 16
  MaxOptions = 2
  Creds <- MCCreds
  Blocks = {0, 1, 3, 4, 7, 8}
  MaxRun = 3
CHECK_DEADLOCK FALSE
ACTION_CONSTRAINT RequestsBesideEmptyLine
INVARIANTS TypeOK RootIsAsAsked NothingOnError AskedIsTold GrantsWithinMode ReadaheadInFile
