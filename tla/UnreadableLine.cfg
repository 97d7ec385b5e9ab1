SPECIFICATION Spec
CONSTANTS
  a = a
  b = b
  space = space
  newline = newline
  Letter = {a, b}
  Username <- MCUsername
  Password <- MCPassword
  auto_register = TRUE
  InitialFiles <- MCInitialFiles
  AppendFails = FALSE
  MaxText = 16
  host_id_first_client = 3
  SkippedId = 50
  MaxHostId = 4
  Nations = 2
  AllowOtherLogon = FALSE
INVARIANT NumbersStable
