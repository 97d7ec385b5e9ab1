SPECIFICATION LoginsSpec
CONSTANTS
  a = a
  b = b
  space = space
  newline = newline
  Letter = {a, b}
  Username <- MCUsername
  Password <- MCPassword
  auto_register = TRUE
  InitialFiles <- MCInitialFiles
  AppendFails = TRUE
  MaxText = 9
  host_id_first_client = 3
  SkippedId = 50
  MaxHostId = 4
  Nations = 2
  AllowOtherLogon = FALSE
INVARIANTS AccountsNumbered AccountsSurviveRestart OnlineIsLive KickedIffSuperseded CredentialsHold RefusedAtMostOnce
