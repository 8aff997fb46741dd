CONSTANTS
  NoValue = NoValue
  Users = {"alice", "root"}
  Registered = {"root"}
  Mfa = {"alice"}
  Admins = {"root"}
  MaxSessions = 2
  MaxCalls = 2
  MaxTimers = 1
SPECIFICATION SignInSpec
INVARIANTS SignInTypeOK GuardsHold OneSignInAtATime TokensAreLive
