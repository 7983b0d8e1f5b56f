SPECIFICATION StartupSpec
CONSTANTS
  Inputs <- MCSettings
  MaxSends = 1
INVARIANT SettingsHonoured
