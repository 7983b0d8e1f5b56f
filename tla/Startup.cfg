SPECIFICATION StartupSpec
CONSTANTS
  Inputs <- MCInputs
  MaxSends = 3
INVARIANTS
  TypeOK
  RequestsCarryKey
  UsersKey
  GovCloudIsFIPS
  RedirectionIsServed
  CallFitsHandler
PROPERTY SendReturns
