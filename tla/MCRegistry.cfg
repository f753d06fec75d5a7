SPECIFICATION Spec
CONSTANTS
  Goroutines = {g1, g2}
  Names = {1, 2, 3}
  ValidNames = {1, 2}
  Offered <- MCOffered
  NoCodec = NoCodec
  Nobody = Nobody
  NoCall = NoCall
  Success = Success
  ErrInvalidNamespace = ErrInvalidNamespace
  ErrDuplicateNamespace = ErrDuplicateNamespace
INVARIANT
  MapIsSafe
PROPERTIES
  FirstRegistrationStays
  Linearizable
  CallsReturn
