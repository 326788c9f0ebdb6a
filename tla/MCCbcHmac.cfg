SPECIFICATION Spec
CONSTANTS
  BlockSize = 2
  MaxByte = 3
  nonceBytes = 2
  AesKeys = {2, 4}
  HashKeys = {2, 4}
  KeyLens = {3, 4, 5, 8}
  MaxLen = 4
  MaxSpare = 2
  MaxCalls = 3
  Memory <- MCMemory
  Nonces <- MCNonces
  Aads <- MCAads
  Forms <- MCForms
  Sources <- MCSources
  Rooms <- MCRooms
  CBCEncrypt <- MCEncrypt
  CBCDecrypt <- MCDecrypt
INVARIANTS
  RoundTrip
  OpensOnlyMade
PROPERTIES
  OnlyOwnRoom
CHECK_DEADLOCK FALSE
