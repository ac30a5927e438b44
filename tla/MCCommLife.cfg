CONSTANTS
  card <- MCcard
  Comm <- MCComm
  Programs <- MCPrograms
SPECIFICATION Spec
INVARIANTS
  HandlesAgree
  NoUseAfterFree
  CallsUndisturbed
  SharedMemoryReturned
