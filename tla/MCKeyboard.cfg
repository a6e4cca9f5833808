SPECIFICATION Spec
CONSTANTS
  keyA = keyA
  keyB = keyB
  none = none
  KEYBOARD_BUFFER_SIZE = 3
  CharKeys <- MCCharKeys
  ModKeys <- MCModKeys
  NoCode = none
  MaxWire = 1
INVARIANTS
  TypeOK
  FetchStable
  ModifiersFollowKeys
PROPERTIES
  KeysInOrder
  DropsOnlyWhenFull
  KeysAreTaken
