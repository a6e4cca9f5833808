SPECIFICATION Spec
CONSTANTS
  MAX_COMMAND_LENGTH = 6
  MaxArgs = 3
  WIDTH = 4
  HEIGHT = 2
  Letters <- MCLetters
  Glyphs <- MCGlyphs
  Prompt <- MCPrompt
  Outputs <- MCOutputs
  Command <- MCCommand
  MenuText <- MCMenuText
  MaxKeys = 2
INVARIANTS
  TypeOK
  NothingPastCursor
  NoWordLost
  PatientUserObeyed
PROPERTIES
  GivesLine
  EchoKeepsStep
  MenusComeToRest
