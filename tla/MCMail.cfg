SPECIFICATION Spec
CONSTANTS
  Sources <- MCMailSources
  OS_MAX_PARAM = 128
  Device = {0, 1}
  Input = {0, 1}
  Letter = {5}
  Fill = {0}
PROPERTY IsLanguage
CHECK_DEADLOCK FALSE
