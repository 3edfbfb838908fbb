SPECIFICATION TranslatorSpec
CONSTANTS
  Points = {p, q}
  Values = {0, 2, 5000}
  MaxLen = 5
PROPERTIES JobIsTheDrawing JobHasLastSettings
CHECK_DEADLOCK FALSE
