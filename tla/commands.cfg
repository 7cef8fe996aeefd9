SPECIFICATION Spec
CONSTANTS
  CommandLines <- Lines
  Numerals <- Digits
  Descriptors = {0, 3}
  Inputs <- Typed
  LineBreaks <- Breaks
  BufferSize = 3
  NoPass = NoPass
INVARIANT SecretsWiped
INVARIANT EchoRestored
 
 
