CONSTANTS
  Auths = {"UNKNOWN", "USER", "ADMIN"}
  Messages <- MCMessages
SPECIFICATION RSpec
INVARIANTS
  InStep
  
  
