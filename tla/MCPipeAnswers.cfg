CONSTANTS
  Auths = {"USER"}
  Messages <- MCMessages
SPECIFICATION RSpec
INVARIANT OneAnswerPerMessage
