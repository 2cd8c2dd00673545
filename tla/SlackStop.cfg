SPECIFICATION Spec
CONSTANT
  Event = {e1}
PROPERTY
  NoReconnectAfterStop
CHECK_DEADLOCK FALSE
