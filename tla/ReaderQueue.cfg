CONSTANTS
  Events = {a, b, none}
  numEvents = 3
  Garbage = none
SPECIFICATION Spec
PROPERTIES
  ImplementsQueue
