SPECIFICATION Spec
CONSTANTS
  Topic = {t1, t2}
  MaxEvents = 2
  MaxStops = 1
INVARIANTS EventsAccounted
PROPERTIES EventsGetHandled
