\* Three events: one fetched, one lost, one after it.  Two keys: one is left over.
CONSTANTS
  NULL = NULL
  Ids = {l1, l2}
  MaxEvents = 3
  MaxKeys = 2
SPECIFICATION Spec
INVARIANTS TypeOK EventsShown NoListenerLeft
PROPERTY KeyEndsEvent
