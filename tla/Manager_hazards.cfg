SPECIFICATION Spec
CONSTANT Hazards <- AllHazards
INVARIANTS FallbackIsReal NoStrayRenewer BeatsInTime
PROPERTIES OnlineWithoutServing KeepsPromise
