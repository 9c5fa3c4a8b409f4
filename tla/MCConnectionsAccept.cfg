CONSTANTS
  Members = {m1, m2}
  Handlers = {h1, h2}
  Nobody = Nobody
SPECIFICATION Spec
PROPERTY OnlyPendingIsAccepted
