CONSTANT MaxEvents = 4
SPECIFICATION Spec
INVARIANT StatusTracksLink
