\* Three entries distinguish before, at and after the current one; ids for two
\* replacements, or one replacement and enqueued tracks.
CONSTANTS
  NoOrder = NoOrder
  NoQueue = NoQueue
  MaxLength = 3
  MaxId = 4
SPECIFICATION Spec
INVARIANTS PeekNamesTheNaturalNext
PROPERTIES UndoRestoresTheCurrentEntry EnqueuedNextPlaysNext
