\* Frames of seven bytes: header, four bytes that may look like one, checksum.
SPECIFICATION Spec
CONSTANTS
  FrameSize = 7
INVARIANTS
  IntactFrameIsFound
  FrameIsKept
