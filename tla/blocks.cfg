SPECIFICATION Spec
CONSTANTS
  x = x
  u = u
  y = y
  clip = clip
  NL = NL
  Space = Space
  Tab = Tab
  TabSize = 2
  Wide = {u}
  Char <- MCChar
  Utf8Char <- MCUtf8
  Latin1Char <- MCLatin1
  Files <- MCFiles
  Streams <- MCStreams
  Clips = {clip}
  THROUGH = THROUGH
  MaxText = 6
  MaxBeyond = 1
  MaxEdits = 2
INVARIANTS EncodingSound
PROPERTIES OneUndoStep BlockReplaced VerticalCutPastesBack
