\* Pages of two lines, three lines written by two writers within three days.
CONSTANTS
  Writers = {w1, w2}
  Exports = {e1}
  Notes = {note}
  Blank = Blank
  NoLine = NoLine
  Batch = 2
  Retentions = {0, 1}
  MaxLines = 3
  LastDay = 3
SYMMETRY Symmetry
SPECIFICATION JournalSpec
INVARIANTS
  ExportIsComplete
  PurgedStaysPurged
