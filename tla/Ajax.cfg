SPECIFICATION FairSpec
CONSTANTS
  Objects = {a, b}
  Libraries = {l1, l2}
  PageLibs = {}
  MaxSends = 3
INVARIANTS TypeOK Restored ContentBound LibrariesOnce StopWaits
PROPERTIES Responsive
