SPECIFICATION DownloadSpec
CONSTANTS
  Pictures = {p1, p2}
  Films = {f}
  Own = own
  Gets = 3
INVARIANT EveryPictureCredited
CHECK_DEADLOCK FALSE
