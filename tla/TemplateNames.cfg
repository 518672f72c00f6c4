SPECIFICATION AllSpec
CONSTANTS
  Pictures = {1, 2}
  Texts = {1, 2}
  Names = {"a", "A", "ab", "b", "b c"}
  Cut <- Short
  Folded <- LetterCase
  Directory <- Place
  Failures = 2
  Deaths = 1
  Stations = {"K1", "K2"}
  Snr = {"-05", "+03"}
  MaxRetries = 3
  UseRr73 = {"K1"}
  CallFirst = {"K1"}
  MaxOps = 3
  Rows = 6
  SoftLimit = 8
  HardLimit = 10
  LongRun = 6
  Arrivals = 3
  Limits = {0, 2}
  GalleryFailures = 1
PROPERTY RenamesKeep
\* Periods, audio and edits go on: no state is a deadlock.
