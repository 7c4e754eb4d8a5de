SPECIFICATION FairSpec
CONSTANTS
  Tasks = {t1, t2}
  Lessons = {"04", "05", "06", "07", "08", "09", "10", "11", "11_plain", "12", "13", "16", "17", "18", "21", "21_cdev", "22"}
INVARIANTS TypeOK NoUseAfterRelease NothingDangles
PROPERTIES UnloadTerminates
CHECK_DEADLOCK FALSE
