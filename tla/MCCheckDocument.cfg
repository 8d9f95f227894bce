SPECIFICATION Spec
CONSTANTS
  Runs = {1, 2}
  States = {"a"}
  Readable = TRUE
  MaxReports = 1
  Fresh = "fresh"
PROPERTIES NeverClobbers
CHECK_DEADLOCK FALSE
