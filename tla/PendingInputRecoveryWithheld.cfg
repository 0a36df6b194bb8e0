\* A claim that was withheld from its harness, over two starts of the process.
SPECIFICATION FairSpec
CONSTANTS
  MaxBoots = 2
PROPERTIES WithheldIsArchived
CHECK_DEADLOCK FALSE
