CONSTANTS
  N = 3
  printers = printers
  disks = disks
  Resources = {printers, disks}
  Units <- TwoAndOne
SPECIFICATION FairSpec
INVARIANTS ArraysAgree RefusesOnlyUnsafe
PROPERTIES BankKept AllFinish
