SPECIFICATION FairSpec
CONSTANTS
  Nics = {"intel", "rtl"}
  RingSize = 3
  Received <- MCReceived
  Sent <- MCSent
  Arriving <- MCArriving
  RtlSize = 20
  RtlLengths = {4, 5}
INVARIANTS
  DriverIsSound
PROPERTIES
  ReceivesInOrder
  SendsInOrder
  CallsReturn
  ReceptionGoesOn
