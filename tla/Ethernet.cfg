SPECIFICATION MCSpec
CONSTANTS
  Slots = 3
  MaxFrames = 7
  MaxReceived = 4
  Disturbances = {{}, {"long_frame"}, {"stack_write"}, {"prefetch"}}
  RxSlots = 1
  TxSlots = 1
  MaxArrivals = 2
  MaxSend = 1
  MaxFailures = 1
  Speeds = {100, 1000}
  MaxChanges = 2
INVARIANTS HardwareOwnsPending ReportsCompletedOnce FramesDelivered NoLostWakeup SettingCurrent
PROPERTIES OwnedBufferStable ImplementsFifo AcceptedIsSent SlotReturned NothingStuck
CHECK_DEADLOCK FALSE
