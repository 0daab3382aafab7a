SPECIFICATION Spec
CONSTANTS
  CMD_MAX = 3
  UART_CHUNK = 2
  TX_RING = 9
  TX_KEEP = 2
  Contents <- MCContents
  MaxCmd = 2
INVARIANTS
  TypeOK
  NeverSpliced
  QuietExchange
PROPERTIES
  
  DeviceComesBack
