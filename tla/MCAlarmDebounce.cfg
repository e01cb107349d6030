CONSTANTS
  fire = fire
  gas = gas
  Channel = {fire, gas}
  CONFIRM_COUNT <- MCConfirm
  CONFIRM_WINDOW = 2
  RELEASE_TIMEOUT = 3
SPECIFICATION FairSpec
INVARIANT AlarmInv
PROPERTY NoFlicker Confirmed AlarmEnds
