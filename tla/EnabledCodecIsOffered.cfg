SPECIFICATION MediaSpec
CONSTANTS
  Supported <- TwoCodecs
  Others = {"speex"}
  Methods = {"rfc2833", "inband"}
  MaxEntries = 2
  Devices = {d1, d2}
  NoDevice = NoDevice
  SystemDefault = SystemDefault
  Tones = {t1}
  AppTone = AppTone
  NoTone = NoTone
  Processings <- TwoProcessings
INVARIANT EnabledCodecIsOffered
