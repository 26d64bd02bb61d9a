CONSTANTS
  MAX_FRAME_BYTES = 8192
  MAX_BODY_BYTES = 4096
  MAX_USERNAME_BYTES = 32
  MIN_USERNAME_BYTES = 1
  PROTOCOL_VERSION = 1
  NameLens <- NameLensC
  BodyLens <- BodyLensC
  Versions = {0, 1, 2}
SPECIFICATION Spec
INVARIANT LostOnlyOversize
