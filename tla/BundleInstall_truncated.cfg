SPECIFICATION BundleSpec
CONSTANTS
  specKey = specKey
  coreKey = coreKey
  roleKey = roleKey
  toolKey = toolKey
  v1 = v1
  v2 = v2
  model = model
  None = None
  Malformed = Malformed
  Leftover = Leftover
  Keys <- MCKeys
  Bodies = {v1, v2}
  MaxLen = 2
  Payloads <- MCPayloads
  AssetOf <- MCAssetOf
  Decayed <- MCDecayed
  Ceiling = None
PROPERTY PresentIsComplete
