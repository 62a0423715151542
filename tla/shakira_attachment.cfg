SPECIFICATION Spec
CONSTANTS
  TypeChannel <- McTypeChannel
  FeatureChannel <- McNoChannel
  AreaChannel <- McNoChannel
  Labelled = {}
  DesignQuality = "product"
  MaxFaults = 0
INVARIANT FilesWhole
