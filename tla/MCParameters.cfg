SPECIFICATION Spec
CONSTANTS
  Infos <- MCInfos
  Responses <- MCResponses
  Manual = {"m1", "m2"}
  MaxFeatures = 1
  FeatureBytes = 2
  MaxChanges = 3
  MaxCrashes = 1
INVARIANTS
  InfoDurable
  NoHalfInfo
  FeaturesOnDisk
  FacesDecode
PROPERTY CallbackUndisturbed
