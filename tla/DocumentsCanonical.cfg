SPECIFICATION Spec
CONSTANTS
  Scripts <- ShapeScripts
  Library <- MCLibrary
  PortOrder <- MCPortOrder
  Uncompilable <- MCUncompilable
  GeneratedHandles <- MCGeneratedHandles
  GeneratedTemplates <- MCGeneratedTemplates
  TokenGroupLimit <- MCTokenGroupLimit
  TokenSort <- MCTokenSort
  SafeInteger <- MCSafeInteger
  PlainBelow <- MCPlainBelow
  LargestFinite <- MCLargestFinite
  Nesting <- MCNesting
  Arrowed <- MCArrowed
CHECK_DEADLOCK FALSE
INVARIANT CanonicalSourceCompiles
