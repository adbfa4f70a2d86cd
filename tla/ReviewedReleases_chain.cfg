\* Chains of releases over every part of a manifest.
SPECIFICATION Spec
CONSTANTS
  Default <- McDefault
  Alternatives <- McAlternatives
  Focuses <- McFocuses
INVARIANTS
  RiskIsCovered
  ProtectionKept
  SilenceIsSafe
