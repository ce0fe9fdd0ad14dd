SPECIFICATION RouteSpec
CONSTANTS
  Transactors <- MCTransactors
  RippleNative <- MCRippleNative
  PalisadeNative <- MCPalisadeNative
  Versions <- MCVersions
  Bundled <- MCBundled
  Operations <- MCOperations
  Intents <- MCIntents
INVARIANTS ControlsHonoured SignedIsFilled GuardIsExact RefusalIsHarmless
