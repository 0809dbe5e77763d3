CONSTANTS
  tool = tool
  agent = agent
  inside = inside
  mcp = mcp
  Platform <- OnePlatform
  Inner <- OneInner
  Native <- OneNative
  Owner <- OneOwner
SPECIFICATION Spec
INVARIANTS EffectInDoubtIsBooked EffectRunsOnce CompletedIsQuiet
