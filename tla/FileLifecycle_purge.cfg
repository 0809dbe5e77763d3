CONSTANTS
  home = home fork = fork
  first = first second = second copied = copied
  a1 = a1 a2 = a2 k1 = k1
  one = one two = two key = key
  Publishers <- AllAttempts
  Collectors <- TwoThreads
  Files <- ThreeFiles
  Contents <- TwoContents
  Keys <- OneKey
  Uploads <- TwoUploads
  Copies <- OneCopy
  Indexed <- OneIndexed
  ThreadOf <- Place
  ContentOf <- Bytes
  KeyOf <- Name
  FileOf <- Target
  SourceOf <- Origin
SPECIFICATION Spec
INVARIANT PurgeIsFinal
