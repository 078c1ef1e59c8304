SPECIFICATION DwnFairSpec
CONSTANTS
  va = va
  vb = vb
  vc = vc
  la = la
  lb = lb
  Threads = {k1, k2}
  Voices <- TheVoices
  Languages <- TheLanguages
  Located = {va, vc, la, lb}
  NoComponent = NoComponent
INVARIANTS
  FlagIsNotStuck
PROPERTIES
  DwnIsAnswered
