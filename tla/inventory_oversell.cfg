SPECIFICATION Spec
CONSTANTS
  kbd = kbd
  mouse = mouse
  unknown = unknown
  oA = oA
  oB = oB
  oC = oC
  oD = oD
  w1 = w1
  w2 = w2
  t1 = t1
  t2 = t2
  t3 = t3
  NoTx = NoTx
  None = None
  Orders = {oA, oB, oC, oD}
  Txns = {t1, t2, t3}
  Workers = {w1, w2}
  Skus <- MCSkus
  Seed <- MCSeed
  Lines <- MCLines
  Host <- MCHost
INVARIANT NoOversell
