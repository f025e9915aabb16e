SPECIFICATION Spec
CONSTANTS
  a1 = a1
  a2 = a2
  k1 = k1
  k2 = k2
  Apps = {me, other}
  Me = me
  Keys = {k1, k2}
  Addresses = {a1, a2}
  NoAddress = NoAddress
  Norm <- MCNorm
  MaxEvents = 1
INVARIANTS HiddenStayHidden ListSurvives
PROPERTY ViewCatchesUp
