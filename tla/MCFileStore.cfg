SPECIFICATION Spec
CONSTANTS
  c1 = c1
  c2 = c2
  v1 = v1
  v2 = v2
  NoValue = NoValue
  Clients = {c1, c2}
  Times = {1, 2}
  Methods = {"forecast", "mpc"}
  Fields = {"soc", "mode"}
  Values = {v1, v2}
  Default <- MCDefault
  Calls = 3
SYMMETRY MCSymmetry
INVARIANTS TypeOK OneLinePerKey
PROPERTY Promised
