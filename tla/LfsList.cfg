\* Two pushers of three elements each, two consumers, three addresses.
CONSTANTS
  p1 = p1  p2 = p2  c1 = c1  c2 = c2  a1 = a1  a2 = a2  a3 = a3
  Null = Null
  Pushers <- MCPushers
  Consumers <- MCConsumers
  Addr <- MCAddr
  MaxPush = 3
SPECIFICATION Spec
INVARIANTS NoDangling
PROPERTIES LfsRefinesStack
SYMMETRY LfsSymmetry
