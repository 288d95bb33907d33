SPECIFICATION RegistrySpec
CONSTANTS
  root = root  c1 = c1  c2 = c2  c3 = c3  f = f  g = g  r1 = r1  r2 = r2  j1 = j1  t1 = t1  t2 = t2
  Chan = {root, c1, c2}
  ChannelRoot = root
  NoChan = NoChan
  RootName = "root"
  Part = {"a", "b"}
  Func = {f, g}
  Default <- MCDefault
  FuncRow = {r1, r2}
  Job = {j1}
  Override <- MCOverride
  Session = {t1}
  NoSnap = NoSnap
CHECK_DEADLOCK FALSE
INVARIANTS RegistryInv NamesArePaths
