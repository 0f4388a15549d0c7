SPECIFICATION Spec
CONSTANTS
  c1 = c1
  c2 = c2
  x1 = x1
  x2 = x2
  o1 = o1
  o2 = o2
  Claude = {c1, c2}
  Codex = {x1, x2}
  Opencode = {o1, o2}
  Names = {a, b}
  Root = "/a/b"
  Home <- MCHome
  Key <- MCKey
  MaxEvents = 3
INVARIANTS
  TypeOK
  RolesShareNoSession
PROPERTIES
  BindsTheNamed
  RefusalIsTrue
