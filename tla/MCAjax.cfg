SPECIFICATION Spec
CONSTANTS
  f = f
  w = w
  a = a
  b = b
  l = l
  Name <- Names
  Within <- Markup
  Form = f
  Element <- Elements
  Link = {l}
  Wrapper <- Wrappers
  Troubles <- SomeTroubles
  MaxCopies = 3
INVARIANTS TypeOK OneRequest NothingLeftBehind BehavioursAttached BoundOnce
CHECK_DEADLOCK FALSE
