\* Two streams filter a list whose first upstream does not serve reflection:
\* are the others reflected?  (README.md:184)
CONSTANTS
  a = a  b = b  d = d  s1 = s1  s2 = s2
  Published <- FirstOff
  Enabled = {a, b}
  Stream = {s1, s2}
SPECIFICATION Spec
INVARIANT
  ReflectsTheEnabled
CHECK_DEADLOCK FALSE
