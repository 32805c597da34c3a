SPECIFICATION Spec
CONSTANTS
  s1 = s1
  s2 = s2
  r1 = r1
  r2 = r2
  b1 = b1
  NoSubject = NoSubject
  Subjects <- MCSubjects
  TypeOf <- MCTypeOf
  Arriving <- MCArriving
  MaxTaps = 4
INVARIANTS TypeOK MinimizedCanBeRestored ArrivalsNeedARace DirectionsServeTheTarget
PROPERTIES NavigationCanBeLeft
