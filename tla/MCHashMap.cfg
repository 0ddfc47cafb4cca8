\* Two chains, in one of which 2 and 4 collide; two workers, main and the saver.
SPECIFICATION Spec
CONSTANTS
  SIZE = 2
  Keys = {1, 2, 4}
  Workers = {w1, w2}
  Nobody = Nobody
SYMMETRY Symmetry
INVARIANTS
  TypeOK
  UpdateWillHit
  SaveExact
PROPERTIES
  ImplementsMap
