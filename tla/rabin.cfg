SPECIFICATION RabinSpec
CONSTANTS
  Bits = 2
  Degree = 3
  size = 3
  Polynomials <- MCPolynomials
INVARIANTS RabinTypeOK IndicesInRange
PROPERTIES ImplementsSlidingWindow
