SPECIFICATION Spec
CONSTANTS
    Width = 3
    dwPolynomial = {0, 1}
    WordCount = 3
INVARIANTS
    RegisterIsRemainder
    WrittenIsSealed
