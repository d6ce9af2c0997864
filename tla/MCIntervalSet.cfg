\* A type of three bits: all 128 sets, and every operand for each of them.
SPECIFICATION Spec
CONSTANTS
    Top = 7
INVARIANTS
    IsCanonical
    ComparisonsAgree
