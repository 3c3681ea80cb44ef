SPECIFICATION Spec
CONSTANTS
    short = short
    long = long
    Fields <- MCFields
    Size <- MCSize
    Lower = {"a"}
    Upper = {"A"}
    Symbols = {"1"}
    Space = " "
    Nul = "0"
    Nowhere = Nowhere
INVARIANTS
    TextFits
PROPERTY
    IsTextField
