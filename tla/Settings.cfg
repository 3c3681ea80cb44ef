\* Every setting has two values; the file may have any of them, or be missing.
SPECIFICATION SettingsSpec
CONSTANTS
    Values <- AllTwo
    Languages <- AllTwo
    Static <- StaticA
    IfAbsent <- AbsentB
    Fresh <- FreshB
    AtStart <- AtStartA
INVARIANTS
    ChoicesSurvive
    AllOrNothing
    CalledAsTyped
