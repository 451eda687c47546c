SPECIFICATION Spec
CONSTANT Setups <- MCSetups
VIEW Situation
INVARIANTS
    StaysValid
    PathsAgree
    ContentsAgree
    SearchesAgree
    LibraryAgrees
    HelperAgrees
    ArgsAgree
PROPERTIES
    TreePromise
    InsideTheBuffer
    NameRolledBack
CHECK_DEADLOCK FALSE
