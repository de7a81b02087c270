CONSTANT Sources <- MCSources
SPECIFICATION Spec
INVARIANTS
    AcceptsOnlyPrograms
    AcceptsAllPrograms
    TreeIsTheSource
    LabelsNameStatements
PROPERTY EveryStepLeavesLess
