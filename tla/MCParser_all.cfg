CONSTANT Sources <- AllSources
SPECIFICATION Spec
INVARIANTS
    TreeIsTheSource
    LabelsNameStatements
PROPERTY EveryStepLeavesLess
