SPECIFICATION Spec
CONSTANTS
    SysVars = 3
    Sessions <- MCSessions
    Others <- MCOthers
    Tables <- MCTables
    NewOrders <- MCNewOrders
    Layouts <- MCLayouts
    Marked <- HighFamilies
    MaxFileNodes = 6
    MaxVars <- MCMaxVars
INVARIANTS CallsRight EqualVectorsEqual FilesRight ImportBalanced
