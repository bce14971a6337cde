CONSTANTS
    Boards <- MCBoards
    Keys <- MCKeys
    KeyOf <- MCKeyOf
    VendorBoards = {"55-S"}
    Experimental = {"wb5"}
    Hosts = {"wbdevenv"}
    Faults = {"fail", "kill"}
    MaxBuilds = 3
SPECIFICATION Spec
INVARIANTS ImagesFinished TarballIsBase
CHECK_DEADLOCK FALSE
