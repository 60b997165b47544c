SPECIFICATION Spec
CONSTANTS
    None = None
    Texts <- MC_Texts
    Modules <- MC_Modules
    Opens <- MC_Opens
    Sig <- MC_Sig
    Projects <- MC_Projects
    Files <- MC_Files
    ProjectOf <- MC_ProjectOf
    Main <- MC_Main
    Scripts <- MC_Scripts
CHECK_DEADLOCK FALSE
INVARIANTS Coherent InterfacesAreKeyed AcquiredAreWatched LoweringFindsItsAnalyses
