SPECIFICATION FairSpec
CONSTANTS
    None = None
    Texts <- MC_Texts
    Modules <- MC_Modules
    Opens <- MC_Opens
    Sig <- MC_Sig
    Projects <- MC_Projects
    Files <- MC_Files
    ProjectOf <- MC_ProjectOf
    Main <- MC_Main
    Scripts <- SettleScripts
CHECK_DEADLOCK FALSE
PROPERTIES SettlesOnTheDisk
