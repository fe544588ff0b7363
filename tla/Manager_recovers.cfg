SPECIFICATION FairSpec
CONSTANT Hazards = {"CommandFails", "DaemonDies", "ConfigMoves", "Operator"}
PROPERTIES Recovers NeverStranded
