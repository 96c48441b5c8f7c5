\* Every tightening of every request over a sample of commands.
SPECIFICATION RequestSpec
CONSTANTS
    Sample <- MCSample
    Pattern = {"DATABASE_DROP", "SERVER_SHUTDOWN_OR_REBOOT"}
PROPERTY
    TighteningNeverRelaxes
