\* Two network services, both platforms.
CONSTANTS
  Services = {wifi, lan}
  NoBackup = NoBackup
SPECIFICATION Spec
INVARIANTS TightOrOpen OkMeansFree ResolverKept
