SPECIFICATION Spec
CONSTANTS
  Modes = {"dim", "saver"}
  IdleTimeouts = {0, 1, 2}
  OffTimeouts = {0, 3, 4}
  MaxMissed = 1
INVARIANTS TypeOK PanelFollowsState SaverErased ChainGoesOn
PROPERTIES OffOnTime
