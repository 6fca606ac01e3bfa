\* One message, one flag: a write committed after the state was saved.
CONSTANTS
  Uids = {1}
  Fields = {"unread"}
  Arriving <- NoFlag
  Carried <- NoFlag
  Lanes = {"inline"}
  Servers = {"condstore"}
  Limit = 9
  MaxModseq = 3
  MaxWrites = 1
  MaxStops = 0
SPECIFICATION CheckSpec
INVARIANT StateTellsFlags
