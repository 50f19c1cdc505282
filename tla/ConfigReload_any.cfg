\* Every change at any moment; any watch may be refused.
SPECIFICATION HSpec
CONSTANTS
  noProfiles = noProfiles
  profilesA = profilesA
  unreadable = unreadable
  incomplete = incomplete
  ProfileLists <- MCProfileLists
  NoProfiles <- noProfiles
  Unreadable <- unreadable
  Incomplete <- incomplete
  FileOps <- AllOps
  MaxOps = 6
  Paced = FALSE
  WatchFaults = TRUE
INVARIANTS TypeOK OneWatch NoLeakedWatch WatchIsCurrent FileIsLoaded
PROPERTIES HearsNewFile TurnsToCwd
\* The user's changes are bounded and the daemon may be dead or asleep.
CHECK_DEADLOCK FALSE
