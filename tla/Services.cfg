\* A client of the library and one of its own, one topic, ports and queues of one
\* message; two keys and two settings, two changes of the file and a command;
\* an application that changes its policy three times and refuses once;
\* three wishes for the windows of one; two commands and one pick.
SPECIFICATION MCSpec
CONSTANTS
  lib = lib
  raw = raw
  topic = topic
  k1 = k1
  k2 = k2
  s1 = s1
  s2 = s2
  Clients = {lib, raw}
  Library = {lib}
  Topics = {topic}
  Star = Star
  InboxLimit = 1
  BatchLimit = 1
  MaxRequests = 2
  MaxEvents = 2
  Keys = {k1, k2}
  Settings = {s1, s2}
  Contents <- SomeContents
  Changes <- SomeChanges
  MaxEdits = 2
  MaxCommands = 1
  MaxInputs = 3
  MaxPolicies = 3
  MaxRefusals = 1
  AppWindows = {"v", "w"}
  MaxWishes = 3
  MaxListings = 1
  MaxMisreadings = 1
  Apps = {"p", "q"}
  Windows <- MCWindows
  Workspaces = {1, 2}
  App <- MCApp
  Home <- MCHome
  Cases <- MCCases
  MaxSwitches = 2
  MaxPicks = 1
  None = None
VIEW View
INVARIANTS
  SubscriptionsHold
  ConfigurationArrives
  AppsAreFollowed
  HidingIsSeen
  UserIsObeyed
CHECK_DEADLOCK FALSE
