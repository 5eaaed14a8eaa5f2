SPECIFICATION AutomationsSpec
CONSTANTS
  MaxRuns = 3
  Actions <- SendThenDelay
  Modes = {"restart"}
  EditModes = {}
  send = send  note = note  delay = delay  wait = wait  stop = stop  if = if
  choose = choose  repeat = repeat  while = while  callA = callA  callB = callB
  Steps = {send, note, delay, wait, stop, if, choose, repeat, while, callA, callB}
  Does <- MCDoes
  Program <- MCProgram
  ScriptVersions <- MCScripts
  MaxIterations = 2
  a1 = a1  a2 = a2
  Ids = {a1, a2}
  Kinds <- MCKinds
  Debounce = 2
  MaxTime = 4
  MaxTimers = 4
  light = light  motion = motion  scene = scene  secret = secret  NoEntity = NoEntity
  Entities <- MCEntities
  Link <- MCLink
  Always = {scene, secret}
  Internal = {secret}
  Skipped = {}
  Optimistic = {scene}
  Values = {1, 2}
  Default = 1
  MaxInputs = 3
INVARIANTS
  RestartCancels
CHECK_DEADLOCK FALSE
