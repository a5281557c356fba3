SPECIFICATION Spec
CONSTANTS
  g = g
  f = f
  t = t
  Device = {t, f, g}
  Thermostat = {t}
  V1 = {t}
  Session = {1}
  V1Hi = 2
  V2Lo = 3
  V2Hi = 4
  NoNode = NoNode
  Failures = TRUE
  MaxAnswers = 4
INVARIANT HighestCovers
