SPECIFICATION Spec
CONSTANTS
  c1 = c1
  m1 = m1
  s1 = s1
  s2 = s2
  Ids <- MCIds
  Mocks <- MCMocks
  MOCK_CLIENTS <- MC_MOCK_CLIENTS
  Limits = {1}
  Slots <- MCSlots
  MaxSecrets = 1
PROPERTIES
  GeneratedStays
