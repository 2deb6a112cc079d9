\* Two operations at once over two sets of books and a change, or one and two changes.
SPECIFICATION FairVaultSpec
CONSTANTS
  Vaults = {v1, v2}
  Changes = {c1, c2}
  Tasks = {1, 2}
  FirstTask = 1
  MaxMade = 3
  MaxFiles = 1
  None = None
INVARIANTS
  NoSavedChangeIsLost
  ReminderTellsOfChanges
  KeyGoesWithItsBooks
PROPERTIES
  ButtonsComeBack
