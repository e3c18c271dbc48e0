\* One user, two friends, two lists; three passwords, two faults.
SPECIFICATION Spec
CONSTANTS
  f1 = f1
  f2 = f2
  close = close
  all = all
  Me = Me
  Nobody = Nobody
  Friends <- MCFriends
  Lists <- MCLists
  MaxPasswords = 3
  MaxWaiting = 2
  MaxFaults = 2
  MaxEdits = 3
CONSTRAINT MCHalves
INVARIANTS
  PasswordsAgree
  PostForItsReaders
CHECK_DEADLOCK FALSE
