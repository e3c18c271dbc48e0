\* Posts read, read again and commented by one thread, and by the next one.
SPECIFICATION Spec
CONSTANTS
  single = single
  second = second
  named = named
  others = others
  goodKey = goodKey
  otherKey = otherKey
  Ids <- MCIds
  MessageKeys = {goodKey, otherKey}
  MAX_SIZE = 2
  Boxes <- MCBoxes
  Anonymous <- MCAnonymous
  KeyOf <- MCKeyOf
  MaxOpened = 4
  NoReply = NoReply
  NotConcerned = NotConcerned
  Impossible = Impossible
INVARIANTS
  LastPostsKept
  CommentsReadable
