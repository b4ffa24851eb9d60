SPECIFICATION FairSpec
CONSTANTS
  Sizes = {96, 128, 160, 320}
  Numbers = 3
  MaxKeys = 2
INVARIANTS
  TypeOK
  FreshPicture
  OnlyListed
PROPERTIES
  CommandEnds
