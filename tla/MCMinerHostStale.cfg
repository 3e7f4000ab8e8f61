\* The comment of ltcminer.py 80-81 against the code.
SPECIFICATION HostSpec
CONSTANTS
  WORD = 2
  MaxRounds = 3
  MaxNonces = 3
INVARIANT SubmitsItsBlock
