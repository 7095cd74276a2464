\* Two cards, four numbers, everything that can go wrong with fn.txt.
SPECIFICATION NumberSpec
CONSTANTS
  Cards = {c1, c2}
  Faults = {"crash", "open", "read", "truncate", "write"}
  MaxLogs = 3
INVARIANTS FreshUnlessTorn NumberNotBehind
