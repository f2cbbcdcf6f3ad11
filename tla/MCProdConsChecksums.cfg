\* Two consumers and two different items: one can be read in place of the other.
CONSTANTS
  Consumers = {c1, c2}
  Items = {1, 2}
  t = 2
  Free = free
  Stop = stop
SPECIFICATION ProdConsSpec
\* The processes end.
CHECK_DEADLOCK FALSE
INVARIANT ChecksumsAgree
